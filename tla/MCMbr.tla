-------------------------------- MODULE MCMbr --------------------------------
(* Four probes: a disk with a table, an unsupported device, a disk with    *)
(* another table, one without; there is room for two of them.              *)
EXTENDS Mbr

Dev(type, driver, size, nblk) ==
  [dev_type |-> type, driver |-> driver, blk_size |-> size, nblk |-> nblk,
   children |-> <<>>]
E(type, start, n) == [type |-> type, start_lba |-> start, nsector |-> n]

MCProbed == <<Dev("BDT_DISK_DRIVE", "BD_ATA_PIO", 512, 4),
              Dev("BDT_DISK_DRIVE", "BD_NULL", 4096, 3),
              Dev("BDT_DISK_DRIVE", "BD_ATA_PIO", 512, 2),
              Dev("BDT_DISK_DRIVE", "BD_ATA_PIO", 512, 1)>>

(* An entry that does not fit, an unused one, one partition more than      *)
(* there is room for; a table that fits; a disk without a table.           *)
Table1 == [sig |-> TRUE, ents |-> <<E(6, 1, 2), E(6, 2, 3), E(0, 0, 0), E(6, 3, 1)>>]
Table2 == [sig |-> TRUE, ents |-> <<E(6, 0, 1), E(6, 1, 0), E(6, 1, 1), E(0, 0, 0)>>]
Table3 == [sig |-> FALSE, ents |-> <<E(6, 0, 1), E(0, 0, 0), E(0, 0, 0), E(0, 0, 0)>>]
MCTables == <<Table1, Table2, Table2, Table3>>

(* The stack holds nothing, or bytes that look like a table.               *)
StackTable == [sig |-> TRUE, ents |-> <<E(6, 0, 1), E(6, 0, 9), E(0, 0, 0), E(6, 1, 1)>>]
MCStackTables == {Table3, StackTable}
=============================================================================
