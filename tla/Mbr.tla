--------------------------------- MODULE Mbr ---------------------------------
(***************************************************************************)
(* Finding the disks and partitioning them at boot (blkdevs_find and       *)
(* kernel/src/mbr.c), and the callers that use them afterwards.            *)
(*                                                                         *)
(* mbr_find() reads block 0 of every disk into a local variable.  A driver *)
(* failure is not reported to it (blkdev_rd ignores the driver's result),  *)
(* so the variable then holds what it held before: what was on the stack   *)
(* at first, the previous disk's table later.                              *)
(***************************************************************************)
EXTENDS Blkdev

CONSTANTS
  BSP,       \* the processor that boots
  Probed,    \* what each probe finds, in order: a device
  TableOf,   \* the partition table on each probed device: [sig, ents]
  StackTables \* what mbr_find's uninitialised local may hold

NPART == 4

(* An entry's address and count are 32-bit fields: their sum is a word.    *)
Entries == {e \in [type : Nat, start_lba : Nat, nsector : Nat] :
              e.start_lba + e.nsector < WORD}
Tables == [sig : BOOLEAN, ents : [1 .. NPART -> Entries]]

(* A new device has no partitions, and one without blocks has no table.    *)
ASSUME MbrAssumption ==
  /\ BSP \in Cpu
  /\ MAX_BLKDEV_CNT \in Nat \ {0} /\ BLKDEV_MAX_PARTS \in Nat
  /\ WORD \in Nat \ {0, 1}
  /\ Lbas \subseteq Word /\ Counts \subseteq Word
  /\ Probed \in Seq(Blkdevs)
  /\ TableOf \in [DOMAIN Probed -> Tables]
  /\ StackTables \subseteq Tables
  /\ \A k \in DOMAIN Probed : Probed[k].children = <<>>
  /\ \A k \in DOMAIN Probed : Probed[k].nblk = 0 => ~TableOf[k].sig

VARIABLES
  stage,     \* where _start's boot has got to
  probe,     \* the next probe
  origin,    \* history: which probe each registered device came from
  cur, ent,  \* mbr_find's loop variables
  mbr,       \* its local variable
  failed     \* history: devices whose block 0 the driver failed to read

boot_vars == <<stage, probe, origin, cur, ent, mbr, failed>>
vars == <<blk_vars, boot_vars>>

Init ==
  /\ BlkInit
  /\ stage = "probe" /\ probe = 1 /\ origin = <<>>
  /\ cur = 1 /\ ent = 1 /\ mbr \in StackTables /\ failed = {}

-----------------------------------------------------------------------------
(* blkdevs_find: a probe that finds nothing is skipped, and a full table   *)
(* ends the search.                                                        *)
probe_absent ==
  /\ stage = "probe" /\ probe <= Len(Probed)
  /\ probe' = probe + 1
  /\ UNCHANGED <<blk_vars, stage, origin, cur, ent, mbr, failed>>

probe_found ==
  /\ stage = "probe" /\ probe <= Len(Probed)
  /\ blkdev_register(Probed[probe])
  /\ IF Len(blkdevs) >= MAX_BLKDEV_CNT
     THEN probe' = Len(Probed) + 1 /\ UNCHANGED origin
     ELSE probe' = probe + 1 /\ origin' = Append(origin, probe)
  /\ UNCHANGED <<pc, req, drv, ret, stage, cur, ent, mbr, failed>>

probe_done ==
  /\ stage = "probe" /\ probe > Len(Probed)
  /\ stage' = "mbr"
  /\ UNCHANGED <<blk_vars, probe, origin, cur, ent, mbr, failed>>

-----------------------------------------------------------------------------
(* mbr_find                                                                *)
Scannable(dev) == dev.dev_type = "BDT_DISK_DRIVE" /\ dev.blk_size = 512

mbr_skip ==
  /\ stage = "mbr" /\ cur <= Len(blkdevs) /\ ~Scannable(blkdevs[cur])
  /\ cur' = cur + 1
  /\ UNCHANGED <<blk_vars, stage, probe, origin, ent, mbr, failed>>

mbr_rd ==
  /\ stage = "mbr" /\ cur <= Len(blkdevs) /\ Scannable(blkdevs[cur])
  /\ rdwr(BSP, "rd", <<cur>>, 0, 1)
  /\ stage' = "mbr_read"
  /\ UNCHANGED <<probe, origin, cur, ent, mbr, failed>>

(* The driver returns, with the table or without it.                       *)
mbr_driver ==
  /\ stage = "mbr_read"
  /\ rdwr_return(BSP)
  /\ \/ mbr' = TableOf[origin[cur]] /\ UNCHANGED failed
     \/ failed' = failed \cup {cur} /\ UNCHANGED mbr
  /\ UNCHANGED <<stage, probe, origin, cur, ent>>

(* blkdev_rd has returned: continue with the next disk when it refused or  *)
(* mbr_verify rejects the table.                                           *)
mbr_verify_unsigned(table) == TRUE
mbr_verify(table) == table.sig

mbr_check ==
  /\ stage = "mbr_read" /\ pc[BSP] = "idle"
  /\ IF ret[BSP] = 0 /\ mbr_verify(mbr)
     THEN stage' = "mbr_part" /\ ent' = 1 /\ UNCHANGED cur
     ELSE stage' = "mbr" /\ cur' = cur + 1 /\ UNCHANGED ent
  /\ UNCHANGED <<blk_vars, probe, origin, mbr, failed>>

mbr_mk_part ==
  /\ stage = "mbr_part" /\ pc[BSP] = "idle" /\ ent <= NPART
  /\ ent' = ent + 1
  /\ IF mbr.ents[ent].type = 0
     THEN UNCHANGED blk_vars
     ELSE mk_part(BSP, <<cur>>, mbr.ents[ent].start_lba, mbr.ents[ent].nsector)
  /\ UNCHANGED <<stage, probe, origin, cur, mbr, failed>>

mbr_next ==
  /\ stage = "mbr_part" /\ pc[BSP] = "idle" /\ ent > NPART
  /\ stage' = "mbr" /\ cur' = cur + 1
  /\ UNCHANGED <<blk_vars, probe, origin, ent, mbr, failed>>

mbr_done ==
  /\ stage = "mbr" /\ cur > Len(blkdevs)
  /\ stage' = "up"
  /\ UNCHANGED <<blk_vars, probe, origin, cur, ent, mbr, failed>>

-----------------------------------------------------------------------------
(* After boot every processor may read and write every device.             *)
Use(c) ==
  /\ stage = "up"
  /\ \E dev \in Devices, at \in Lbas, n \in Counts, op \in {"rd", "wr"} :
       rdwr(c, op, dev, at, n)
  /\ UNCHANGED boot_vars

DriverDone(c) ==
  /\ stage = "up"
  /\ rdwr_return(c)
  /\ UNCHANGED boot_vars

(* A system without a device to use has nothing left to do.                *)
NoDevice == stage = "up" /\ blkdevs = <<>> /\ UNCHANGED vars

Next ==
  \/ probe_absent \/ probe_found \/ probe_done
  \/ mbr_skip \/ mbr_rd \/ mbr_driver \/ mbr_check
  \/ mbr_mk_part \/ mbr_next \/ mbr_done \/ NoDevice
  \/ \E c \in Cpu : Use(c) \/ DriverDone(c) \/ (Inside(c) /\ UNCHANGED boot_vars)

Spec == Init /\ [][Next]_vars

-----------------------------------------------------------------------------
(* The partitions that the first n entries of a table describe on a device *)
(* of nblk blocks: one for each used entry that fits, in the order of the  *)
(* entries, as long as there is room for them.                             *)
Fitting(table, nblk, n) ==
  {k \in 1 .. n : /\ table.ents[k].type # 0
                  /\ table.ents[k].start_lba + table.ents[k].nsector <= nblk}
Rank(S, k) == Cardinality({l \in S : l <= k})
PartsOf(children, table, nblk, n) ==
  LET fit == Fitting(table, nblk, n) IN
  /\ Len(children) = IF Cardinality(fit) < BLKDEV_MAX_PARTS
                     THEN Cardinality(fit) ELSE BLKDEV_MAX_PARTS
  /\ \A k \in fit : Rank(fit, k) <= BLKDEV_MAX_PARTS =>
       children[Rank(fit, k)] = Part(table.ents[k].start_lba, table.ents[k].nsector)

Described(children, table, nblk) ==
  IF table.sig THEN PartsOf(children, table, nblk, NPART) ELSE children = <<>>

(* After boot a device that could be read has exactly the partitions its   *)
(* own table describes, whatever happened to the devices before it, and a  *)
(* device that is not scanned has none (mbr_find, blkdev_mk_part).         *)
PartsMatchTable ==
  stage = "up" =>
    \A k \in DOMAIN blkdevs : k \notin failed =>
      IF Scannable(blkdevs[k])
      THEN Described(blkdevs[k].children, TableOf[origin[k]], blkdevs[k].nblk)
      ELSE blkdevs[k].children = <<>>
=============================================================================
