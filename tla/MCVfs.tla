-------------------------------- MODULE MCVfs --------------------------------
(* A tree of five devices: a FAT12 disk, two FAT16 volumes, one whose boot *)
(* sector counts more sectors in front of the data than there are, and a   *)
(* device that is no disk drive, with a cluster size of 0.                 *)
EXTENDS Vfs, TLC

B(clusters, cluster_size, fat_sectors) ==
  [sig |-> TRUE, sector_size |-> 2, fat_sectors |-> fat_sectors, fat_cnt |-> 2,
   res_sector_cnt |-> 1, root_dirent_cnt |-> 3, cluster_size |-> cluster_size,
   sector_cnt |-> 1 + 2 * fat_sectors + 2 + cluster_size * clusters]

TagSymmetry == Permutations(Tags)

MCOffs == {-1, 2, 5}
MCFlags == {{"VFF_READ"}, {"VFF_READ", "VFF_WRITE"}}

MCTree == <<"hd", "p1", "p2", "p3", "rom">>
MCBpb == [hd |-> B(3, 2, 1), p1 |-> B(4, 1, 1), p2 |-> B(5, 1, 2),
          p3 |-> [B(1, 1, 1) EXCEPT !.sector_cnt = 3],
          rom |-> [B(9, 1, 1) EXCEPT !.cluster_size = 0]]
MCFormat == [hd |-> "FAT12", p1 |-> "FAT16", p2 |-> "FAT16", p3 |-> "none", rom |-> "none"]
MCDevType == [dev \in DOMAIN MCBpb |->
                IF dev = "rom" THEN "BDT_NULL" ELSE "BDT_DISK_DRIVE"]
MCBlkSize == [dev \in DOMAIN MCBpb |-> 2]

(* An old FAT16 boot sector, and one of FAT32 with a cluster size of 0:    *)
(* refused when verified, and divided by when the driver is created.       *)
MCStackBpbs == {B(8, 1, 3), [B(9, 1, 0) EXCEPT !.cluster_size = 0]}

(* A read-only file in two clusters in a row and a directory; a file in    *)
(* two clusters apart from each other.                                     *)
F(chain, size, dir, ro) ==
  [cluster |-> chain[1], size |-> size, dir |-> dir, ro |-> ro, chain |-> chain]
MCFiles == [dev \in DOMAIN MCBpb |->
              IF dev \in {"p1", "p3"} THEN {F(<<2, 3>>, 3, FALSE, TRUE), F(<<5>>, 0, TRUE, FALSE)}
              ELSE {F(<<3, 5>>, 3, FALSE, FALSE)}]
=============================================================================
