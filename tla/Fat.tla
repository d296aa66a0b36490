--------------------------------- MODULE Fat ---------------------------------
(***************************************************************************)
(* The FAT16 driver (kernel/src/fat.c): recognising a volume, and its      *)
(* table of open files.  The directory search is in module FatDir.         *)
(*                                                                         *)
(* Every operator takes a driver's file_descs, a sequence of descriptors,  *)
(* and gives the one after the call; a file id is an index into it.        *)
(* fat_vfs_wr is empty in the code.                                        *)
(***************************************************************************)
EXTENDS Integers, Sequences

CONSTANTS
  FAT_MAX_FILE_DESCS,
  MIN_CLUSTERS,   \* 4085: volumes with fewer are FAT12
  DIRENT_SIZE,    \* bytes of a directory entry, 32
  SECTOR,         \* the only supported sector size, 512
  WORD            \* 2^64

VFS_FILE_ID_NULL == 0

ASSUME FatAssumption ==
  /\ FAT_MAX_FILE_DESCS \in Nat /\ MIN_CLUSTERS \in Nat
  /\ DIRENT_SIZE \in Nat /\ SECTOR \in Nat \ {0} /\ WORD \in Nat \ {0, 1}

-----------------------------------------------------------------------------
(* The volume: numbers derived from the boot sector, in size_t arithmetic. *)

root_sector_cnt(bpb) ==
  (DIRENT_SIZE * bpb.root_dirent_cnt + bpb.sector_size - 1) \div bpb.sector_size
first_data_sector(bpb) ==
  bpb.res_sector_cnt + bpb.fat_cnt * bpb.fat_sectors + root_sector_cnt(bpb)
data_sector_cnt(bpb) == (bpb.sector_cnt - first_data_sector(bpb)) % WORD
cluster_cnt(bpb) == data_sector_cnt(bpb) \div bpb.cluster_size

(* fat_verify: "ok" for a boot sector that is signed, has 512-byte sectors *)
(* and is not FAT32, ExFAT or FAT12; "fault" when fat.c:79 divides by a    *)
(* cluster size of 0, which no check comes before.                         *)
Signed(blk_size, bpb) ==
  /\ blk_size = SECTOR /\ bpb.sig /\ bpb.sector_size = SECTOR
  /\ bpb.fat_sectors # 0
fat_verify_any_size(blk_size, bpb) ==
  IF ~Signed(blk_size, bpb) \/ bpb.sector_cnt = 0 THEN "refused"
  ELSE IF bpb.cluster_size = 0 THEN "fault" ELSE "ok"
fat_verify(blk_size, bpb) ==
  IF ~Signed(blk_size, bpb) THEN "refused"
  ELSE IF bpb.cluster_size = 0 THEN "fault"
  ELSE IF bpb.sector_cnt # 0 /\ cluster_cnt(bpb) >= MIN_CLUSTERS THEN "ok"
  ELSE "refused"

(* What fat_driver_create keeps of the boot sector it reads, the numbers   *)
(* the driver finds clusters with; it divides by both sizes.               *)
Divides(bpb) == bpb.sector_size # 0 /\ bpb.cluster_size # 0
Geometry(bpb) ==
  [sector_size |-> bpb.sector_size, cluster_size |-> bpb.cluster_size,
   first_data_sector |-> first_data_sector(bpb)]

(* Where a cluster starts on the device; the first one is number 2.        *)
cluster_to_pos_from_0(geom, cluster) ==
  (geom.sector_size * (geom.first_data_sector + cluster * geom.cluster_size)) % WORD
cluster_to_pos(geom, cluster) ==
  (geom.sector_size * (geom.first_data_sector + (cluster - 2) * geom.cluster_size))
    % WORD

-----------------------------------------------------------------------------
(* The table of open files.                                                *)

Closed == [open |-> FALSE, cluster |-> 0, size |-> 0, file_pos |-> 0]

NoFiles == [fid \in 1 .. FAT_MAX_FILE_DESCS |-> Closed]

fat_vfs_is_open(descs, fid) == descs[fid].open

(* find_slot, and the descriptor fat_vfs_open stores in it.                *)
FreeSlots_any(descs) == DOMAIN descs
FreeSlots(descs) == {fid \in DOMAIN descs : ~descs[fid].open}
find_slot(descs) ==
  IF FreeSlots(descs) = {} THEN VFS_FILE_ID_NULL
  ELSE CHOOSE fid \in FreeSlots(descs) : \A g \in FreeSlots(descs) : fid <= g

FatOpen(descs, fid, file) ==
  [descs EXCEPT ![fid] = [open |-> TRUE, cluster |-> file.cluster,
                          size |-> file.size, file_pos |-> 0]]

(* fat_vfs_open refuses directories, and read-only files opened to write.  *)
MayOpen(file, flags) == ~file.dir /\ ~("VFF_WRITE" \in flags /\ file.ro)

fat_vfs_close(descs, fid) == [descs EXCEPT ![fid] = Closed]

(* fat_vfs_seek: the new position.  A comparison of the signed offset with *)
(* a size_t converts it to unsigned.                                       *)
AtLeast(x, low) == IF x < low THEN low ELSE x
AtMost(x, high) == IF (x % WORD) > high THEN high ELSE x
SeekPos_unclamped(fd, whence, off) ==
  CASE whence = "VW_START" -> AtMost(AtLeast(off, 0), fd.size)
    [] whence = "VW_CUR"   -> fd.file_pos + AtMost(AtLeast(off, -fd.file_pos),
                                                   fd.size - fd.file_pos)
    [] whence = "VW_END"   -> fd.size + AtLeast(off, -fd.size)
SeekPos_absolute(fd, whence, off) ==
  CASE whence = "VW_START" -> AtMost(AtLeast(off, 0), fd.size)
    [] whence = "VW_CUR"   -> AtMost(AtLeast(off, -fd.file_pos), fd.size - fd.file_pos)
    [] whence = "VW_END"   -> fd.size + (IF off > 0 THEN 0 ELSE AtLeast(off, -fd.size))
SeekPos(fd, whence, off) ==
  CASE whence = "VW_START" -> AtMost(AtLeast(off, 0), fd.size)
    [] whence = "VW_CUR"   -> fd.file_pos + AtMost(AtLeast(off, -fd.file_pos),
                                                   fd.size - fd.file_pos)
    [] whence = "VW_END"   -> fd.size + (IF off > 0 THEN 0 ELSE AtLeast(off, -fd.size))
fat_vfs_seek(descs, fid, whence, off) ==
  [descs EXCEPT ![fid].file_pos = SeekPos(descs[fid], whence, off)]

(* fat_vfs_rd goes to the disk unless the read starts at or passes the end *)
(* of the file: to n bytes from rd_pos on, in one piece, whichever clusters*)
(* the file continues in (the TODO at fat.c:6).  It leaves file_pos alone. *)
Readable(fd, n) ==
  /\ fd.file_pos < fd.size
  /\ (fd.file_pos + n) % WORD <= fd.size
rd_pos(geom, fd) == (cluster_to_pos(geom, fd.cluster) + fd.file_pos) % WORD
=============================================================================
