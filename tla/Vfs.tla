--------------------------------- MODULE Vfs ---------------------------------
(***************************************************************************)
(* The virtual file system (kernel/src/vfs.c) over FAT volumes: the table  *)
(* of mounted drives, and the calls on open files.                         *)
(*                                                                         *)
(* The VFS has no lock (vfs.h:9 plans one); it is called by one processor. *)
(* A driver failure below it is silent (blkdev_rd returns 0), so a boot    *)
(* sector that could not be read is whatever the stack held.  A mount      *)
(* reads it twice more, to verify the volume and to create the driver.     *)
(* vfs_unmount, vfs_unmount_all and vfs_wr are empty in the code.          *)
(***************************************************************************)
EXTENDS Fat, FiniteSets

CONSTANTS
  NDRIVES,        \* 255: drive ids are 8 bits and 0 is none
  Tree,           \* the block devices in the order of the mount tree
  Bpb,            \* boot sector of each
  BlkSize,        \* block size of each
  DevType,        \* device type of each
  Format,         \* what each was formatted as
  Files,          \* files found on each: [cluster, size, dir, ro, chain]
  Tags,           \* callers' handles
  StackJunk,      \* what an uninitialised int may hold
  StackBpbs,      \* what an uninitialised sector buffer may hold
  Flags,          \* open flags: sets of "VFF_READ" and "VFF_WRITE"
  Offs, Counts    \* seek offsets and read lengths

VFS_DRIVE_ID_NULL == 0

Dev == {Tree[k] : k \in DOMAIN Tree}
AllFiles == UNION {Files[dev] : dev \in Dev}
Whence == {"VW_START", "VW_CUR", "VW_END"}

Bpbs == [sig : BOOLEAN, sector_size : Nat, cluster_size : Nat, res_sector_cnt : Nat,
         fat_cnt : Nat, root_dirent_cnt : Nat, sector_cnt : Nat, fat_sectors : Nat]

(* A file that is not empty has clusters enough for its bytes: the chain   *)
(* of them that the file allocation table holds, from the one its entry    *)
(* names.  Positions on a device are far below 2^64, with a 16-bit number  *)
(* of clusters of at most 255 sectors.                                     *)
ClusterBytes(dev) == Bpb[dev].sector_size * Bpb[dev].cluster_size
Allocated(dev, f) ==
  /\ f.chain \in Seq(Nat) /\ f.chain # <<>> /\ f.chain[1] = f.cluster
  /\ f.cluster >= 2 /\ f.size <= Len(f.chain) * ClusterBytes(dev)
  /\ Bpb[dev].sector_size
       * (first_data_sector(Bpb[dev]) + (f.cluster - 2) * Bpb[dev].cluster_size)
         + f.size < WORD

(* File sizes have 32 bits of a 64-bit word; a seek offset is a long long; *)
(* a buffer to read into fills less than half of the address space.        *)
Half == WORD \div 2
ASSUME VfsAssumption ==
  /\ NDRIVES \in Nat /\ StackJunk \subseteq Int
  /\ Tree \in Seq(Dev)
  /\ Bpb \in [Dev -> Bpbs] /\ StackBpbs \subseteq Bpbs
  /\ \A f \in AllFiles :
       /\ f.cluster \in Nat /\ f.size \in 0 .. Half - 1
       /\ f.dir \in BOOLEAN /\ f.ro \in BOOLEAN
  /\ \A dev \in Dev : \A f \in Files[dev] :
       fat_verify(BlkSize[dev], Bpb[dev]) = "ok" /\ f.size > 0 => Allocated(dev, f)
  /\ Offs \subseteq -Half .. Half - 1
  /\ Counts \subseteq 0 .. Half - 1

VARIABLES
  drives,    \* [mounted, blkdev, fs, geom, file_descs] of each slot
  stage, k,  \* vfs_auto_mount: where it is, the device it has reached
  handle,    \* struct vfs_file of each caller, and what it was opened for
  last_rd,   \* history: the read of the last step, if it reached the disk
  misread    \* history: devices whose boot sector could not be read once

vars == <<drives, stage, k, handle, last_rd, misread>>

NoGeometry == [sector_size |-> 0, cluster_size |-> 0, first_data_sector |-> 0]
NoDrive == [mounted |-> FALSE, blkdev |-> "none", fs |-> "VF_NULL",
            geom |-> NoGeometry, file_descs |-> NoFiles]
NoHandle == [drive |-> VFS_DRIVE_ID_NULL, file |-> VFS_FILE_ID_NULL,
             of |-> "none"]
NoRead == [dev |-> "none", of |-> "none", size |-> 0, from |-> 0, n |-> 0, at |-> 0]

Init ==
  /\ drives = [id \in 1 .. NDRIVES |-> NoDrive]
  /\ stage = "auto" /\ k = 1
  /\ handle = [t \in Tags |-> NoHandle]
  /\ last_rd = NoRead /\ misread = {}

-----------------------------------------------------------------------------
(* A read of the boot sector: what is on the device, or what the buffer    *)
(* held before when the driver failed.  There is none of a device with     *)
(* another block size, and fat_verify refuses that.                        *)
BootSectors(dev) ==
  {[bpb |-> Bpb[dev], bad |-> FALSE]}
    \cup IF BlkSize[dev] = SECTOR THEN {[bpb |-> b, bad |-> TRUE] : b \in StackBpbs}
         ELSE {}
Verify(dev, rd) == fat_verify(BlkSize[dev], rd.bpb)
MisreadIf(bad, dev) == misread' = IF bad THEN misread \cup {dev} ELSE misread

vfs_get_mount_fs_unmounted(dev) ==
  LET at == {id \in DOMAIN drives : ~drives[id].mounted /\ drives[id].blkdev = dev}
  IN  IF at = {} THEN "VF_NULL" ELSE drives[CHOOSE id \in at : TRUE].fs
vfs_get_mount_fs(dev) ==
  LET at == {id \in DOMAIN drives : drives[id].mounted /\ drives[id].blkdev = dev}
  IN  IF at = {} THEN "VF_NULL" ELSE drives[CHOOSE id \in at : TRUE].fs

(* vfs.c's find_slot.                                                      *)
Unmounted == {id \in DOMAIN drives : ~drives[id].mounted}
find_drive_slot == {id \in Unmounted : \A j \in Unmounted : id <= j}

vfs_cnt_mounted == Cardinality({id \in DOMAIN drives : drives[id].mounted})

(* vfs_mount: refuse a device that is mounted, take the first free slot,   *)
(* create the driver, fill the slot.  fat_driver_create verifies and reads *)
(* the boot sector once more.  Back in its caller the stage is after.      *)
Mounted(dev, fs, geom) ==
  [mounted |-> TRUE, blkdev |-> dev, fs |-> fs, geom |-> geom, file_descs |-> NoFiles]

mount_refused(dev, fs, after) ==
  /\ vfs_get_mount_fs(dev) # "VF_NULL" \/ find_drive_slot = {} \/ fs # "VF_FAT_16"
  /\ stage' = after /\ UNCHANGED <<drives, misread>>

mount_unverified(dev, fs, after) ==
  /\ vfs_get_mount_fs(dev) = "VF_NULL" /\ fs = "VF_FAT_16" /\ find_drive_slot # {}
  /\ \E rd \in BootSectors(dev) :
       /\ Verify(dev, rd) # "ok" /\ MisreadIf(rd.bad, dev)
       /\ stage' = IF Verify(dev, rd) = "fault" THEN "fault" ELSE after
  /\ UNCHANGED drives

mount_verified(dev, fs, after) ==
  /\ vfs_get_mount_fs(dev) = "VF_NULL" /\ fs = "VF_FAT_16"
  /\ \E slot \in find_drive_slot, rd, again \in BootSectors(dev) :
       /\ Verify(dev, rd) = "ok" /\ MisreadIf(rd.bad \/ again.bad, dev)
       /\ IF Divides(again.bpb)
          THEN /\ drives' = [drives EXCEPT ![slot] = Mounted(dev, fs, Geometry(again.bpb))]
               /\ stage' = after
          ELSE stage' = "fault" /\ UNCHANGED drives

vfs_mount(dev, fs, after) ==
  \/ mount_refused(dev, fs, after) \/ mount_unverified(dev, fs, after)
  \/ mount_verified(dev, fs, after)

-----------------------------------------------------------------------------
(* vfs_auto_mount: try_mount_tree probes every disk drive of the tree.     *)
try_mount_skip ==
  /\ stage = "auto" /\ k <= Len(Tree) /\ DevType[Tree[k]] # "BDT_DISK_DRIVE"
  /\ k' = k + 1
  /\ UNCHANGED <<drives, stage, handle, misread>> /\ last_rd' = NoRead

try_mount ==
  /\ stage = "auto" /\ k <= Len(Tree) /\ DevType[Tree[k]] = "BDT_DISK_DRIVE"
  /\ \E rd \in BootSectors(Tree[k]) :
       /\ MisreadIf(rd.bad, Tree[k])
       /\ stage' = CASE Verify(Tree[k], rd) = "ok" -> "mount"
                     [] Verify(Tree[k], rd) = "refused" -> "auto"
                     [] Verify(Tree[k], rd) = "fault" -> "fault"
       /\ k' = IF Verify(Tree[k], rd) = "refused" THEN k + 1 ELSE k
  /\ UNCHANGED <<drives, handle>> /\ last_rd' = NoRead

try_mount_found ==
  /\ stage = "mount"
  /\ vfs_mount(Tree[k], "VF_FAT_16", "auto")
  /\ k' = k + 1
  /\ UNCHANGED handle /\ last_rd' = NoRead

(* init_stage_2: without a mounted drive the kernel stops.                 *)
auto_mount_done ==
  /\ stage = "auto" /\ k > Len(Tree)
  /\ stage' = IF vfs_cnt_mounted = 0 THEN "hung" ELSE "up"
  /\ UNCHANGED <<drives, k, handle, misread>> /\ last_rd' = NoRead

(* Without a drive, or after a division fault, the kernel does nothing.    *)
Hung == stage \in {"hung", "fault"} /\ UNCHANGED vars

-----------------------------------------------------------------------------
(* Calls after boot.                                                       *)
mount(dev, fs) ==
  /\ stage = "up"
  /\ vfs_mount(dev, fs, "up")
  /\ UNCHANGED <<k, handle>> /\ last_rd' = NoRead

(* vfs_open: drive_id starts uninitialised and the digits of the path are  *)
(* added to it.  f is the entry the path leads to on the drive it reached. *)
OpenIn(t, id, f, flags) ==
  LET fid == find_slot(drives[id].file_descs) IN
  /\ id \in DOMAIN drives /\ drives[id].mounted
  /\ f \in Files[drives[id].blkdev] /\ MayOpen(f, flags)
  /\ fid # VFS_FILE_ID_NULL
  /\ drives' = [drives EXCEPT ![id].file_descs = FatOpen(@, fid, f)]
  /\ handle' = [handle EXCEPT ![t] = [drive |-> id, file |-> fid, of |-> f]]

vfs_open(t) ==
  /\ stage = "up" /\ handle[t] = NoHandle
  /\ \E named \in 1 .. NDRIVES, junk \in StackJunk, flags \in Flags :
       \E f \in AllFiles :
         OpenIn(t, named + junk, f, flags)
  /\ UNCHANGED <<stage, k, misread>> /\ last_rd' = NoRead

(* The other calls check the handle, then that its file id is open.        *)
Usable(t) ==
  LET h == handle[t] IN
  /\ stage = "up"
  /\ h.drive # VFS_DRIVE_ID_NULL /\ h.file # VFS_FILE_ID_NULL
  /\ fat_vfs_is_open(drives[h.drive].file_descs, h.file)

(* A caller that closed a file no longer uses its handle.                  *)
vfs_close(t) ==
  LET h == handle[t] IN
  /\ Usable(t)
  /\ drives' = [drives EXCEPT ![h.drive].file_descs = fat_vfs_close(@, h.file)]
  /\ handle' = [handle EXCEPT ![t] = NoHandle]
  /\ UNCHANGED <<stage, k, misread>> /\ last_rd' = NoRead

vfs_seek(t) ==
  LET h == handle[t] IN
  /\ Usable(t)
  /\ \E whence \in Whence, off \in Offs :
       drives' = [drives EXCEPT ![h.drive].file_descs =
                    fat_vfs_seek(@, h.file, whence, off)]
  /\ UNCHANGED <<stage, k, handle, misread>> /\ last_rd' = NoRead

vfs_abs_tell(t) == drives[handle[t].drive].file_descs[handle[t].file].file_pos

vfs_rd(t) ==
  LET drive == drives[handle[t].drive]
      fd == drive.file_descs[handle[t].file]
  IN
  /\ Usable(t)
  /\ \E n \in Counts :
       /\ Readable(fd, n)
       /\ last_rd' = [dev |-> drive.blkdev, of |-> handle[t].of, size |-> fd.size,
                      from |-> vfs_abs_tell(t), n |-> n, at |-> rd_pos(drive.geom, fd)]
  /\ UNCHANGED <<drives, stage, k, handle, misread>>

Next ==
  \/ try_mount_skip \/ try_mount \/ try_mount_found \/ auto_mount_done \/ Hung
  \/ \E dev \in Dev, fs \in {"VF_NULL", "VF_FAT_16"} : mount(dev, fs)
  \/ \E t \in Tags : vfs_open(t) \/ vfs_close(t) \/ vfs_seek(t) \/ vfs_rd(t)

Spec == Init /\ [][Next]_vars

-----------------------------------------------------------------------------
(* No block device is mounted twice, by boot and later callers together    *)
(* (vfs.c:62).                                                             *)
NoDoubleMount ==
  \A a, b \in DOMAIN drives :
    drives[a].mounted /\ drives[b].mounted /\ drives[a].blkdev = drives[b].blkdev
      => a = b

(* vfs_auto_mount mounts exactly the FAT16 volumes among the disk drives   *)
(* whose boot sectors could be read and count no more sectors in front of  *)
(* the data than there are on the volume, as long as it has slots.  (With  *)
(* more, fat.c:78 wraps and fat_verify takes any such device for FAT16.)   *)
Consistent(dev) == first_data_sector(Bpb[dev]) <= Bpb[dev].sector_cnt
AutoMountRight ==
  stage = "up" =>
    \A dev \in {d \in Dev \ misread : Consistent(d)} :
      LET mounted == \E id \in DOMAIN drives : drives[id].mounted /\ drives[id].blkdev = dev
      IN  /\ mounted => Format[dev] = "FAT16"
          /\ ~mounted /\ Format[dev] = "FAT16" /\ DevType[dev] = "BDT_DISK_DRIVE"
               => Unmounted = {}

(* Open files do not share descriptors, and each handle's descriptor is    *)
(* open and describes the file it was opened for: find_slot and            *)
(* fat_vfs_close reuse ids without mixing files up.                        *)
HandlesApart ==
  \A t \in Tags : handle[t] # NoHandle =>
    LET h == handle[t]
        fd == drives[h.drive].file_descs[h.file]
    IN  /\ fd.open /\ fd.cluster = h.of.cluster /\ fd.size = h.of.size
        /\ \A u \in Tags \ {t} : <<handle[u].drive, handle[u].file>> # <<h.drive, h.file>>

(* No sequence of seeks takes a file position out of its file, and a read  *)
(* that is passed on starts and ends at offsets inside it (fat_vfs_seek,   *)
(* fat_vfs_rd).  Which bytes it fetches is the next property.              *)
PosInFile ==
  /\ \A id \in DOMAIN drives : \A fid \in DOMAIN drives[id].file_descs :
       LET fd == drives[id].file_descs[fid] IN
       fd.file_pos \in 0 .. fd.size
  /\ last_rd.from + last_rd.n <= last_rd.size

(* A read fetches from the disk the bytes of the file its handle was       *)
(* opened for, at the offset its position says, as long as the clusters up *)
(* to that of its last byte lie one behind the other and the boot sector   *)
(* could be read (fat_driver_create, cluster_to_pos, fat_vfs_rd).  Beyond  *)
(* that it does not: fat.c:489 reads on past the first cluster into        *)
(* whatever lies there (the TODO at fat.c:6).                              *)
BytePos(dev, f, o) ==
  LET bpb == Bpb[dev] IN
  bpb.sector_size
    * (first_data_sector(bpb)
         + (f.chain[o \div ClusterBytes(dev) + 1] - 2) * bpb.cluster_size)
    + (o % ClusterBytes(dev))
InARow(dev, f, last) ==
  \A j \in 0 .. last \div ClusterBytes(dev) : f.chain[j + 1] = f.cluster + j
ReadsFileBytes ==
  LET rd == last_rd IN
  rd.n > 0 /\ rd.dev \notin misread /\ InARow(rd.dev, rd.of, rd.from + rd.n - 1) =>
    \A b \in 0 .. rd.n - 1 : rd.at + b = BytePos(rd.dev, rd.of, rd.from + b)

(* Seeks from the start or the end, and forward from the current position, *)
(* land where they should: at the target, or at the end of the file that   *)
(* is nearest to it.  (A backward seek from the current position does not: *)
(* its negative offset is compared as an unsigned number, fat.c:460.)      *)
Target(fd, whence, off) ==
  off + CASE whence = "VW_START" -> 0 [] whence = "VW_CUR" -> fd.file_pos
          [] whence = "VW_END" -> fd.size
SeekLands ==
  \A id \in DOMAIN drives : \A fid \in DOMAIN drives[id].file_descs :
    \A whence \in Whence, off \in Offs :
      LET fd == drives[id].file_descs[fid]
          target == Target(fd, whence, off)
      IN  whence # "VW_CUR" \/ off >= 0 =>
            SeekPos(fd, whence, off) =
              IF target < 0 THEN 0 ELSE IF target > fd.size THEN fd.size ELSE target
=============================================================================
