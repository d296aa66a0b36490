------------------------------- MODULE FsProofs --------------------------------
(***************************************************************************)
(* Proofs about the file system: mounting and open files, for any tree of  *)
(* block devices, any files on them, any number of drives, descriptors and *)
(* callers; and the walk of fat_vfs_open, for any volume, any path and any *)
(* size of cluster and buffer.                                             *)
(***************************************************************************)
EXTENDS Vfs, FatDir, WellFoundedInduction, TLAPS

FileDescs == [open : BOOLEAN, cluster : Nat, size : 0 .. Half - 1, file_pos : Nat]
Tables == [1 .. FAT_MAX_FILE_DESCS -> FileDescs]
Geoms == {Geometry(b) : b \in Bpbs} \cup {NoGeometry}
Drives == [mounted : BOOLEAN, blkdev : Dev \cup {"none"}, fs : {"VF_NULL", "VF_FAT_16"},
           geom : Geoms, file_descs : Tables]

TypeOK ==
  /\ stage \in {"auto", "mount", "hung", "fault", "up"} /\ k \in 1 .. Len(Tree) + 1
  /\ stage = "mount" => k <= Len(Tree)
  /\ stage = "up" => k > Len(Tree)
  /\ last_rd.size \in Nat /\ last_rd.from \in Nat /\ last_rd.n \in Nat

DrivesOK == drives \in [1 .. NDRIVES -> Drives] /\ DOMAIN handle = Tags

(* Only FAT volumes are mounted.                                           *)
FatMounted ==
  \A id \in 1 .. NDRIVES :
    drives[id].mounted => drives[id].fs = "VF_FAT_16" /\ drives[id].blkdev \in Dev

(* A caller's handle names an open descriptor of a mounted drive, and the  *)
(* descriptor is that of the file the handle was opened for.               *)
HandleOf(t) ==
  LET h == handle[t]
      fd == drives[h.drive].file_descs[h.file]
  IN  /\ h.drive \in 1 .. NDRIVES /\ h.file \in 1 .. FAT_MAX_FILE_DESCS
      /\ drives[h.drive].mounted /\ h.of \in Files[drives[h.drive].blkdev]
      /\ fd.open /\ fd.cluster = h.of.cluster /\ fd.size = h.of.size
HandleOK == \A t \in Tags : handle[t] # NoHandle => HandleOf(t)

Apart ==
  \A t, u \in Tags :
    handle[t] # NoHandle /\ handle[u] # NoHandle /\ t # u =>
      handle[t].drive # handle[u].drive \/ handle[t].file # handle[u].file

PositionOK ==
  \A id \in 1 .. NDRIVES : \A fid \in 1 .. FAT_MAX_FILE_DESCS :
    drives[id].file_descs[fid].file_pos <= drives[id].file_descs[fid].size

DriveInv == DrivesOK /\ FatMounted /\ NoDoubleMount /\ HandleOK /\ Apart /\ PositionOK

ReadOK == last_rd.from + last_rd.n <= last_rd.size

IInv == TypeOK /\ DriveInv /\ ReadOK

IsMounted(dev) == \E id \in 1 .. NDRIVES : drives[id].mounted /\ drives[id].blkdev = dev
IsFat(dev) == fat_verify(BlkSize[dev], Bpb[dev]) = "ok"
IsDisk(dev) == DevType[dev] = "BDT_DISK_DRIVE"

(* Leaving aside devices that could not be read: a mounted device is a     *)
(* FAT volume and its driver has its geometry, and every FAT volume on a   *)
(* disk drive that the boot has passed is mounted, if there was room.      *)
MountedAreFat == \A dev \in Dev \ misread : IsMounted(dev) => IsFat(dev)
FatAreMounted ==
  \A j \in 1 .. Len(Tree) :
    j < k /\ Tree[j] \notin misread /\ IsFat(Tree[j]) /\ IsDisk(Tree[j]) =>
      IsMounted(Tree[j]) \/ Unmounted = {}
GeomOK ==
  \A id \in 1 .. NDRIVES :
    drives[id].mounted /\ drives[id].blkdev \notin misread =>
      drives[id].geom = Geometry(Bpb[drives[id].blkdev])
MountInv == MountedAreFat /\ FatAreMounted /\ GeomOK

-----------------------------------------------------------------------------
(* A set of naturals that is not empty has a least element.                *)
LEMMA Least ==
  ASSUME NEW T, T \subseteq Nat, T # {}
  PROVE  \E x \in T : \A y \in T : x <= y
<1>1. \E x \in T : \A y \in T : ~(<<y, x>> \in OpToRel(<, Nat))
  BY WFMin, NatLessThanWellFounded, Zenon
<1>2. PICK x \in T : \A y \in T : ~(<<y, x>> \in OpToRel(<, Nat))
  BY <1>1, Zenon
<1>3. \A y \in T : ~(y < x)
  BY <1>2, Zenon DEF OpToRel
<1> QED
  BY <1>3

(* find_slot in fat.c returns a free descriptor, or none when all are open.*)
LEMMA FindSlot ==
  ASSUME NEW descs \in Tables
  PROVE  find_slot(descs) # VFS_FILE_ID_NULL =>
           /\ find_slot(descs) \in 1 .. FAT_MAX_FILE_DESCS
           /\ ~descs[find_slot(descs)].open
<1>1. DOMAIN descs = 1 .. FAT_MAX_FILE_DESCS
  BY DEF Tables
<1>2. CASE FreeSlots(descs) = {}
  BY <1>2 DEF find_slot
<1>3. CASE FreeSlots(descs) # {}
  <2>1. FreeSlots(descs) \subseteq Nat
    BY <1>1, FatAssumption DEF FreeSlots
  <2>2. \E fid \in FreeSlots(descs) : \A g \in FreeSlots(descs) : fid <= g
    BY <1>3, <2>1, Least
  <2>3. find_slot(descs) \in FreeSlots(descs)
    BY <1>3, <2>2, Zenon DEF find_slot
  <2> QED
    BY <1>1, <2>3 DEF FreeSlots
<1> QED
  BY <1>2, <1>3

(* find_slot in vfs.c finds a slot exactly when one is free.               *)
LEMMA FindDriveSlot ==
  ASSUME DOMAIN drives = 1 .. NDRIVES
  PROVE  /\ find_drive_slot = {} => Unmounted = {}
         /\ \A id \in find_drive_slot : id \in 1 .. NDRIVES /\ ~drives[id].mounted
<1>1. Unmounted \subseteq Nat
  BY VfsAssumption DEF Unmounted
<1>2. Unmounted # {} => \E id \in Unmounted : \A j \in Unmounted : id <= j
  BY <1>1, Least
<1>3. find_drive_slot = {} => Unmounted = {}
  BY <1>2, Zenon DEF find_drive_slot
<1> QED
  BY <1>3 DEF find_drive_slot, Unmounted

(* vfs_get_mount_fs finds a mounted device.                                *)
LEMMA GetMountFs ==
  ASSUME DrivesOK, FatMounted, NEW dev
  PROVE  vfs_get_mount_fs(dev) = "VF_NULL" <=> ~IsMounted(dev)
<1> DEFINE at == {id \in DOMAIN drives : drives[id].mounted /\ drives[id].blkdev = dev}
<1>1. DOMAIN drives = 1 .. NDRIVES
  BY DEF DrivesOK
<1>2. IsMounted(dev) <=> at # {}
  BY <1>1 DEF IsMounted
<1>3. CASE at = {}
  BY <1>2, <1>3, Zenon DEF vfs_get_mount_fs
<1>4. CASE at # {}
  <2>1. (CHOOSE id \in at : TRUE) \in at
    BY <1>4, Zenon
  <2>2. drives[CHOOSE id \in at : TRUE].fs = "VF_FAT_16"
    BY <1>1, <2>1, Zenon DEF FatMounted
  <2> HIDE DEF at
  <2>3. vfs_get_mount_fs(dev) = IF at = {} THEN "VF_NULL"
                                ELSE drives[CHOOSE id \in at : TRUE].fs
    BY DEF vfs_get_mount_fs, at
  <2>4. vfs_get_mount_fs(dev) = "VF_FAT_16"
    BY <1>4, <2>2, <2>3
  <2> QED
    BY <1>2, <1>4, <2>4
<1> QED
  BY <1>3, <1>4

-----------------------------------------------------------------------------
(* The numbers: half a word twice is no more than a word.                  *)
LEMMA HalfWord == Half \in Nat \ {0} /\ Half + Half <= WORD /\ WORD \in Nat
  BY FatAssumption DEF Half

(* Clamping with an unsigned comparison is clamping, for an offset that is *)
(* not negative.                                                           *)
LEMMA AtMostUnsigned ==
  ASSUME NEW x \in 0 .. Half - 1, NEW high \in Nat
  PROVE  AtMost(x, high) = IF x > high THEN high ELSE x
<1>1. (x % WORD) = x
  BY HalfWord
<1> QED
  BY <1>1 DEF AtMost

(* A negative offset is either taken for a large one or kept.              *)
LEMMA AtMostAny ==
  ASSUME NEW x \in Int, NEW high
  PROVE  AtMost(x, high) \in {x, high}
  BY DEF AtMost

(* fat_vfs_seek leaves a position inside the file.                         *)
LEMMA SeekInFile ==
  ASSUME NEW fd \in FileDescs, fd.file_pos <= fd.size,
         NEW whence \in Whence, NEW off \in Offs
  PROVE  SeekPos(fd, whence, off) \in 0 .. fd.size
<1>1. /\ off \in -Half .. Half - 1 /\ Half \in Nat
      /\ fd.size \in Nat /\ fd.file_pos \in Nat
  BY VfsAssumption, HalfWord DEF FileDescs
<1>2. CASE whence = "VW_START"
  <2>1. AtLeast(off, 0) \in 0 .. Half - 1
    BY <1>1, HalfWord DEF AtLeast
  <2>2. AtMost(AtLeast(off, 0), fd.size) \in 0 .. fd.size
    BY <1>1, <2>1, AtMostUnsigned
  <2> QED
    BY <1>2, <2>2 DEF SeekPos
<1>3. CASE whence = "VW_CUR"
  <2>1. AtLeast(off, -fd.file_pos) \in Int /\ AtLeast(off, -fd.file_pos) >= -fd.file_pos
    BY <1>1 DEF AtLeast
  <2>2. CASE AtLeast(off, -fd.file_pos) < 0
    BY <1>1, <1>3, <2>1, <2>2, AtMostAny DEF SeekPos
  <2>3. CASE ~(AtLeast(off, -fd.file_pos) < 0)
    <3>1. AtLeast(off, -fd.file_pos) \in 0 .. Half - 1
      BY <1>1, <2>1, <2>3, HalfWord DEF AtLeast
    <3>2. fd.size - fd.file_pos \in Nat
      BY <1>1
    <3>3. AtMost(AtLeast(off, -fd.file_pos), fd.size - fd.file_pos)
            \in 0 .. fd.size - fd.file_pos
      BY <3>1, <3>2, AtMostUnsigned
    <3> QED
      BY <1>1, <1>3, <3>3 DEF SeekPos
  <2> QED
    BY <2>2, <2>3
<1>4. CASE whence = "VW_END"
  BY <1>1, <1>4 DEF SeekPos, AtLeast
<1> QED
  BY <1>2, <1>3, <1>4 DEF Whence

(* Where a seek lands, unless it goes backwards from the current position. *)
LEMMA SeekExact ==
  ASSUME NEW fd \in FileDescs, fd.file_pos <= fd.size,
         NEW whence \in Whence, NEW off \in Offs, whence # "VW_CUR" \/ off >= 0
  PROVE  SeekPos(fd, whence, off) =
           LET target == Target(fd, whence, off)
           IN  IF target < 0 THEN 0 ELSE IF target > fd.size THEN fd.size ELSE target
<1>1. /\ off \in -Half .. Half - 1 /\ Half \in Nat
      /\ fd.size \in Nat /\ fd.file_pos \in Nat
  BY VfsAssumption, HalfWord DEF FileDescs
<1>2. CASE whence = "VW_START"
  <2>1. AtLeast(off, 0) \in 0 .. Half - 1
    BY <1>1, HalfWord DEF AtLeast
  <2>2. SeekPos(fd, whence, off) = AtMost(AtLeast(off, 0), fd.size)
    BY <1>2 DEF SeekPos
  <2>3. Target(fd, whence, off) = off
    BY <1>1, <1>2 DEF Target
  <2>4. SeekPos(fd, whence, off) = IF AtLeast(off, 0) > fd.size THEN fd.size
                                   ELSE AtLeast(off, 0)
    BY <1>1, <2>1, <2>2, AtMostUnsigned
  <2> QED
    BY <1>1, <2>3, <2>4 DEF AtLeast
<1>3. CASE whence = "VW_CUR"
  <2>1. AtLeast(off, -fd.file_pos) = off /\ off \in 0 .. Half - 1
    BY <1>1, <1>3 DEF AtLeast
  <2>2. SeekPos(fd, whence, off) = fd.file_pos + AtMost(off, fd.size - fd.file_pos)
    BY <1>3, <2>1 DEF SeekPos
  <2>3. Target(fd, whence, off) = off + fd.file_pos
    BY <1>1, <1>3 DEF Target
  <2>4. fd.size - fd.file_pos \in Nat
    BY <1>1
  <2>5. SeekPos(fd, whence, off) =
          fd.file_pos + IF off > fd.size - fd.file_pos THEN fd.size - fd.file_pos ELSE off
    BY <2>1, <2>2, <2>4, AtMostUnsigned
  <2> QED
    BY <1>1, <2>1, <2>3, <2>5
<1>4. CASE whence = "VW_END"
  <2>1. SeekPos(fd, whence, off) = fd.size + IF off > 0 THEN 0 ELSE AtLeast(off, -fd.size)
    BY <1>4 DEF SeekPos
  <2>2. Target(fd, whence, off) = off + fd.size
    BY <1>1, <1>4 DEF Target
  <2> QED
    BY <1>1, <2>1, <2>2 DEF AtLeast
<1> QED
  BY <1>2, <1>3, <1>4 DEF Whence

(* A read that fat_vfs_rd lets through ends inside the file.               *)
LEMMA ReadInFile ==
  ASSUME NEW fd \in FileDescs, NEW n \in Counts, Readable(fd, n)
  PROVE  fd.file_pos + n <= fd.size
<1>1. /\ n \in 0 .. Half - 1 /\ fd.size \in 0 .. Half - 1 /\ fd.file_pos \in Nat
      /\ fd.file_pos < fd.size
  BY VfsAssumption DEF FileDescs, Readable
<1>2. fd.file_pos + n \in 0 .. WORD - 1
  BY <1>1, HalfWord
<1>3. ((fd.file_pos + n) % WORD) = fd.file_pos + n
  BY <1>2, HalfWord
<1> QED
  BY <1>3 DEF Readable

-----------------------------------------------------------------------------
(* A table of which one descriptor changes.                                *)
LEMMA TableStep ==
  ASSUME NEW descs \in Tables, NEW fid \in 1 .. FAT_MAX_FILE_DESCS,
         NEW fd \in FileDescs
  PROVE  /\ [descs EXCEPT ![fid] = fd] \in Tables
         /\ [descs EXCEPT ![fid] = fd][fid] = fd
         /\ \A g \in 1 .. FAT_MAX_FILE_DESCS :
              g # fid => [descs EXCEPT ![fid] = fd][g] = descs[g]
  BY DEF Tables

(* A closed descriptor, and the table of a drive that was just mounted.    *)
LEMMA ClosedType == Closed \in FileDescs /\ NoFiles \in Tables
<1>1. FALSE \in BOOLEAN /\ 0 \in Nat /\ 0 \in 0 .. Half - 1
  BY HalfWord
<1>2. Closed \in FileDescs
  BY <1>1, Zenon DEF Closed, FileDescs
<1> QED
  BY <1>2 DEF NoFiles, Tables

(* The descriptor of a file that was just opened.                          *)
LEMMA OpenType ==
  ASSUME NEW f \in AllFiles
  PROVE  LET fd == [open |-> TRUE, cluster |-> f.cluster, size |-> f.size, file_pos |-> 0]
         IN  fd \in FileDescs /\ fd.open /\ fd.cluster = f.cluster /\ fd.size = f.size
             /\ fd.file_pos = 0
<1>1. f.cluster \in Nat /\ f.size \in 0 .. Half - 1
  BY VfsAssumption
<1>2. TRUE \in BOOLEAN /\ 0 \in Nat
  OBVIOUS
<1> QED
  BY <1>1, <1>2 DEF FileDescs

(* A seek changes the position only.                                       *)
LEMMA SeekType ==
  ASSUME NEW fd \in FileDescs, fd.file_pos <= fd.size,
         NEW whence \in Whence, NEW off \in Offs
  PROVE  LET new == [fd EXCEPT !.file_pos = SeekPos(fd, whence, off)]
         IN  new \in FileDescs /\ new.open = fd.open /\ new.cluster = fd.cluster
             /\ new.size = fd.size /\ new.file_pos <= new.size
<1>1. SeekPos(fd, whence, off) \in 0 .. fd.size
  BY SeekInFile
<1>2. fd.size \in Nat
  BY HalfWord DEF FileDescs
<1>3. SeekPos(fd, whence, off) \in Nat /\ SeekPos(fd, whence, off) <= fd.size
  BY <1>1, <1>2
<1> QED
  BY <1>3 DEF FileDescs

(* A step that gives the drive id a new table leaves the rest of the       *)
(* drives as they were.                                                    *)
LEMMA DriveStep ==
  ASSUME drives \in [1 .. NDRIVES -> Drives], NEW id \in 1 .. NDRIVES, NEW D \in Tables,
         drives' = [drives EXCEPT ![id].file_descs = D]
  PROVE  /\ drives' \in [1 .. NDRIVES -> Drives]
         /\ drives'[id].file_descs = D
         /\ \A j \in 1 .. NDRIVES :
              /\ drives'[j].mounted = drives[j].mounted
              /\ drives'[j].blkdev = drives[j].blkdev
              /\ drives'[j].fs = drives[j].fs
              /\ drives'[j].geom = drives[j].geom
              /\ j # id => drives'[j].file_descs = drives[j].file_descs
<1>1. [drives[id] EXCEPT !.file_descs = D] \in Drives
  BY DEF Drives
<1>2. drives' = [drives EXCEPT ![id] = [drives[id] EXCEPT !.file_descs = D]]
  OBVIOUS
<1>3. drives' \in [1 .. NDRIVES -> Drives]
  BY <1>1, <1>2
<1>4. drives'[id] = [drives[id] EXCEPT !.file_descs = D]
  BY <1>2
<1>5. \A j \in 1 .. NDRIVES : j # id => drives'[j] = drives[j]
  BY <1>2
<1> QED
  BY <1>3, <1>4, <1>5 DEF Drives

-----------------------------------------------------------------------------
(* The drives start empty.                                                 *)
LEMMA InitInv == Init => IInv /\ MountInv
<1> SUFFICES ASSUME Init PROVE IInv /\ MountInv
  OBVIOUS
<1>1. Tree \in Seq(Dev) /\ Len(Tree) \in Nat /\ NDRIVES \in Nat
  BY VfsAssumption
<1>2. NoDrive \in Drives
  <2>1. FALSE \in BOOLEAN /\ NoGeometry \in Geoms
    BY DEF Geoms
  <2> QED
    BY <2>1, ClosedType DEF NoDrive, Drives
<1>3. /\ drives \in [1 .. NDRIVES -> Drives] /\ DOMAIN handle = Tags
      /\ \A id \in 1 .. NDRIVES : drives[id] = NoDrive
      /\ \A t \in Tags : handle[t] = NoHandle
  BY <1>2 DEF Init
<1>4. \A id \in 1 .. NDRIVES : ~drives[id].mounted
  BY <1>3 DEF NoDrive
<1>5. TypeOK /\ ReadOK
  BY <1>1 DEF Init, TypeOK, ReadOK, NoRead
<1>6. PositionOK
  <2>1. \A fid \in 1 .. FAT_MAX_FILE_DESCS : NoFiles[fid] = Closed
    BY DEF NoFiles
  <2>2. \A id \in 1 .. NDRIVES : drives[id].file_descs = NoFiles
    BY <1>3 DEF NoDrive
  <2>3. Closed.file_pos <= Closed.size
    BY DEF Closed
  <2> QED
    BY <2>1, <2>2, <2>3 DEF PositionOK
<1>7. DriveInv
  <2>1. DOMAIN drives = 1 .. NDRIVES
    BY <1>3
  <2> QED
    BY <2>1, <1>3, <1>4, <1>6
    DEF DriveInv, DrivesOK, FatMounted, NoDoubleMount, HandleOK, Apart
<1>8. MountInv
  BY <1>1, <1>4 DEF MountInv, MountedAreFat, FatAreMounted, GeomOK, IsMounted, Init
<1> QED
  BY <1>5, <1>7, <1>8 DEF IInv

(* A new mount in a free slot.                                             *)
LEMMA NewMount ==
  ASSUME DrivesOK, NEW slot \in 1 .. NDRIVES, NEW dev \in Dev, NEW geom \in Geoms,
         drives' = [drives EXCEPT ![slot] = Mounted(dev, "VF_FAT_16", geom)]
  PROVE  /\ drives' \in [1 .. NDRIVES -> Drives]
         /\ drives'[slot].mounted /\ drives'[slot].blkdev = dev
         /\ drives'[slot].fs = "VF_FAT_16" /\ drives'[slot].file_descs = NoFiles
         /\ drives'[slot].geom = geom
         /\ \A id \in 1 .. NDRIVES : id # slot => drives'[id] = drives[id]
<1> DEFINE new == Mounted(dev, "VF_FAT_16", geom)
<1>1. TRUE \in BOOLEAN /\ dev \in Dev \cup {"none"} /\ "VF_FAT_16" \in {"VF_NULL", "VF_FAT_16"}
  OBVIOUS
<1>2. new \in Drives
  BY <1>1, ClosedType DEF Drives, Mounted
<1>3. /\ new.mounted /\ new.blkdev = dev /\ new.fs = "VF_FAT_16"
      /\ new.file_descs = NoFiles /\ new.geom = geom
  BY DEF Mounted
<1> HIDE DEF new
<1>4. drives' = [drives EXCEPT ![slot] = new]
  BY DEF new
<1>5. drives \in [1 .. NDRIVES -> Drives]
  BY DEF DrivesOK
<1>6. /\ drives' \in [1 .. NDRIVES -> Drives] /\ drives'[slot] = new
      /\ \A id \in 1 .. NDRIVES : id # slot => drives'[id] = drives[id]
  BY <1>2, <1>4, <1>5
<1> QED
  BY <1>3, <1>6

(* A boot sector is that of its device, unless it could not be read.       *)
LEMMA SectorRead ==
  ASSUME NEW dev \in Dev, NEW rd \in BootSectors(dev)
  PROVE  rd.bpb \in Bpbs /\ (~rd.bad => rd.bpb = Bpb[dev])
<1>1. CASE rd = [bpb |-> Bpb[dev], bad |-> FALSE]
  <2>1. rd.bpb = Bpb[dev]
    BY <1>1
  <2>2. Bpb[dev] \in Bpbs
    BY VfsAssumption, Zenon
  <2> QED
    BY <2>1, <2>2
<1>2. CASE \E b \in StackBpbs : rd = [bpb |-> b, bad |-> TRUE]
  <2>1. PICK b \in StackBpbs : rd = [bpb |-> b, bad |-> TRUE]
    BY <1>2
  <2>2. b \in Bpbs
    BY VfsAssumption, Zenon
  <2>3. rd.bpb = b /\ rd.bad = TRUE
    BY <2>1
  <2> QED
    BY <2>2, <2>3
<1> QED
  BY <1>1, <1>2, Zenon DEF BootSectors

(* A volume fat_verify accepts has sizes to divide by.                     *)
LEMMA VerifiedDivides ==
  ASSUME NEW size, NEW bpb, fat_verify(size, bpb) = "ok"
  PROVE  Divides(bpb) /\ bpb.sector_size = SECTOR
  BY FatAssumption DEF fat_verify, Signed, Divides

(* vfs_mount: what it leaves alone, and what it does when it mounts.       *)
MountFree(dev, slot, geom) ==
  /\ ~drives[slot].mounted
  /\ drives' = [drives EXCEPT ![slot] = Mounted(dev, "VF_FAT_16", geom)]
  /\ dev \notin misread' => IsFat(dev) /\ geom = Geometry(Bpb[dev])
MountRefused(dev, fs) ==
  /\ vfs_get_mount_fs(dev) # "VF_NULL" \/ find_drive_slot = {} \/ fs # "VF_FAT_16"
  /\ UNCHANGED <<drives, misread>>
MountFailed(dev, fs) ==
  /\ UNCHANGED drives /\ fs = "VF_FAT_16" /\ misread \subseteq misread'
  /\ dev \notin misread' => ~IsFat(dev)
MountDone(dev, fs) ==
  /\ fs = "VF_FAT_16" /\ ~IsMounted(dev) /\ misread \subseteq misread'
  /\ \E slot \in 1 .. NDRIVES, geom \in Geoms : MountFree(dev, slot, geom)
LEMMA MountCases ==
  ASSUME DriveInv, NEW dev \in Dev, NEW fs, NEW after, vfs_mount(dev, fs, after)
  PROVE  /\ MountRefused(dev, fs) \/ MountFailed(dev, fs) \/ MountDone(dev, fs)
         /\ stage' \in {after, "fault"}
<1>1. CASE mount_refused(dev, fs, after)
  BY <1>1 DEF mount_refused, MountRefused
<1>2. CASE mount_unverified(dev, fs, after)
  <2>1. PICK rd \in BootSectors(dev) :
          /\ Verify(dev, rd) # "ok" /\ MisreadIf(rd.bad, dev)
          /\ stage' = IF Verify(dev, rd) = "fault" THEN "fault" ELSE after
    BY <1>2, Zenon DEF mount_unverified
  <2>2. fs = "VF_FAT_16" /\ UNCHANGED drives
    BY <1>2, Zenon DEF mount_unverified
  <2>3. ~rd.bad => rd.bpb = Bpb[dev]
    BY SectorRead
  <2>4. misread \subseteq misread' /\ (dev \notin misread' => ~rd.bad)
    BY <2>1 DEF MisreadIf
  <2>5. dev \notin misread' => ~IsFat(dev)
    BY <2>1, <2>3, <2>4, Zenon DEF Verify, IsFat
  <2>6. MountFailed(dev, fs)
    BY <2>2, <2>4, <2>5, Zenon DEF MountFailed
  <2>7. stage' \in {after, "fault"}
    BY <2>1
  <2> QED
    BY <2>6, <2>7, Zenon
<1>3. CASE mount_verified(dev, fs, after)
  <2>1. PICK slot \in find_drive_slot, rd \in BootSectors(dev), again \in BootSectors(dev) :
          /\ Verify(dev, rd) = "ok" /\ MisreadIf(rd.bad \/ again.bad, dev)
          /\ IF Divides(again.bpb)
             THEN /\ drives' = [drives EXCEPT ![slot] = Mounted(dev, fs, Geometry(again.bpb))]
                  /\ stage' = after
             ELSE stage' = "fault" /\ UNCHANGED drives
    BY <1>3, Zenon DEF mount_verified
  <2>2. fs = "VF_FAT_16" /\ vfs_get_mount_fs(dev) = "VF_NULL"
    BY <1>3, Zenon DEF mount_verified
  <2>3. again.bpb \in Bpbs /\ (~rd.bad => rd.bpb = Bpb[dev]) /\ (~again.bad => again.bpb = Bpb[dev])
    BY SectorRead, Zenon
  <2>4. misread \subseteq misread' /\ (dev \notin misread' => ~rd.bad /\ ~again.bad)
    BY <2>1 DEF MisreadIf
  <2>5. dev \notin misread' => IsFat(dev) /\ again.bpb = Bpb[dev]
    BY <2>1, <2>3, <2>4, Zenon DEF Verify, IsFat
  <2>6. slot \in 1 .. NDRIVES /\ ~drives[slot].mounted
    <3>1. DOMAIN drives = 1 .. NDRIVES
      BY DEF DriveInv, DrivesOK
    <3> QED
      BY <3>1, FindDriveSlot
  <2>7. ~IsMounted(dev)
    BY <2>2, GetMountFs DEF DriveInv
  <2>8. CASE Divides(again.bpb)
    <3>1. /\ drives' = [drives EXCEPT ![slot] = Mounted(dev, fs, Geometry(again.bpb))]
          /\ stage' = after
      BY <2>1, <2>8, Zenon
    <3>2. drives' = [drives EXCEPT ![slot] =
                       Mounted(dev, "VF_FAT_16", Geometry(again.bpb))]
      BY <2>2, <3>1, Zenon
    <3>3. Geometry(again.bpb) \in Geoms
      BY <2>3, Zenon DEF Geoms
    <3>4. dev \notin misread' => IsFat(dev) /\ Geometry(again.bpb) = Geometry(Bpb[dev])
      BY <2>5, Zenon
    <3>5. MountFree(dev, slot, Geometry(again.bpb))
      BY <2>6, <3>2, <3>4, Zenon DEF MountFree
    <3>6. MountDone(dev, fs)
      BY <2>2, <2>4, <2>6, <2>7, <3>3, <3>5, Zenon DEF MountDone
    <3> QED
      BY <3>1, <3>6
  <2>9. CASE ~Divides(again.bpb)
    <3>1. stage' = "fault" /\ UNCHANGED drives
      BY <2>1, <2>9, Zenon
    <3>2. dev \notin misread' => ~IsFat(dev)
      BY <2>5, <2>9, VerifiedDivides, Zenon DEF IsFat
    <3>3. MountFailed(dev, fs)
      BY <2>2, <2>4, <3>1, <3>2, Zenon DEF MountFailed
    <3> QED
      BY <3>1, <3>3
  <2> QED
    BY <2>8, <2>9
<1> QED
  BY <1>1, <1>2, <1>3, Zenon DEF vfs_mount

(* Nothing the invariant speaks of changes.                                *)
LEMMA SameDrives ==
  ASSUME DriveInv, UNCHANGED <<drives, handle>>
  PROVE  DriveInv'
  BY DEF DriveInv, DrivesOK, FatMounted, NoDoubleMount, HandleOK, HandleOf, Apart, PositionOK

(* vfs_mount keeps the drives apart and disturbs no handle.                *)
LEMMA MountDrives ==
  ASSUME DriveInv, NEW dev \in Dev, NEW fs, NEW after, vfs_mount(dev, fs, after),
         UNCHANGED handle
  PROVE  DriveInv'
<1>1. CASE UNCHANGED drives
  BY <1>1, SameDrives
<1>2. ASSUME ~IsMounted(dev), NEW slot \in 1 .. NDRIVES, NEW geom \in Geoms,
             ~drives[slot].mounted,
             drives' = [drives EXCEPT ![slot] = Mounted(dev, "VF_FAT_16", geom)]
      PROVE  DriveInv'
  <2>1. /\ drives' \in [1 .. NDRIVES -> Drives]
        /\ drives'[slot].mounted /\ drives'[slot].blkdev = dev
        /\ drives'[slot].fs = "VF_FAT_16" /\ drives'[slot].file_descs = NoFiles
        /\ \A id \in 1 .. NDRIVES : id # slot => drives'[id] = drives[id]
    BY <1>2, NewMount DEF DriveInv
  <2>2. DrivesOK'
    BY <2>1 DEF DriveInv, DrivesOK
  <2>3. DOMAIN drives = 1 .. NDRIVES /\ DOMAIN drives' = 1 .. NDRIVES
    BY <2>1 DEF DriveInv, DrivesOK
  <2>4. FatMounted'
    BY <2>1 DEF DriveInv, FatMounted
  <2>5. NoDoubleMount'
    BY <1>2, <2>1, <2>3 DEF DriveInv, NoDoubleMount, IsMounted
  <2>6. HandleOK'
    <3> SUFFICES ASSUME NEW t \in Tags, handle[t] # NoHandle PROVE HandleOf(t)'
      BY DEF HandleOK
    <3>1. HandleOf(t)
      BY DEF DriveInv, HandleOK
    <3>2. handle[t].drive \in 1 .. NDRIVES /\ handle[t].drive # slot
      BY <1>2, <3>1 DEF HandleOf
    <3> QED
      BY <2>1, <3>1, <3>2 DEF HandleOf
  <2>7. Apart'
    BY DEF DriveInv, Apart
  <2>8. PositionOK'
    <3>1. \A fid \in 1 .. FAT_MAX_FILE_DESCS : NoFiles[fid].file_pos <= NoFiles[fid].size
      BY DEF NoFiles, Closed
    <3> QED
      BY <2>1, <3>1 DEF DriveInv, PositionOK
  <2> QED
    BY <2>2, <2>4, <2>5, <2>6, <2>7, <2>8 DEF DriveInv
<1>3. MountRefused(dev, fs) \/ MountFailed(dev, fs) => DriveInv'
  BY <1>1 DEF MountRefused, MountFailed
<1>4. MountDone(dev, fs) => DriveInv'
  BY <1>2, Zenon DEF MountDone, MountFree
<1> QED
  BY <1>3, <1>4, MountCases

(* A step that changes one descriptor of one drive, to one whose position  *)
(* lies in its file, keeps what the invariant says of drives.              *)
LEMMA FileStep ==
  ASSUME DriveInv, NEW id \in 1 .. NDRIVES, NEW fid \in 1 .. FAT_MAX_FILE_DESCS,
         NEW fd \in FileDescs, fd.file_pos <= fd.size,
         drives' = [drives EXCEPT ![id].file_descs =
                      [drives[id].file_descs EXCEPT ![fid] = fd]],
         DOMAIN handle' = Tags
  PROVE  /\ DrivesOK' /\ FatMounted' /\ NoDoubleMount' /\ PositionOK'
         /\ drives'[id].file_descs[fid] = fd
         /\ \A j \in 1 .. NDRIVES :
              /\ drives'[j].mounted = drives[j].mounted
              /\ drives'[j].blkdev = drives[j].blkdev
              /\ drives'[j].geom = drives[j].geom
         /\ \A j \in 1 .. NDRIVES, g \in 1 .. FAT_MAX_FILE_DESCS :
              j # id \/ g # fid =>
                drives'[j].file_descs[g] = drives[j].file_descs[g]
<1> DEFINE D == [drives[id].file_descs EXCEPT ![fid] = fd]
<1>1. drives \in [1 .. NDRIVES -> Drives]
  BY DEF DriveInv, DrivesOK
<1>2. drives[id].file_descs \in Tables
  BY <1>1 DEF Drives
<1>3. /\ D \in Tables /\ D[fid] = fd
      /\ \A g \in 1 .. FAT_MAX_FILE_DESCS : g # fid => D[g] = drives[id].file_descs[g]
  BY <1>2, TableStep
<1> HIDE DEF D
<1>4. drives' = [drives EXCEPT ![id].file_descs = D]
  BY DEF D
<1>5. /\ drives' \in [1 .. NDRIVES -> Drives]
      /\ drives'[id].file_descs = D
      /\ \A j \in 1 .. NDRIVES :
           /\ drives'[j].mounted = drives[j].mounted
           /\ drives'[j].blkdev = drives[j].blkdev
           /\ drives'[j].fs = drives[j].fs
           /\ drives'[j].geom = drives[j].geom
           /\ j # id => drives'[j].file_descs = drives[j].file_descs
  BY <1>1, <1>3, <1>4, DriveStep
<1>6. \A j \in 1 .. NDRIVES, g \in 1 .. FAT_MAX_FILE_DESCS :
        j # id \/ g # fid => drives'[j].file_descs[g] = drives[j].file_descs[g]
  BY <1>3, <1>5
<1>7. DrivesOK'
  BY <1>5 DEF DrivesOK
<1>8. FatMounted'
  BY <1>5 DEF DriveInv, FatMounted
<1>9. NoDoubleMount'
  <2>1. DOMAIN drives = 1 .. NDRIVES /\ DOMAIN drives' = 1 .. NDRIVES
    BY <1>1, <1>5
  <2> QED
    BY <1>5, <2>1 DEF DriveInv, NoDoubleMount
<1>10. PositionOK'
  BY <1>3, <1>5, <1>6 DEF DriveInv, PositionOK
<1> QED
  BY <1>3, <1>5, <1>6, <1>7, <1>8, <1>9, <1>10

(* What a call that checked its handle knows of it.                        *)
LEMMA UsableHandle ==
  ASSUME DriveInv, NEW t \in Tags, Usable(t)
  PROVE  /\ handle[t] # NoHandle /\ HandleOf(t)
         /\ drives[handle[t].drive].file_descs \in Tables
         /\ drives[handle[t].drive].file_descs[handle[t].file] \in FileDescs
         /\ drives[handle[t].drive].file_descs[handle[t].file].file_pos
              <= drives[handle[t].drive].file_descs[handle[t].file].size
<1>1. handle[t] # NoHandle
  BY DEF Usable, NoHandle
<1>2. HandleOf(t)
  BY <1>1 DEF DriveInv, HandleOK
<1>3. handle[t].drive \in 1 .. NDRIVES /\ handle[t].file \in 1 .. FAT_MAX_FILE_DESCS
  BY <1>2 DEF HandleOf
<1>4. drives[handle[t].drive].file_descs \in Tables
  BY <1>3 DEF DriveInv, DrivesOK, Drives
<1> QED
  BY <1>1, <1>2, <1>3, <1>4 DEF Tables, DriveInv, PositionOK

(* vfs_open takes a descriptor no handle names.                            *)
LEMMA OpenDrives ==
  ASSUME DriveInv, NEW t \in Tags, handle[t] = NoHandle, NEW id, NEW f \in AllFiles,
         NEW how, OpenIn(t, id, f, how)
  PROVE  DriveInv'
<1> DEFINE new == [open |-> TRUE, cluster |-> f.cluster, size |-> f.size, file_pos |-> 0]
<1>1. id \in 1 .. NDRIVES /\ drives[id].mounted /\ f \in Files[drives[id].blkdev]
  BY DEF OpenIn, DriveInv, DrivesOK
<1>2. drives[id].file_descs \in Tables
  BY <1>1 DEF DriveInv, DrivesOK, Drives
<1>3. PICK slot \in 1 .. FAT_MAX_FILE_DESCS :
        slot = find_slot(drives[id].file_descs) /\ ~drives[id].file_descs[slot].open
  BY <1>2, FindSlot DEF OpenIn
<1>4. /\ new \in FileDescs /\ new.open /\ new.cluster = f.cluster /\ new.size = f.size
      /\ new.file_pos <= new.size
  <2>1. new.size \in Nat
    BY VfsAssumption, HalfWord
  <2> QED
    BY <2>1, OpenType
<1>5. PICK fd \in FileDescs :
        /\ fd.open /\ fd.cluster = f.cluster /\ fd.size = f.size /\ fd.file_pos <= fd.size
        /\ drives' = [drives EXCEPT ![id].file_descs =
                        [drives[id].file_descs EXCEPT ![slot] = fd]]
        /\ handle' = [handle EXCEPT ![t] = [drive |-> id, file |-> slot, of |-> f]]
  <2>1. /\ drives' = [drives EXCEPT ![id].file_descs =
                        [drives[id].file_descs EXCEPT ![slot] = new]]
        /\ handle' = [handle EXCEPT ![t] = [drive |-> id, file |-> slot, of |-> f]]
    BY <1>3 DEF OpenIn, FatOpen
  <2> HIDE DEF new
  <2> QED
    BY <1>4, <2>1, Zenon
<1>6. DOMAIN handle = Tags
  BY DEF DriveInv, DrivesOK
<1> HIDE DEF new
<1>7. /\ DOMAIN handle' = Tags
      /\ handle'[t].drive = id /\ handle'[t].file = slot /\ handle'[t].of = f
      /\ \A u \in Tags : u # t => handle'[u] = handle[u]
  BY <1>5, <1>6
<1>8. /\ DrivesOK' /\ FatMounted' /\ NoDoubleMount' /\ PositionOK'
      /\ drives'[id].file_descs[slot] = fd
      /\ \A j \in 1 .. NDRIVES : /\ drives'[j].mounted = drives[j].mounted
                                /\ drives'[j].blkdev = drives[j].blkdev
      /\ \A j \in 1 .. NDRIVES, g \in 1 .. FAT_MAX_FILE_DESCS :
           j # id \/ g # slot => drives'[j].file_descs[g] = drives[j].file_descs[g]
  <2>1. drives'[id].file_descs[slot] = fd
    <3>1. drives \in [1 .. NDRIVES -> Drives]
      BY DEF DriveInv, DrivesOK
    <3> QED
      BY <1>1, <1>2, <1>5, <3>1 DEF Tables, Drives
  <2>2. /\ id \in 1 .. NDRIVES /\ fd \in FileDescs /\ fd.file_pos <= fd.size
        /\ drives' = [drives EXCEPT ![id].file_descs =
                        [drives[id].file_descs EXCEPT ![slot] = fd]]
        /\ DOMAIN handle' = Tags
    BY <1>1, <1>5, <1>7
  <2>3. DrivesOK' /\ FatMounted' /\ NoDoubleMount' /\ PositionOK'
    BY <2>2, FileStep
  <2>4. \A j \in 1 .. NDRIVES : /\ drives'[j].mounted = drives[j].mounted
                                /\ drives'[j].blkdev = drives[j].blkdev
    BY <2>2, FileStep
  <2>5. \A j \in 1 .. NDRIVES, g \in 1 .. FAT_MAX_FILE_DESCS :
           j # id \/ g # slot => drives'[j].file_descs[g] = drives[j].file_descs[g]
    BY <2>2, FileStep
  <2> QED
    BY <2>1, <2>3, <2>4, <2>5, Zenon
<1>9. \A u \in Tags : handle[u] # NoHandle => u # t /\ HandleOf(u)
  BY DEF DriveInv, HandleOK
<1>10. \A u \in Tags : handle[u] # NoHandle =>
         handle[u].drive # id \/ handle[u].file # slot
  BY <1>3, <1>9 DEF HandleOf
<1>11. HandleOK'
  <2> SUFFICES ASSUME NEW u \in Tags, handle'[u] # NoHandle PROVE HandleOf(u)'
    BY DEF HandleOK
  <2>1. CASE u = t
    BY <2>1, <1>1, <1>3, <1>5, <1>7, <1>8 DEF HandleOf
  <2>2. CASE u # t
    <3>1. handle'[u] = handle[u] /\ handle[u] # NoHandle
      BY <1>7, <2>2
    <3>2. HandleOf(u) /\ (handle[u].drive # id \/ handle[u].file # slot)
      BY <1>9, <1>10, <3>1
    <3> QED
      BY <1>8, <3>1, <3>2 DEF HandleOf
  <2> QED
    BY <2>1, <2>2
<1>12. Apart'
  <2> SUFFICES ASSUME NEW u \in Tags, NEW v \in Tags, handle'[u] # NoHandle,
                      handle'[v] # NoHandle, u # v
               PROVE  handle'[u].drive # handle'[v].drive \/ handle'[u].file # handle'[v].file
    BY DEF Apart
  <2>1. CASE u = t
    BY <2>1, <1>7, <1>10
  <2>2. CASE v = t
    BY <2>2, <1>7, <1>10
  <2>3. CASE u # t /\ v # t
    BY <2>3, <1>7 DEF DriveInv, Apart
  <2> QED
    BY <2>1, <2>2, <2>3
<1> QED
  BY <1>8, <1>11, <1>12 DEF DriveInv

(* vfs_close frees the descriptor of its own handle only.                  *)
LEMMA CloseDrives ==
  ASSUME DriveInv, NEW t \in Tags, vfs_close(t)
  PROVE  DriveInv'
<1> DEFINE id == handle[t].drive
           fid == handle[t].file
<1>1. handle[t] # NoHandle /\ HandleOf(t)
  BY UsableHandle DEF vfs_close
<1>2. id \in 1 .. NDRIVES /\ fid \in 1 .. FAT_MAX_FILE_DESCS
  BY <1>1 DEF HandleOf
<1>3. /\ drives' = [drives EXCEPT ![id].file_descs =
                      [drives[id].file_descs EXCEPT ![fid] = Closed]]
      /\ handle' = [handle EXCEPT ![t] = NoHandle]
  BY DEF vfs_close, fat_vfs_close
<1>4. Closed \in FileDescs /\ Closed.file_pos <= Closed.size
  BY ClosedType DEF Closed
<1>5. /\ DOMAIN handle' = Tags /\ handle'[t] = NoHandle
      /\ \A u \in Tags : u # t => handle'[u] = handle[u]
  BY <1>3 DEF DriveInv, DrivesOK
<1> HIDE DEF id, fid
<1>6. /\ DrivesOK' /\ FatMounted' /\ NoDoubleMount' /\ PositionOK'
      /\ \A j \in 1 .. NDRIVES : /\ drives'[j].mounted = drives[j].mounted
                                /\ drives'[j].blkdev = drives[j].blkdev
      /\ \A j \in 1 .. NDRIVES, g \in 1 .. FAT_MAX_FILE_DESCS :
           j # id \/ g # fid => drives'[j].file_descs[g] = drives[j].file_descs[g]
  BY <1>2, <1>3, <1>4, <1>5, FileStep
<1>7. HandleOK'
  <2> SUFFICES ASSUME NEW u \in Tags, handle'[u] # NoHandle PROVE HandleOf(u)'
    BY DEF HandleOK
  <2>1. u # t /\ handle'[u] = handle[u] /\ handle[u] # NoHandle
    BY <1>5
  <2>2. HandleOf(u) /\ (handle[u].drive # id \/ handle[u].file # fid)
    BY <1>1, <2>1 DEF DriveInv, HandleOK, Apart, id, fid
  <2> QED
    BY <1>6, <2>1, <2>2 DEF HandleOf
<1>8. Apart'
  BY <1>5 DEF DriveInv, Apart
<1> QED
  BY <1>6, <1>7, <1>8 DEF DriveInv

(* vfs_seek moves one position, and inside its file.                       *)
LEMMA SeekDrives ==
  ASSUME DriveInv, NEW t \in Tags, vfs_seek(t)
  PROVE  DriveInv'
<1> DEFINE id == handle[t].drive
           fid == handle[t].file
           fd == drives[id].file_descs[fid]
<1>1. /\ handle[t] # NoHandle /\ HandleOf(t) /\ fd \in FileDescs
      /\ fd.file_pos <= fd.size /\ drives[id].file_descs \in Tables
  BY UsableHandle DEF vfs_seek
<1>2. id \in 1 .. NDRIVES /\ fid \in 1 .. FAT_MAX_FILE_DESCS
  BY <1>1 DEF HandleOf
<1>3. PICK whence \in Whence, off \in Offs :
        drives' = [drives EXCEPT ![id].file_descs =
                     fat_vfs_seek(drives[id].file_descs, fid, whence, off)]
  BY DEF vfs_seek
<1> DEFINE new == [fd EXCEPT !.file_pos = SeekPos(fd, whence, off)]
<1>4. /\ new \in FileDescs /\ new.open = fd.open /\ new.cluster = fd.cluster
      /\ new.size = fd.size /\ new.file_pos <= new.size
  BY <1>1, SeekType
<1>5. fat_vfs_seek(drives[id].file_descs, fid, whence, off) =
        [drives[id].file_descs EXCEPT ![fid] = new]
  BY <1>1, <1>2 DEF fat_vfs_seek, Tables
<1> HIDE DEF new
<1>6. drives' = [drives EXCEPT ![id].file_descs = [drives[id].file_descs EXCEPT ![fid] = new]]
  BY <1>3, <1>5
<1>7. handle' = handle /\ DOMAIN handle' = Tags
  BY DEF vfs_seek, DriveInv, DrivesOK
<1> HIDE DEF id, fid, fd
<1>8. /\ DrivesOK' /\ FatMounted' /\ NoDoubleMount' /\ PositionOK'
      /\ drives'[id].file_descs[fid] = new
      /\ \A j \in 1 .. NDRIVES : /\ drives'[j].mounted = drives[j].mounted
                                /\ drives'[j].blkdev = drives[j].blkdev
      /\ \A j \in 1 .. NDRIVES, g \in 1 .. FAT_MAX_FILE_DESCS :
           j # id \/ g # fid => drives'[j].file_descs[g] = drives[j].file_descs[g]
  BY <1>2, <1>4, <1>6, <1>7, FileStep
<1>9. HandleOK'
  <2> SUFFICES ASSUME NEW u \in Tags, handle[u] # NoHandle PROVE HandleOf(u)'
    BY <1>7 DEF HandleOK
  <2>1. HandleOf(u)
    BY DEF DriveInv, HandleOK
  <2>2. CASE u = t
    <3>1. handle[u].drive = id /\ handle[u].file = fid /\ drives[id].file_descs[fid] = fd
      BY <2>2 DEF id, fid, fd
    <3> QED
      BY <1>4, <1>7, <1>8, <2>1, <3>1 DEF HandleOf
  <2>3. CASE u # t
    <3>1. handle[u].drive # id \/ handle[u].file # fid
      BY <1>1, <2>3 DEF DriveInv, Apart, id, fid
    <3> QED
      BY <1>7, <1>8, <2>1, <3>1 DEF HandleOf
  <2> QED
    BY <2>2, <2>3
<1>10. Apart'
  BY <1>7 DEF DriveInv, Apart
<1> QED
  BY <1>8, <1>9, <1>10 DEF DriveInv

-----------------------------------------------------------------------------
(* The device auto-mounting is at is one of the tree.                      *)
LEMMA TreeDev ==
  /\ Len(Tree) \in Nat
  /\ \A j \in 1 .. Len(Tree) : Tree[j] \in Dev
  /\ \A dev \in Dev : \E j \in 1 .. Len(Tree) : Tree[j] = dev
  BY VfsAssumption DEF Dev

(* A step without a read.                                                  *)
LEMMA NoReadOK ==
  ASSUME last_rd' = NoRead
  PROVE  /\ ReadOK' /\ last_rd'.size \in Nat /\ last_rd'.from \in Nat
         /\ last_rd'.n \in Nat /\ last_rd'.n = 0
  BY DEF ReadOK, NoRead

(* A read stays inside its file.                                           *)
LEMMA ReadStep ==
  ASSUME IInv, NEW t \in Tags, vfs_rd(t)
  PROVE  /\ ReadOK' /\ last_rd'.size \in Nat /\ last_rd'.from \in Nat
         /\ last_rd'.n \in Nat
<1> DEFINE fd == drives[handle[t].drive].file_descs[handle[t].file]
<1>1. fd \in FileDescs
  BY UsableHandle DEF IInv, vfs_rd
<1>2. PICK n \in Counts :
        /\ Readable(fd, n) /\ last_rd'.size = fd.size
        /\ last_rd'.from = fd.file_pos /\ last_rd'.n = n
  BY DEF vfs_rd, vfs_abs_tell
<1> HIDE DEF fd
<1>3. fd.file_pos + n <= fd.size
  BY <1>1, <1>2, ReadInFile
<1>4. n \in Nat /\ fd.size \in Nat /\ fd.file_pos \in Nat
  BY <1>1, VfsAssumption, HalfWord DEF FileDescs
<1> QED
  BY <1>2, <1>3, <1>4 DEF ReadOK

(* Every step keeps the invariant.                                         *)
LEMMA Invariant == IInv /\ [Next]_vars => IInv'
<1> SUFFICES ASSUME IInv, [Next]_vars PROVE IInv'
  OBVIOUS
<1> USE TreeDev
<1>1. ASSUME try_mount_skip \/ try_mount PROVE IInv'
  <2>1. DriveInv' /\ last_rd' = NoRead
    BY <1>1, SameDrives DEF try_mount_skip, try_mount, IInv
  <2>2. stage' \in {"auto", "mount", "fault"} /\ k' \in {k, k + 1} /\ k \in 1 .. Len(Tree)
        /\ (stage' = "mount" => k' = k)
    <3>1. CASE try_mount_skip
      BY <3>1 DEF try_mount_skip, IInv, TypeOK
    <3>2. CASE try_mount
      <4>1. PICK rd \in BootSectors(Tree[k]) :
              /\ stage' = CASE Verify(Tree[k], rd) = "ok" -> "mount"
                            [] Verify(Tree[k], rd) = "refused" -> "auto"
                            [] Verify(Tree[k], rd) = "fault" -> "fault"
              /\ k' = IF Verify(Tree[k], rd) = "refused" THEN k + 1 ELSE k
        BY <3>2, Zenon DEF try_mount
      <4> DEFINE v == Verify(Tree[k], rd)
      <4>2. v \in {"ok", "refused", "fault"}
        BY DEF Verify, fat_verify
      <4>3. /\ v = "ok" => stage' = "mount" /\ k' = k
            /\ v = "refused" => stage' = "auto" /\ k' = k + 1
            /\ v = "fault" => stage' = "fault" /\ k' = k
        <5> HIDE DEF v
        <5>1. /\ stage' = CASE v = "ok" -> "mount" [] v = "refused" -> "auto"
                           [] v = "fault" -> "fault"
              /\ k' = IF v = "refused" THEN k + 1 ELSE k
          BY <4>1 DEF v
        <5>2. CASE v = "ok"
          BY <5>1, <5>2
        <5>3. CASE v = "refused"
          BY <5>1, <5>3
        <5>4. CASE v = "fault"
          BY <5>1, <5>4
        <5> QED
          BY <4>2, <5>2, <5>3, <5>4
      <4> HIDE DEF v
      <4>4. k \in 1 .. Len(Tree)
        BY <3>2 DEF try_mount, IInv, TypeOK
      <4>5. v = "ok" \/ v = "refused" \/ v = "fault"
        BY <4>2
      <4>6. k # k + 1
        BY <4>4
      <4> QED
        BY <4>3, <4>4, <4>5, <4>6, Zenon
    <3> QED
      BY <1>1, <3>1, <3>2
  <2>3. TypeOK'
    BY <2>1, <2>2, NoReadOK DEF IInv, TypeOK
  <2> QED
    BY <2>1, <2>3, NoReadOK DEF IInv
<1>2. ASSUME try_mount_found PROVE IInv'
  <2>1. Tree[k] \in Dev
    BY <1>2 DEF try_mount_found, IInv, TypeOK
  <2>2. DriveInv' /\ stage' \in {"auto", "fault"}
    BY <1>2, <2>1, MountDrives, MountCases DEF try_mount_found, IInv
  <2>3. TypeOK'
    BY <1>2, <2>2, NoReadOK DEF try_mount_found, IInv, TypeOK
  <2> QED
    BY <1>2, <2>2, <2>3, NoReadOK DEF try_mount_found, IInv
<1>3. ASSUME auto_mount_done PROVE IInv'
  <2>1. DriveInv'
    BY <1>3, SameDrives DEF auto_mount_done, IInv
  <2>2. TypeOK'
    BY <1>3, NoReadOK DEF auto_mount_done, IInv, TypeOK
  <2> QED
    BY <1>3, <2>1, <2>2, NoReadOK DEF auto_mount_done, IInv
<1>4. ASSUME NEW dev \in Dev, NEW fs, mount(dev, fs) PROVE IInv'
  <2>1. DriveInv' /\ stage' \in {"up", "fault"}
    BY <1>4, MountDrives, MountCases DEF mount, IInv
  <2>2. TypeOK'
    BY <1>4, <2>1, NoReadOK DEF mount, IInv, TypeOK
  <2> QED
    BY <1>4, <2>1, <2>2, NoReadOK DEF mount, IInv
<1>5. ASSUME NEW t \in Tags, vfs_open(t) PROVE IInv'
  <2>1. DriveInv'
    BY <1>5, OpenDrives DEF vfs_open, IInv
  <2>2. TypeOK'
    BY <1>5, NoReadOK DEF vfs_open, IInv, TypeOK
  <2> QED
    BY <1>5, <2>1, <2>2, NoReadOK DEF vfs_open, IInv
<1>6. ASSUME NEW t \in Tags, vfs_close(t) PROVE IInv'
  <2>1. DriveInv'
    BY <1>6, CloseDrives DEF IInv
  <2>2. TypeOK'
    BY <1>6, NoReadOK DEF vfs_close, IInv, TypeOK
  <2> QED
    BY <1>6, <2>1, <2>2, NoReadOK DEF vfs_close, IInv
<1>7. ASSUME NEW t \in Tags, vfs_seek(t) PROVE IInv'
  <2>1. DriveInv'
    BY <1>7, SeekDrives DEF IInv
  <2>2. TypeOK'
    BY <1>7, NoReadOK DEF vfs_seek, IInv, TypeOK
  <2> QED
    BY <1>7, <2>1, <2>2, NoReadOK DEF vfs_seek, IInv
<1>8. ASSUME NEW t \in Tags, vfs_rd(t) PROVE IInv'
  <2>1. DriveInv'
    BY <1>8, SameDrives DEF vfs_rd, IInv
  <2>2. TypeOK'
    BY <1>8, ReadStep DEF vfs_rd, IInv, TypeOK
  <2> QED
    BY <1>8, <2>1, <2>2, ReadStep DEF IInv
<1>9. CASE UNCHANGED vars
  <2>1. DriveInv'
    BY <1>9, SameDrives DEF vars, IInv
  <2> QED
    BY <1>9, <2>1 DEF vars, IInv, TypeOK, ReadOK
<1> QED
  BY <1>1, <1>2, <1>3, <1>4, <1>5, <1>6, <1>7, <1>8, <1>9 DEF Next, Hung

(* The invariant holds throughout.                                         *)
LEMMA Invariance == Spec => []IInv
<1>1. Init => IInv
  BY InitInv
<1> QED
  BY <1>1, Invariant, PTL DEF Spec

(* However boot and later callers mount devices, none is mounted twice:    *)
(* vfs_mount looks for the device among the mounted drives first           *)
(* (vfs.c:62).                                                             *)
THEOREM NoDeviceTwice == Spec => []NoDoubleMount
<1>1. IInv => NoDoubleMount
  BY DEF IInv, DriveInv
<1> QED
  BY <1>1, Invariance, PTL

(* Each open handle keeps a descriptor to itself, open and of the file it  *)
(* was opened for, however callers open, close and seek (fat.c find_slot,  *)
(* fat_vfs_close).                                                         *)
THEOREM HandlesKeepTheirFile == Spec => []HandlesApart
<1>1. IInv => HandlesApart
  <2> SUFFICES ASSUME IInv, NEW t \in Tags, handle[t] # NoHandle
               PROVE  LET h == handle[t]
                          fd == drives[h.drive].file_descs[h.file]
                      IN  /\ fd.open /\ fd.cluster = h.of.cluster /\ fd.size = h.of.size
                          /\ \A u \in Tags \ {t} :
                               <<handle[u].drive, handle[u].file>> # <<h.drive, h.file>>
    BY DEF HandlesApart
  <2>1. HandleOf(t)
    BY DEF IInv, DriveInv, HandleOK
  <2>2. ASSUME NEW u \in Tags \ {t}
        PROVE  handle[u].drive # handle[t].drive \/ handle[u].file # handle[t].file
    <3>1. CASE handle[u] = NoHandle
      <4>1. handle[u].drive = 0
        BY <3>1 DEF NoHandle, VFS_DRIVE_ID_NULL
      <4>2. handle[t].drive \in 1 .. NDRIVES
        BY <2>1 DEF HandleOf
      <4> QED
        BY <4>1, <4>2, VfsAssumption
    <3>2. CASE handle[u] # NoHandle
      BY <3>2 DEF IInv, DriveInv, Apart
    <3> QED
      BY <3>1, <3>2
  <2> QED
    BY <2>1, <2>2 DEF HandleOf
<1> QED
  BY <1>1, Invariance, PTL

(* No sequence of opens and seeks takes a position out of its file, and no *)
(* read asks for bytes beyond its end (fat_vfs_seek's clamps, fat_vfs_rd's *)
(* two checks).  Where on the disk it then looks is ReadsAreOfTheFile.     *)
THEOREM PositionsStayInFile == Spec => []PosInFile
<1>1. IInv => PosInFile
  <2> SUFFICES ASSUME IInv PROVE PosInFile
    OBVIOUS
  <2>1. last_rd.from + last_rd.n <= last_rd.size
    BY DEF IInv, ReadOK
  <2>2. ASSUME NEW id \in DOMAIN drives, NEW fid \in DOMAIN drives[id].file_descs
        PROVE  drives[id].file_descs[fid].file_pos
                 \in 0 .. drives[id].file_descs[fid].size
    <3>1. id \in 1 .. NDRIVES /\ drives[id].file_descs \in Tables
      BY DEF IInv, DriveInv, DrivesOK, Drives
    <3>2. fid \in 1 .. FAT_MAX_FILE_DESCS /\ drives[id].file_descs[fid] \in FileDescs
      BY <3>1 DEF Tables
    <3>3. drives[id].file_descs[fid].file_pos <= drives[id].file_descs[fid].size
      BY <3>1, <3>2 DEF IInv, DriveInv, PositionOK
    <3> QED
      BY <3>2, <3>3, HalfWord DEF FileDescs
  <2> QED
    BY <2>1, <2>2 DEF PosInFile
<1> QED
  BY <1>1, Invariance, PTL

(* From any reachable position, a seek that does not go backwards from the *)
(* current position lands on its target, clamped to the file               *)
(* (fat_vfs_seek).                                                         *)
THEOREM SeeksLand == Spec => []SeekLands
<1>1. IInv => SeekLands
  <2> SUFFICES ASSUME IInv, NEW id \in DOMAIN drives, NEW fid \in DOMAIN drives[id].file_descs,
                      NEW whence \in Whence, NEW off \in Offs, whence # "VW_CUR" \/ off >= 0
               PROVE  LET fd == drives[id].file_descs[fid]
                          target == Target(fd, whence, off)
                      IN  SeekPos(fd, whence, off) =
                            IF target < 0 THEN 0
                            ELSE IF target > fd.size THEN fd.size ELSE target
    BY DEF SeekLands
  <2>1. id \in 1 .. NDRIVES /\ drives[id].file_descs \in Tables
    BY DEF IInv, DriveInv, DrivesOK, Drives
  <2>2. fid \in 1 .. FAT_MAX_FILE_DESCS /\ drives[id].file_descs[fid] \in FileDescs
    BY <2>1 DEF Tables
  <2>3. drives[id].file_descs[fid].file_pos <= drives[id].file_descs[fid].size
    BY <2>1, <2>2 DEF IInv, DriveInv, PositionOK
  <2> QED
    BY <2>2, <2>3, SeekExact
<1> QED
  BY <1>1, Invariance, PTL

-----------------------------------------------------------------------------
(* A step that mounts nothing.                                             *)
LEMMA SameMounts ==
  ASSUME MountInv, DOMAIN drives = 1 .. NDRIVES, DOMAIN drives' = 1 .. NDRIVES,
         \A j \in 1 .. NDRIVES :
           /\ drives'[j].mounted = drives[j].mounted
           /\ drives'[j].blkdev = drives[j].blkdev /\ drives'[j].geom = drives[j].geom,
         UNCHANGED <<k, misread>>
  PROVE  MountInv'
<1>1. \A dev : IsMounted(dev)' <=> IsMounted(dev)
  BY DEF IsMounted
<1>2. Unmounted' = Unmounted
  BY DEF Unmounted
<1>3. MountedAreFat'
  BY <1>1 DEF MountInv, MountedAreFat, IsFat
<1>4. FatAreMounted'
  BY <1>1, <1>2 DEF MountInv, FatAreMounted, IsFat, IsDisk
<1>5. GeomOK'
  BY DEF MountInv, GeomOK
<1> QED
  BY <1>3, <1>4, <1>5 DEF MountInv

(* Open, close and seek mount nothing.                                     *)
LEMMA FilesOnly ==
  ASSUME DrivesOK, MountInv, NEW id \in 1 .. NDRIVES, NEW D,
         drives' = [drives EXCEPT ![id].file_descs = D], UNCHANGED <<k, misread>>
  PROVE  MountInv'
<1>1. /\ DOMAIN drives = 1 .. NDRIVES /\ DOMAIN drives' = 1 .. NDRIVES
      /\ \A j \in 1 .. NDRIVES :
           /\ drives'[j].mounted = drives[j].mounted
           /\ drives'[j].blkdev = drives[j].blkdev /\ drives'[j].geom = drives[j].geom
  BY DEF DrivesOK, Drives
<1> QED
  BY <1>1, SameMounts

(* A step that changes no drive but may fail to read, and may pass a       *)
(* device that is not a FAT volume or no disk drive.                       *)
LEMMA PassBy ==
  ASSUME MountInv, UNCHANGED drives, k \in Nat, misread \subseteq misread',
         k' \in {k, k + 1},
         k' = k + 1 => \/ Tree[k] \in misread' \/ ~IsFat(Tree[k]) \/ ~IsDisk(Tree[k])
                       \/ IsMounted(Tree[k]) \/ Unmounted = {}
  PROVE  MountInv'
<1>1. \A dev : IsMounted(dev)' <=> IsMounted(dev)
  BY DEF IsMounted
<1>2. Unmounted' = Unmounted
  BY DEF Unmounted
<1>3. MountedAreFat'
  BY <1>1 DEF MountInv, MountedAreFat, IsFat
<1>4. FatAreMounted'
  <2> SUFFICES ASSUME NEW j \in 1 .. Len(Tree), j < k', Tree[j] \notin misread',
                      IsFat(Tree[j]), IsDisk(Tree[j])
               PROVE  IsMounted(Tree[j]) \/ Unmounted = {}
    BY <1>1, <1>2 DEF FatAreMounted, IsFat, IsDisk
  <2>1. j < k \/ (j = k /\ k' = k + 1)
    BY TreeDev
  <2> QED
    BY <2>1 DEF MountInv, FatAreMounted
<1>5. GeomOK'
  BY DEF MountInv, GeomOK
<1> QED
  BY <1>3, <1>4, <1>5 DEF MountInv

(* Mounting a FAT volume, or one whose boot sector could not be read.      *)
LEMMA MountOne ==
  ASSUME DrivesOK, MountInv, NEW dev \in Dev, NEW slot \in 1 .. NDRIVES,
         NEW geom \in Geoms, MountFree(dev, slot, geom), misread \subseteq misread',
         k \in Nat, k' = k \/ (k' = k + 1 /\ Tree[k] = dev)
  PROVE  MountInv'
<1>0. /\ ~drives[slot].mounted
      /\ drives' = [drives EXCEPT ![slot] = Mounted(dev, "VF_FAT_16", geom)]
      /\ dev \notin misread' => IsFat(dev) /\ geom = Geometry(Bpb[dev])
  BY DEF MountFree
<1>1. /\ drives' \in [1 .. NDRIVES -> Drives]
      /\ drives'[slot].mounted /\ drives'[slot].blkdev = dev /\ drives'[slot].geom = geom
      /\ \A id \in 1 .. NDRIVES : id # slot => drives'[id] = drives[id]
  BY <1>0, NewMount
<1>2. \A d : IsMounted(d)' <=> IsMounted(d) \/ d = dev
  BY <1>0, <1>1 DEF IsMounted
<1>3. Unmounted # {}
  BY <1>0 DEF Unmounted, DrivesOK
<1>4. MountedAreFat'
  BY <1>0, <1>2 DEF MountInv, MountedAreFat, IsFat
<1>5. FatAreMounted'
  <2> SUFFICES ASSUME NEW j \in 1 .. Len(Tree), j < k', Tree[j] \notin misread',
                      IsFat(Tree[j]), IsDisk(Tree[j])
               PROVE  IsMounted(Tree[j])'
    BY DEF FatAreMounted, IsFat, IsDisk
  <2>1. j < k \/ Tree[j] = dev
    BY TreeDev
  <2> QED
    BY <1>2, <1>3, <2>1 DEF MountInv, FatAreMounted
<1>6. GeomOK'
  <2> SUFFICES ASSUME NEW id \in 1 .. NDRIVES, drives'[id].mounted,
                      drives'[id].blkdev \notin misread'
               PROVE  drives'[id].geom = Geometry(Bpb[drives'[id].blkdev])
    BY DEF GeomOK
  <2>1. CASE id = slot
    BY <1>0, <1>1, <2>1
  <2>2. CASE id # slot
    BY <1>1, <2>2 DEF MountInv, GeomOK
  <2> QED
    BY <2>1, <2>2
<1> QED
  BY <1>4, <1>5, <1>6 DEF MountInv

(* vfs_mount, at boot (the device k is at) or later.                       *)
LEMMA MountStep ==
  ASSUME IInv, MountInv, NEW dev \in Dev, NEW fs, NEW after, vfs_mount(dev, fs, after),
         k' = k \/ (k' = k + 1 /\ Tree[k] = dev /\ fs = "VF_FAT_16")
  PROVE  MountInv'
<1>1. k \in Nat /\ DrivesOK /\ DriveInv
  BY TreeDev DEF IInv, TypeOK, DriveInv
<1>2. CASE MountRefused(dev, fs)
  <2>1. DOMAIN drives = 1 .. NDRIVES
    BY <1>1 DEF DrivesOK
  <2>2. fs = "VF_FAT_16" => IsMounted(dev) \/ Unmounted = {}
    BY <1>1, <1>2, <2>1, GetMountFs, FindDriveSlot DEF DriveInv, MountRefused
  <2> QED
    BY <1>1, <1>2, <2>2, PassBy DEF MountRefused
<1>3. CASE MountFailed(dev, fs)
  BY <1>1, <1>3, PassBy DEF MountFailed
<1>4. CASE MountDone(dev, fs)
  BY <1>1, <1>4, MountOne DEF MountDone
<1> QED
  BY <1>1, <1>2, <1>3, <1>4, MountCases, Zenon

(* Every step keeps what is known of mounted devices.                      *)
LEMMA MountInvariant == IInv /\ MountInv /\ [Next]_vars => MountInv'
<1> SUFFICES ASSUME IInv, MountInv, [Next]_vars PROVE MountInv'
  OBVIOUS
<1>0. k \in Nat /\ DriveInv /\ DrivesOK
  BY TreeDev DEF IInv, TypeOK, DriveInv
<1>1. ASSUME try_mount_skip \/ try_mount PROVE MountInv'
  <2>1. CASE try_mount_skip
    BY <1>0, <2>1, PassBy DEF try_mount_skip, IsDisk
  <2>2. CASE try_mount
    <3>1. PICK rd \in BootSectors(Tree[k]) :
            /\ MisreadIf(rd.bad, Tree[k])
            /\ k' = IF Verify(Tree[k], rd) = "refused" THEN k + 1 ELSE k
      BY <2>2, Zenon DEF try_mount
    <3>2. Tree[k] \in Dev
      BY <2>2, TreeDev DEF try_mount, IInv, TypeOK
    <3>3. ~rd.bad => rd.bpb = Bpb[Tree[k]]
      BY <3>2, SectorRead
    <3>4. misread \subseteq misread' /\ (Tree[k] \notin misread' => ~rd.bad)
      BY <3>1 DEF MisreadIf
    <3>5. k' = k + 1 => Tree[k] \in misread' \/ ~IsFat(Tree[k])
      <4>1. Verify(Tree[k], rd) # "refused" => k' # k + 1
        BY <1>0, <3>1
      <4>2. Tree[k] \notin misread' /\ IsFat(Tree[k]) => Verify(Tree[k], rd) = "ok"
        BY <3>3, <3>4, Zenon DEF Verify, IsFat
      <4> QED
        BY <4>1, <4>2
    <3>6. k' \in {k, k + 1}
      BY <3>1
    <3> QED
      BY <1>0, <2>2, <3>4, <3>5, <3>6, PassBy DEF try_mount
  <2> QED
    BY <1>1, <2>1, <2>2
<1>2. ASSUME try_mount_found PROVE MountInv'
  <2>1. Tree[k] \in Dev
    BY <1>2, TreeDev DEF try_mount_found, IInv, TypeOK
  <2> QED
    BY <1>2, <2>1, MountStep DEF try_mount_found
<1>3. ASSUME NEW dev \in Dev, NEW fs, mount(dev, fs) PROVE MountInv'
  BY <1>3, MountStep DEF mount
<1>4. ASSUME NEW t \in Tags, vfs_open(t) PROVE MountInv'
  <2>1. PICK id, f, how : OpenIn(t, id, f, how)
    BY <1>4 DEF vfs_open
  <2>2. id \in 1 .. NDRIVES
    BY <1>0, <2>1 DEF OpenIn, DrivesOK
  <2>3. \E D : drives' = [drives EXCEPT ![id].file_descs = D]
    BY <2>1 DEF OpenIn
  <2>4. UNCHANGED <<k, misread>>
    BY <1>4 DEF vfs_open
  <2> QED
    BY <1>0, <2>2, <2>3, <2>4, FilesOnly
<1>5. ASSUME NEW t \in Tags, vfs_close(t) PROVE MountInv'
  <2>1. HandleOf(t)
    BY <1>0, <1>5, UsableHandle DEF vfs_close
  <2>2. handle[t].drive \in 1 .. NDRIVES
    BY <2>1 DEF HandleOf
  <2> QED
    BY <1>0, <1>5, <2>2, FilesOnly DEF vfs_close
<1>6. ASSUME NEW t \in Tags, vfs_seek(t) PROVE MountInv'
  <2>1. HandleOf(t)
    BY <1>0, <1>6, UsableHandle DEF vfs_seek
  <2>2. handle[t].drive \in 1 .. NDRIVES
    BY <2>1 DEF HandleOf
  <2>3. \E D : drives' = [drives EXCEPT ![handle[t].drive].file_descs = D]
    BY <1>6 DEF vfs_seek
  <2> QED
    BY <1>0, <1>6, <2>2, <2>3, FilesOnly DEF vfs_seek
<1>7. CASE UNCHANGED <<drives, k, misread>>
  BY <1>0, <1>7, SameMounts DEF DrivesOK
<1> QED
  BY <1>1, <1>2, <1>3, <1>4, <1>5, <1>6, <1>7
  DEF Next, Hung, auto_mount_done, vfs_rd, vars

(* What fat_verify accepts is what was formatted as FAT16.                 *)
VerifyExact ==
  \A dev \in Dev : Consistent(dev) => (Format[dev] = "FAT16" <=> IsFat(dev))

(* On volumes fat_verify tells apart, vfs_auto_mount mounts exactly the    *)
(* FAT16 ones among the disk drives that could be read, in any order of    *)
(* the tree and until the slots run out, and later calls keep it so.       *)
THEOREM AutoMountIsRight == ASSUME VerifyExact PROVE Spec => []AutoMountRight
<1>1. Init => IInv /\ MountInv
  BY InitInv
<1>2. IInv /\ MountInv /\ [Next]_vars => (IInv /\ MountInv)'
  BY Invariant, MountInvariant
<1>3. IInv /\ MountInv => AutoMountRight
  <2> SUFFICES ASSUME IInv, MountInv, stage = "up", NEW dev \in Dev \ misread,
                      Consistent(dev)
               PROVE  /\ IsMounted(dev) => Format[dev] = "FAT16"
                      /\ ~IsMounted(dev) /\ Format[dev] = "FAT16" /\ IsDisk(dev)
                           => Unmounted = {}
    <3>1. IInv => DOMAIN drives = 1 .. NDRIVES
      BY DEF IInv, DriveInv, DrivesOK
    <3> QED
      BY <3>1 DEF AutoMountRight, IsMounted, IsDisk
  <2>1. IsMounted(dev) => Format[dev] = "FAT16"
    BY DEF MountInv, MountedAreFat, VerifyExact
  <2>2. PICK j \in 1 .. Len(Tree) : Tree[j] = dev
    BY TreeDev
  <2>3. j < k
    BY TreeDev DEF IInv, TypeOK
  <2> QED
    BY <2>1, <2>2, <2>3 DEF MountInv, FatAreMounted, VerifyExact
<1> QED
  BY <1>1, <1>2, <1>3, PTL DEF Spec

-----------------------------------------------------------------------------
(* Which bytes of the device a read fetches.                               *)

(* Quotient and remainder, and that quotients do not go down.              *)
LEMMA DivSplit ==
  ASSUME NEW a \in Nat, NEW m \in Nat \ {0}
  PROVE  /\ a \div m \in Nat /\ a % m \in 0 .. m - 1
         /\ a = m * (a \div m) + (a % m)
  OBVIOUS

LEMMA DivGrows ==
  ASSUME NEW a \in Nat, NEW b \in Nat, a <= b, NEW m \in Nat \ {0}
  PROVE  a \div m <= b \div m
<1>1. PICK qa \in Nat, ra \in 0 .. m - 1 : qa = a \div m /\ a = m * qa + ra
  BY DivSplit
<1>2. PICK qb \in Nat, rb \in 0 .. m - 1 : qb = b \div m /\ b = m * qb + rb
  BY DivSplit
<1>3. ASSUME qb < qa PROVE FALSE
  <2>1. PICK d \in Nat : qa = qb + 1 + d
    <3>1. qa - qb - 1 \in Nat /\ qa = qb + 1 + (qa - qb - 1)
      BY <1>3
    <3> QED
      BY <3>1
  <2>2. m * qa = m * qb + m + m * d
    BY <2>1
  <2>3. m * d \in Nat /\ m * qb \in Nat
    OBVIOUS
  <2>4. a >= b + 1
    BY <1>1, <1>2, <2>2, <2>3
  <2> QED
    BY <2>4
<1> QED
  BY <1>1, <1>2, <1>3

(* A cluster that lies q clusters behind another.                          *)
LEMMA ClusterBehind ==
  ASSUME NEW ss \in Nat, NEW cs \in Nat, NEW fds \in Nat, NEW c \in Nat, c >= 2, NEW q \in Nat
  PROVE  /\ ss * (fds + (c - 2) * cs) \in Nat
         /\ ss * (fds + (c + q - 2) * cs) = ss * (fds + (c - 2) * cs) + (ss * cs) * q
<1>1. PICK A \in Nat : A = c - 2 /\ c + q - 2 = A + q
  OBVIOUS
<1>2. PICK X \in Nat, Y \in Nat : X = A * cs /\ Y = q * cs /\ (A + q) * cs = X + Y
  <2>1. A * cs \in Nat /\ q * cs \in Nat /\ (A + q) * cs = A * cs + q * cs
    OBVIOUS
  <2> QED
    BY <2>1
<1>3. ss * (fds + (X + Y)) = ss * (fds + X) + ss * Y /\ ss * (fds + X) \in Nat
  OBVIOUS
<1>4. ss * Y = (ss * cs) * q
  BY <1>2
<1>5. ss * (fds + (c + q - 2) * cs) = ss * (fds + (X + Y))
  BY <1>1, <1>2
<1>6. ss * (fds + (c - 2) * cs) = ss * (fds + X)
  BY <1>1, <1>2
<1> QED
  BY <1>3, <1>4, <1>5, <1>6

(* Reading in one piece is reading along the chain, as long as the chain   *)
(* is in one piece.                                                        *)
Row(chain, c, last) == \A j \in 0 .. last : chain[j + 1] = c + j
Lies(ss, cs, fds, c, size) == c >= 2 /\ ss * (fds + (c - 2) * cs) + size < WORD
Meets(ss, cs, fds, c, chain, from, b) ==
  ((((ss * (fds + (c - 2) * cs)) % WORD) + from) % WORD) + b
    = ss * (fds + (chain[(from + b) \div (ss * cs) + 1] - 2) * cs)
      + ((from + b) % (ss * cs))
LEMMA InOnePiece ==
  ASSUME NEW ss \in Nat \ {0}, NEW cs \in Nat \ {0}, NEW fds \in Nat,
         NEW c \in Nat, NEW chain, NEW size \in Nat, Lies(ss, cs, fds, c, size),
         NEW from \in Nat, NEW n \in Nat, NEW b \in 0 .. n - 1, from + n <= size,
         Row(chain, c, (from + n - 1) \div (ss * cs))
  PROVE  Meets(ss, cs, fds, c, chain, from, b)
<1>0. c >= 2 /\ ss * (fds + (c - 2) * cs) + size < WORD
  BY DEF Lies
<1>1. PICK P \in Nat : P = ss * (fds + (c - 2) * cs)
  BY <1>0, ClusterBehind
<1>2. PICK m \in Nat \ {0} : m = ss * cs
  <2>1. ss * cs \in Nat \ {0}
    OBVIOUS
  <2> QED
    BY <2>1
<1>3. PICK o \in Nat, last \in Nat : o = from + b /\ last = from + n - 1 /\ o <= last
  OBVIOUS
<1>4. PICK q \in Nat, r \in 0 .. m - 1 : q = o \div m /\ r = o % m /\ o = m * q + r
  <2>1. /\ o \div m \in Nat /\ (o % m) \in 0 .. m - 1
        /\ o = m * (o \div m) + (o % m)
    BY DivSplit
  <2> QED
    BY <2>1
<1>5. last \div m \in Nat
  BY DivSplit
<1>6. q \in 0 .. last \div m
  <2>1. o \div m <= last \div m
    BY <1>3, DivGrows
  <2> QED
    BY <1>4, <1>5, <2>1
<1>7. chain[q + 1] = c + q
  BY <1>2, <1>3, <1>6 DEF Row
<1>8. ss * (fds + (chain[q + 1] - 2) * cs) = P + m * q
  BY <1>0, <1>1, <1>2, <1>7, ClusterBehind
<1>9. ((P % WORD) + from) % WORD = P + from
  <2>1. P \in 0 .. WORD - 1 /\ P + from \in 0 .. WORD - 1 /\ WORD \in Nat \ {0}
    BY <1>0, <1>1, HalfWord
  <2>2. P % WORD = P
    BY <2>1
  <2>3. (P + from) % WORD = P + from
    BY <2>1
  <2> QED
    BY <2>2, <2>3
<1>10. m * q \in Nat
  OBVIOUS
<1>11. (P + from) + b = (P + m * q) + r
  BY <1>3, <1>4, <1>10
<1>12. (from + b) \div (ss * cs) = q /\ (from + b) % (ss * cs) = r
  BY <1>2, <1>3, <1>4
<1> QED
  BY <1>1, <1>8, <1>9, <1>11, <1>12 DEF Meets

(* The data of a volume start at some sector.                              *)
LEMMA FirstDataNat ==
  ASSUME NEW bpb \in Bpbs, bpb.sector_size # 0
  PROVE  first_data_sector(bpb) \in Nat
<1>1. PICK e \in Nat, s \in Nat \ {0} : /\ s = bpb.sector_size
                                      /\ e = DIRENT_SIZE * bpb.root_dirent_cnt + s - 1
  <2>1. DIRENT_SIZE * bpb.root_dirent_cnt \in Nat
    BY FatAssumption DEF Bpbs
  <2>2. bpb.sector_size \in Nat \ {0}
    BY DEF Bpbs
  <2>3. DIRENT_SIZE * bpb.root_dirent_cnt + bpb.sector_size - 1 \in Nat
    BY <2>1, <2>2
  <2> QED
    BY <2>2, <2>3
<1>2. root_sector_cnt(bpb) \in Nat
  BY <1>1 DEF root_sector_cnt
<1>3. bpb.fat_cnt * bpb.fat_sectors \in Nat /\ bpb.res_sector_cnt \in Nat
  BY DEF Bpbs
<1> QED
  BY <1>2, <1>3 DEF first_data_sector

(* A read fetches the bytes of its file, if these lie in one piece.        *)
RightBytes(rd) ==
  rd.n > 0 /\ InARow(rd.dev, rd.of, rd.from + rd.n - 1) =>
    \A b \in 0 .. rd.n - 1 : rd.at + b = BytePos(rd.dev, rd.of, rd.from + b)

(* What the call knows of its file and of the volume it lies on.           *)
FirstByte(dev, f) ==
  (Bpb[dev].sector_size
     * (first_data_sector(Bpb[dev]) + (f.cluster - 2) * Bpb[dev].cluster_size)) % WORD
ReadKnows(rd) ==
  /\ rd.dev \in Dev /\ rd.of \in Files[rd.dev] /\ IsFat(rd.dev)
  /\ rd.from \in Nat
  /\ rd.n \in Nat
  /\ rd.size = rd.of.size
  /\ rd.from < rd.size
  /\ rd.from + rd.n <= rd.size
  /\ rd.at = (FirstByte(rd.dev, rd.of) + rd.from) % WORD

LEMMA ReadOfFile ==
  ASSUME IInv, MountInv, NEW rd, NEW t \in Tags, vfs_rd(t),
         rd = last_rd', rd.dev \notin misread
  PROVE  ReadKnows(rd)
<1> DEFINE id == handle[t].drive
           fd == drives[id].file_descs[handle[t].file]
<1>1. /\ handle[t] # NoHandle /\ HandleOf(t) /\ fd \in FileDescs
  BY UsableHandle DEF vfs_rd, IInv
<1>2. /\ id \in 1 .. NDRIVES /\ drives[id].mounted
      /\ handle[t].of \in Files[drives[id].blkdev]
      /\ fd.cluster = handle[t].of.cluster /\ fd.size = handle[t].of.size
  BY <1>1 DEF HandleOf
<1>3. PICK n \in Counts :
        /\ Readable(fd, n)
        /\ rd.dev = drives[id].blkdev /\ rd.of = handle[t].of /\ rd.size = fd.size
        /\ rd.from = fd.file_pos /\ rd.n = n /\ rd.at = rd_pos(drives[id].geom, fd)
  <2>1. PICK n \in Counts :
          /\ Readable(fd, n)
          /\ last_rd' = [dev |-> drives[id].blkdev, of |-> handle[t].of, size |-> fd.size,
                         from |-> fd.file_pos, n |-> n, at |-> rd_pos(drives[id].geom, fd)]
    BY Zenon DEF vfs_rd, vfs_abs_tell
  <2> HIDE DEF fd
  <2> QED
    BY <2>1
<1>4. drives[id].blkdev \in Dev /\ drives[id].blkdev \notin misread
  BY <1>2, <1>3 DEF IInv, DriveInv, FatMounted
<1>5. IsFat(drives[id].blkdev) /\ drives[id].geom = Geometry(Bpb[drives[id].blkdev])
  BY <1>2, <1>4 DEF MountInv, MountedAreFat, GeomOK, IsMounted
<1> HIDE DEF id, fd
<1>6. fd.file_pos + n <= fd.size /\ fd.file_pos < fd.size
  BY <1>1, <1>3, ReadInFile DEF Readable, fd
<1>7. n \in Nat /\ fd.file_pos \in Nat
  BY <1>1, VfsAssumption, HalfWord DEF FileDescs
<1>8. rd_pos(drives[id].geom, fd)
        = (FirstByte(drives[id].blkdev, handle[t].of) + fd.file_pos) % WORD
  <2>1. PICK g, bpb : g = drives[id].geom /\ bpb = Bpb[drives[id].blkdev] /\ g = Geometry(bpb)
    BY <1>5, Zenon
  <2>2. /\ g.sector_size = bpb.sector_size /\ g.cluster_size = bpb.cluster_size
        /\ g.first_data_sector = first_data_sector(bpb)
    BY <2>1 DEF Geometry
  <2>3. fd.cluster = handle[t].of.cluster
    BY <1>2 DEF fd
  <2>4. rd_pos(drives[id].geom, fd)
          = (((g.sector_size * (g.first_data_sector + (fd.cluster - 2) * g.cluster_size))
                % WORD) + fd.file_pos) % WORD
    BY <2>1, Zenon DEF rd_pos, cluster_to_pos
  <2>5. FirstByte(drives[id].blkdev, handle[t].of)
          = (bpb.sector_size
               * (first_data_sector(bpb) + (handle[t].of.cluster - 2) * bpb.cluster_size))
              % WORD
    BY <2>1 DEF FirstByte
  <2> QED
    BY <2>2, <2>3, <2>4, <2>5, Zenon
<1> QED
  BY <1>2, <1>3, <1>4, <1>5, <1>6, <1>7, <1>8, Zenon DEF ReadKnows

(* Where a read looks is where its bytes are.                              *)
LEMMA ReadRight ==
  ASSUME NEW rd, ReadKnows(rd)
  PROVE  RightBytes(rd)
<1> DEFINE bpb == Bpb[rd.dev]
<1> SUFFICES ASSUME rd.n > 0, InARow(rd.dev, rd.of, rd.from + rd.n - 1),
                    NEW b \in 0 .. rd.n - 1
             PROVE  rd.at + b = BytePos(rd.dev, rd.of, rd.from + b)
  BY DEF RightBytes
<1>1. /\ rd.dev \in Dev /\ rd.of \in Files[rd.dev] /\ IsFat(rd.dev)
      /\ rd.from \in Nat /\ rd.n \in Nat /\ rd.size = rd.of.size
      /\ rd.from < rd.size /\ rd.from + rd.n <= rd.size
      /\ rd.at = (FirstByte(rd.dev, rd.of) + rd.from) % WORD
  BY DEF ReadKnows
<1>2. rd.of \in AllFiles
  BY <1>1 DEF AllFiles
<1>3. rd.of.cluster \in Nat /\ rd.of.size \in Nat /\ rd.of.size > 0
  BY <1>1, <1>2, VfsAssumption, HalfWord
<1>4. Allocated(rd.dev, rd.of)
  BY <1>1, <1>3, VfsAssumption DEF IsFat
<1>5. bpb \in Bpbs /\ bpb.sector_size # 0 /\ bpb.cluster_size # 0
  BY <1>1, VfsAssumption, VerifiedDivides DEF IsFat, Divides
<1>6. PICK ss \in Nat \ {0}, cs \in Nat \ {0}, fds \in Nat :
        /\ ss = bpb.sector_size /\ cs = bpb.cluster_size /\ fds = first_data_sector(bpb)
  <2>1. first_data_sector(bpb) \in Nat
    BY <1>5, FirstDataNat
  <2> QED
    BY <1>5, <2>1 DEF Bpbs
<1>7. /\ rd.of.cluster >= 2
      /\ ss * (fds + (rd.of.cluster - 2) * cs) + rd.of.size < WORD
  BY <1>4, <1>6 DEF Allocated
<1>8. Row(rd.of.chain, rd.of.cluster, (rd.from + rd.n - 1) \div (ss * cs))
  BY <1>6 DEF InARow, ClusterBytes, Row
<1>9. FirstByte(rd.dev, rd.of) = (ss * (fds + (rd.of.cluster - 2) * cs)) % WORD
  BY <1>6 DEF FirstByte
<1>10. BytePos(rd.dev, rd.of, rd.from + b)
         = ss * (fds + (rd.of.chain[(rd.from + b) \div (ss * cs) + 1] - 2) * cs)
             + ((rd.from + b) % (ss * cs))
  BY <1>6 DEF BytePos, ClusterBytes
<1> HIDE DEF bpb
<1> DEFINE chain == rd.of.chain
<1>11. PICK c \in Nat, size \in Nat, from \in Nat, n \in Nat :
         /\ c = rd.of.cluster /\ size = rd.of.size /\ from = rd.from /\ n = rd.n
         /\ from + n <= size
  BY <1>1, <1>3
<1>12. Meets(ss, cs, fds, c, chain, from, b)
  <2>1. Lies(ss, cs, fds, c, size) /\ b \in 0 .. n - 1
    BY <1>7, <1>11 DEF Lies
  <2>2. Row(chain, c, (from + n - 1) \div (ss * cs))
    BY <1>8, <1>11
  <2> HIDE DEF chain
  <2> QED
    BY <1>11, <2>1, <2>2, InOnePiece, Zenon
<1>13. rd.at = (((ss * (fds + (c - 2) * cs)) % WORD) + from) % WORD
  BY <1>1, <1>9, <1>11, Zenon
<1>14. BytePos(rd.dev, rd.of, rd.from + b)
         = ss * (fds + (chain[(from + b) \div (ss * cs) + 1] - 2) * cs)
             + ((from + b) % (ss * cs))
  BY <1>10, <1>11, Zenon
<1> QED
  BY <1>12, <1>13, <1>14, Zenon DEF Meets

(* What a read fetches are the bytes of the file its handle was opened     *)
(* for, whatever is mounted where, for files of any number of clusters as  *)
(* far as these lie one behind the other (fat_driver_create,               *)
(* cluster_to_pos, fat_vfs_rd).                                            *)
THEOREM ReadsAreOfTheFile == Spec => []ReadsFileBytes
<1>1. Init => IInv /\ MountInv /\ ReadsFileBytes
  <2>1. Init => ReadsFileBytes
    BY DEF Init, NoRead, ReadsFileBytes
  <2> QED
    BY <2>1, InitInv
<1>2. IInv /\ MountInv /\ ReadsFileBytes /\ [Next]_vars => (IInv /\ MountInv /\ ReadsFileBytes)'
  <2> SUFFICES ASSUME IInv, MountInv, ReadsFileBytes, [Next]_vars PROVE ReadsFileBytes'
    BY Invariant, MountInvariant
  <2>1. ASSUME last_rd' = NoRead PROVE ReadsFileBytes'
    BY <2>1 DEF NoRead, ReadsFileBytes
  <2>2. ASSUME NEW t \in Tags, vfs_rd(t) PROVE ReadsFileBytes'
    <3>1. PICK rd : rd = last_rd'
      OBVIOUS
    <3>2. misread' = misread
      BY <2>2 DEF vfs_rd
    <3>3. rd.dev \notin misread => RightBytes(rd)
      BY <2>2, <3>1, ReadOfFile, ReadRight
    <3> QED
      BY <3>1, <3>2, <3>3 DEF ReadsFileBytes, RightBytes
  <2>3. CASE UNCHANGED vars
    BY <2>3 DEF vars, ReadsFileBytes
  <2> QED
    BY <2>1, <2>2, <2>3
    DEF Next, Hung, try_mount_skip, try_mount, try_mount_found, auto_mount_done, mount,
        vfs_open, vfs_close, vfs_seek
<1> QED
  BY <1>1, <1>2, PTL DEF Spec

-----------------------------------------------------------------------------
(* Finding a file on a volume.                                             *)

(* The least element of a set of naturals is the only one.                 *)
LEMMA MinIs ==
  ASSUME NEW T, T \subseteq Nat, T # {}
  PROVE  /\ Min(T) \in T /\ Min(T) \in Nat /\ \A y \in T : Min(T) <= y
         /\ \A x \in T : (\A y \in T : x <= y) => Min(T) = x
<1>1. \E x \in T : \A y \in T : x <= y
  BY Least
<1>2. Min(T) \in T /\ \A y \in T : Min(T) <= y
  BY <1>1, Zenon DEF Min
<1>3. ASSUME NEW x \in T, \A y \in T : x <= y
      PROVE  Min(T) = x
  <2>1. Min(T) <= x /\ x <= Min(T) /\ x \in Nat /\ Min(T) \in Nat
    BY <1>2, <1>3
  <2> QED
    BY <2>1
<1> QED
  BY <1>2, <1>3

(* A volume of the assumption.                                             *)
VolumeOK ==
  /\ DOMAIN disk = 1 .. Size /\ Size \in Nat /\ Root \in 1 .. Size /\ disk[Size].kind = "end"
  /\ \A p \in 1 .. Size :
       /\ disk[p].kind \in {"end", "unused", "lfn", "std"}
       /\ disk[p].kind = "std" => Len(disk[p].name) \in Nat
       /\ disk[p].kind = "std" /\ disk[p].dir => cluster_to_dirent(disk[p].cluster) \in 1 .. Size
  /\ Len(path.names) \in Nat /\ \A x \in 1 .. Len(path.names) : Len(path.names[x]) \in Nat

LEMMA VolumesOK ==
  ASSUME disk \in Disks, path \in Paths
  PROVE  VolumeOK
<1>1. Root \in 1 .. Size /\ Size \in Nat
  BY FatDirAssumption
<1>2. Len(path.names) \in Nat /\ \A x \in 1 .. Len(path.names) : Len(path.names[x]) \in Nat
  BY FatDirAssumption
<1>3. /\ DOMAIN disk = 1 .. Size /\ disk[Size].kind = "end"
      /\ \A p \in 1 .. Size :
           /\ disk[p].kind \in Kinds
           /\ disk[p].kind = "std" => Len(disk[p].name) \in Nat
           /\ disk[p].kind = "std" /\ disk[p].dir =>
                DataStart + (disk[p].cluster - 2) * ClusterSize \in 1 .. Size
  <2>1. DOMAIN disk = 1 .. Size /\ disk[Size].kind = "end"
    BY FatDirAssumption, Zenon
  <2>2. \A p \in 1 .. Size :
          /\ disk[p].kind \in Kinds
          /\ disk[p].kind = "std" => Len(disk[p].name) \in Nat
          /\ disk[p].kind = "std" /\ disk[p].dir =>
               /\ disk[p].cluster >= 2
               /\ DataStart + (disk[p].cluster - 2) * ClusterSize \in 1 .. Size
    BY FatDirAssumption, Zenon
  <2> QED
    BY <2>1, <2>2, Zenon
<1> QED
  BY <1>1, <1>2, <1>3, Zenon DEF VolumeOK, Kinds, cluster_to_dirent

(* The entry that both scans stop at.                                      *)
LEMMA ScanStops ==
  ASSUME VolumeOK, NEW p \in 1 .. Size
  PROVE  /\ cur_de_last(p) \in p .. Size /\ disk[cur_de_last(p)].kind \in {"std", "end"}
         /\ \A q \in p .. Size : q < cur_de_last(p) => disk[q].kind \notin {"std", "end"}
<1>1. PICK T : T = {q \in p .. Size : disk[q].kind \in {"std", "end"}}
  OBVIOUS
<1>2. T \subseteq Nat /\ Size \in T
  BY <1>1 DEF VolumeOK
<1>3. Min(T) \in T /\ Min(T) \in Nat /\ \A y \in T : Min(T) <= y
  BY <1>2, MinIs
<1>4. cur_de_last(p) = Min(T)
  BY <1>1 DEF cur_de_last
<1>5. ASSUME NEW q \in p .. Size, q < cur_de_last(p), disk[q].kind \in {"std", "end"}
      PROVE  FALSE
  <2>1. Min(T) <= q
    BY <1>1, <1>3, <1>5
  <2>2. Min(T) \in Nat /\ q \in Int /\ q < Min(T)
    BY <1>3, <1>4, <1>5
  <2> QED
    BY <2>1, <2>2
<1> QED
  BY <1>1, <1>3, <1>4, <1>5

(* The end mark of the directory at s.                                     *)
LEMMA EndIs ==
  ASSUME VolumeOK, NEW s \in 1 .. Size
  PROVE  /\ EndOf(s) \in s .. Size /\ disk[EndOf(s)].kind = "end"
         /\ \A q \in s .. Size : disk[q].kind = "end" => EndOf(s) <= q
<1>1. PICK T : T = {q \in s .. Size : disk[q].kind = "end"}
  OBVIOUS
<1>2. T \subseteq Nat /\ Size \in T
  BY <1>1 DEF VolumeOK
<1>3. Min(T) \in T /\ Min(T) \in Nat /\ \A y \in T : Min(T) <= y
  BY <1>2, MinIs
<1>4. EndOf(s) = Min(T)
  BY <1>1 DEF EndOf
<1> QED
  BY <1>1, <1>3, <1>4

(* The code's comparison is the agreement of two names.                    *)
LEMMA Compares ==
  ASSUME NEW a, NEW b, Len(a) \in Nat, Len(b) \in Nat
  PROVE  Same(a, b) <=> Agree(a, b)
<1>1. PICK n \in Nat : n = IF Len(a) < Len(b) THEN Len(a) ELSE Len(b)
  OBVIOUS
<1>2. {Len(a), Len(b)} \subseteq Nat /\ n \in {Len(a), Len(b)} /\ \A y \in {Len(a), Len(b)} : n <= y
  BY <1>1
<1>3. {Len(a), Len(b)} # {}
  OBVIOUS
<1>4. Min({Len(a), Len(b)}) = n
  BY <1>2, <1>3, MinIs
<1>5. Same(a, b) <=> \A j \in 1 .. n : Lower(a[j]) = Lower(b[j])
  BY <1>4 DEF Same
<1>6. Agree(a, b) <=> [j \in 1 .. n |-> Lower(a[j])] = [j \in 1 .. n |-> Lower(b[j])]
  BY <1>1, Zenon DEF Agree
<1>7. ASSUME [j \in 1 .. n |-> Lower(a[j])] = [j \in 1 .. n |-> Lower(b[j])], NEW j \in 1 .. n
      PROVE  Lower(a[j]) = Lower(b[j])
  <2>1. [x \in 1 .. n |-> Lower(a[x])][j] = [x \in 1 .. n |-> Lower(b[x])][j]
    BY <1>7
  <2> QED
    BY <2>1
<1> QED
  BY <1>5, <1>6, <1>7

(* Where the search of a name is: no entry before de agrees with it.       *)
Searched(s, d, name) ==
  /\ s \in 1 .. Size /\ d \in s .. EndOf(s)
  /\ \A q \in Hits(s, name) : d <= q

(* What the next entry tells of the directory.                             *)
LEMMA NextEntry ==
  ASSUME VolumeOK, NEW s, NEW d, NEW name, Len(name) \in Nat, Searched(s, d, name)
  PROVE  /\ d \in 1 .. Size /\ cur_de_last(d) \in 1 .. Size
         /\ ~HasInfo(d) => Hits(s, name) = {}
         /\ HasInfo(d) => disk[cur_de_last(d)].kind = "std"
         /\ HasInfo(d) /\ Same(name, fat_get_dirent_info(d).name) =>
              Hits(s, name) # {} /\ Min(Hits(s, name)) = cur_de_last(d)
         /\ HasInfo(d) /\ ~Same(name, fat_get_dirent_info(d).name) =>
              /\ fat_next_dirent(d) = cur_de_last(d) + 1
              /\ Searched(s, cur_de_last(d) + 1, name)
<1>1. PICK e : e = EndOf(s)
  OBVIOUS
<1>2. PICK c : c = cur_de_last(d)
  OBVIOUS
<1>3. Size \in Nat /\ s \in 1 .. Size /\ d \in s .. e
  BY <1>1 DEF VolumeOK, Searched
<1>4. /\ e \in s .. Size /\ disk[e].kind = "end"
      /\ \A q \in s .. Size : disk[q].kind = "end" => e <= q
  BY <1>1, <1>3, EndIs
<1>5. d \in 1 .. Size
  BY <1>3, <1>4
<1>6. /\ c \in d .. Size /\ disk[c].kind \in {"std", "end"}
      /\ \A q \in d .. Size : q < c => disk[q].kind \notin {"std", "end"}
  BY <1>2, <1>5, ScanStops
<1>7. c \in s .. e
  <2>1. e \in d .. Size
    BY <1>3, <1>4
  <2>2. ~(e < c)
    BY <1>4, <1>6, <2>1
  <2> QED
    BY <1>3, <1>4, <1>6, <2>2
<1>8. PICK H : H = Hits(s, name)
  OBVIOUS
<1>9. H = {q \in s .. e : disk[q].kind = "std" /\ Agree(name, disk[q].name)}
  BY <1>1, <1>8 DEF Hits, Live
<1>10. \A q \in H : c <= q
  <2> TAKE q \in H
  <2>1. d <= q /\ q \in s .. e /\ disk[q].kind = "std"
    BY <1>8, <1>9 DEF Searched
  <2>2. q \in d .. Size
    BY <1>3, <1>4, <2>1
  <2>3. ~(q < c)
    BY <1>6, <2>1, <2>2
  <2> QED
    BY <1>6, <2>2, <2>3
<1>11. c \in 1 .. Size
  BY <1>5, <1>6
<1>12. HasInfo(d) <=> disk[c].kind = "std"
  BY <1>2 DEF HasInfo
<1>13. ASSUME ~HasInfo(d)
       PROVE  H = {}
  <2>1. disk[c].kind = "end"
    BY <1>6, <1>12, <1>13
  <2>2. c = e
    BY <1>3, <1>4, <1>7, <2>1
  <2>3. ASSUME NEW q \in H
        PROVE  FALSE
    <3>1. c <= q /\ q \in s .. e /\ disk[q].kind = "std"
      BY <1>9, <1>10
    <3>2. q = c
      BY <1>3, <1>7, <2>2, <3>1
    <3> QED
      BY <2>1, <3>1, <3>2
  <2> QED
    BY <2>3
<1>14. fat_get_dirent_info(d).name = disk[c].name
  BY <1>2 DEF fat_get_dirent_info
<1>15. ASSUME HasInfo(d)
       PROVE  Same(name, fat_get_dirent_info(d).name) <=> Agree(name, disk[c].name)
  <2>1. Len(disk[c].name) \in Nat
    BY <1>11, <1>12, <1>15 DEF VolumeOK
  <2> QED
    BY <1>14, <2>1, Compares
<1>16. ASSUME HasInfo(d), Same(name, fat_get_dirent_info(d).name)
       PROVE  H # {} /\ Min(H) = c
  <2>1. c \in H
    BY <1>7, <1>9, <1>12, <1>15, <1>16
  <2>2. H \subseteq Nat
    BY <1>3, <1>9
  <2>3. H # {}
    BY <2>1
  <2> QED
    BY <1>10, <2>1, <2>2, <2>3, MinIs
<1>17. ASSUME HasInfo(d), ~Same(name, fat_get_dirent_info(d).name)
       PROVE  fat_next_dirent(d) = c + 1 /\ Searched(s, c + 1, name)
  <2>1. disk[c].kind = "std" /\ ~Agree(name, disk[c].name)
    BY <1>12, <1>15, <1>17
  <2>2. fat_next_dirent(d) = c + 1
    BY <1>2, <2>1 DEF fat_next_dirent
  <2>3. c # e
    BY <1>4, <2>1
  <2>4. c + 1 \in s .. e
    BY <1>3, <1>4, <1>7, <2>3
  <2>5. \A q \in H : c + 1 <= q
    <3> TAKE q \in H
    <3>1. c <= q /\ q # c /\ q \in s .. e
      BY <1>9, <1>10, <2>1
    <3> QED
      BY <1>3, <1>7, <3>1
  <2> QED
    BY <1>1, <1>3, <1>8, <2>2, <2>4, <2>5 DEF Searched
<1> QED
  BY <1>2, <1>5, <1>8, <1>11, <1>12, <1>13, <1>16, <1>17

(* The names before the i-th have been followed; last is the entry of the  *)
(* one before it, in every trail there is.                                 *)
Followed(trail, last) ==
  /\ trail \in [1 .. i - 1 -> 1 .. Size] /\ \A n \in 1 .. i - 1 : Follows(trail, n)
  /\ i > 1 =>
       /\ last = trail[i - 1] /\ last \in 1 .. Size /\ disk[last].kind = "std"
       /\ start = cluster_to_dirent(disk[last].cluster)
       /\ de_info.name = disk[last].name /\ de_info.dir = disk[last].dir
       /\ de_info.ro = disk[last].ro /\ de_info.cluster = disk[last].cluster
       /\ i <= Len(path.names) \/ path.tail = "slashes" => disk[last].dir
       /\ \A full \in Trails : full[i - 1] = last
  /\ i = 1 => start = Root

DirInv ==
  /\ disk \in Disks /\ path \in Paths
  /\ pc \in {"find", "done", "smashed"}
  /\ pc = "find" =>
       /\ i \in 1 .. Len(path.names) + 1 /\ out = Refused
       /\ \E trail, last : Followed(trail, last)
       /\ i <= Len(path.names) => Searched(start, de, path.names[i])
  /\ OpensTheFile

(* Nothing about directories and trails depends on the call's progress.    *)
LEMMA SameVolume ==
  ASSUME UNCHANGED <<disk, path, flags>>
  PROVE  /\ Trails' = Trails
         /\ \A t, n : Follows(t, n)' <=> Follows(t, n)
         /\ \A q : Permitted(q)' <=> Permitted(q)
         /\ \A s, d, name : Searched(s, d, name)' <=> Searched(s, d, name)
<1>1. \A s : EndOf(s)' = EndOf(s)
  BY DEF EndOf
<1>2. \A s : Live(s)' = Live(s)
  BY <1>1 DEF Live
<1>3. \A s, name : Hits(s, name)' = Hits(s, name)
  BY <1>2 DEF Hits
<1>4. \A t, n : DirOf(t, n)' = DirOf(t, n)
  BY DEF DirOf
<1>5. \A t, n : Follows(t, n)' <=> Follows(t, n)
  <2> TAKE t, n
  <2>1. PICK s : s = DirOf(t, n)
    OBVIOUS
  <2>2. Hits(s, path.names[n])' = Hits(s, path.names[n])
    BY <1>3
  <2> QED
    BY <1>4, <2>1, <2>2 DEF Follows
<1>6. Trails' = Trails
  BY <1>5 DEF Trails
<1>7. \A q : Permitted(q)' <=> Permitted(q)
  BY DEF Permitted
<1>8. \A s, d, name : Searched(s, d, name)' <=> Searched(s, d, name)
  BY <1>1, <1>3 DEF Searched
<1> QED
  BY <1>5, <1>6, <1>7, <1>8

(* Where a search starts nothing has been passed.                          *)
LEMMA SearchStarts ==
  ASSUME VolumeOK, NEW s \in 1 .. Size, NEW name
  PROVE  Searched(s, s, name)
<1>1. /\ Size \in Nat /\ EndOf(s) \in s .. Size
  BY EndIs DEF VolumeOK
<1>2. s \in s .. EndOf(s)
  BY <1>1
<1>3. \A q \in Hits(s, name) : s <= q
  BY <1>1 DEF Hits, Live
<1> QED
  BY <1>2, <1>3 DEF Searched

(* The directory that the i-th name of any trail is looked up in.          *)
LEMMA SameDir ==
  ASSUME VolumeOK, i \in 1 .. Len(path.names), NEW t, NEW last, Followed(t, last)
  PROVE  /\ \A full \in Trails : DirOf(full, i) = start
         /\ \A u \in [1 .. i -> 1 .. Size] :
              (\A n \in 1 .. i - 1 : u[n] = t[n]) => DirOf(u, i) = start
<1>1. i \in Nat /\ i >= 1
  BY DEF VolumeOK
<1>2. CASE i = 1
  BY <1>2 DEF DirOf, Followed
<1>3. CASE i # 1
  <2>1. i > 1 /\ i - 1 \in 1 .. i - 1
    BY <1>1, <1>3
  <2>2. /\ last = t[i - 1] /\ start = cluster_to_dirent(disk[last].cluster)
        /\ \A full \in Trails : full[i - 1] = last
    BY <2>1 DEF Followed
  <2>3. ASSUME NEW u, u[i - 1] = last
        PROVE  DirOf(u, i) = start
    BY <1>3, <2>2, <2>3 DEF DirOf, cluster_to_dirent
  <2> QED
    BY <2>1, <2>2, <2>3
<1> QED
  BY <1>2, <1>3

LEMMA OpenStart ==
  ASSUME OpenInit
  PROVE  DirInv
<1>1. VolumeOK
  BY VolumesOK DEF OpenInit
<1>2. /\ disk \in Disks /\ path \in Paths /\ pc = "find" /\ i = 1 /\ out = Refused
      /\ start = Root /\ de = Root /\ Root \in 1 .. Size
  BY <1>1 DEF OpenInit, VolumeOK
<1>3. i \in 1 .. Len(path.names) + 1
  BY <1>1, <1>2 DEF VolumeOK
<1>4. \E trail, last : Followed(trail, last)
  <2>1. PICK t \in [1 .. 0 -> 1 .. Size] : TRUE
    <3>1. [x \in 1 .. 0 |-> Root] \in [1 .. 0 -> 1 .. Size]
      BY <1>2
    <3> QED
      BY <3>1
  <2>2. Followed(t, Root)
    BY <1>2, <2>1 DEF Followed
  <2> QED
    BY <2>2
<1>5. Searched(start, de, path.names[i])
  BY <1>1, <1>2, SearchStarts
<1> QED
  BY <1>2, <1>3, <1>4, <1>5 DEF DirInv, OpensTheFile

LEMMA NextKeeps ==
  ASSUME DirInv, find_next
  PROVE  DirInv'
<1>1. VolumeOK /\ i \in 1 .. Len(path.names)
  BY VolumesOK DEF DirInv, find_next, Looking, VolumeOK
<1>2. Searched(start, de, path.names[i]) /\ Len(path.names[i]) \in Nat
  BY <1>1 DEF DirInv, find_next, Looking, VolumeOK
<1>3. de' = cur_de_last(de) + 1 /\ Searched(start, cur_de_last(de) + 1, path.names[i])
  BY <1>1, <1>2, NextEntry DEF find_next, Looking
<1>4. UNCHANGED <<disk, path, flags, i, start, de_info, pc, out>> /\ pc = "find"
  BY DEF find_next, Looking
<1>5. Searched(start, de, path.names[i])'
  BY <1>3, <1>4 DEF Searched, Hits, Live, EndOf
<1>6. \E trail, last : Followed(trail, last)'
  <2>1. PICK t, q : Followed(t, q)
    BY <1>4 DEF DirInv
  <2>2. Followed(t, q)'
    BY <1>4, <2>1, SameVolume DEF Followed, cluster_to_dirent
  <2> QED
    BY <2>2
<1> QED
  BY <1>4, <1>5, <1>6 DEF DirInv, OpensTheFile

LEMMA NoneKeeps ==
  ASSUME DirInv, find_none
  PROVE  DirInv'
<1>1. VolumeOK /\ i \in 1 .. Len(path.names)
  BY VolumesOK DEF DirInv, find_none, Looking, VolumeOK
<1>2. Searched(start, de, path.names[i]) /\ Len(path.names[i]) \in Nat
  BY <1>1 DEF DirInv, find_none, Looking, VolumeOK
<1>3. Hits(start, path.names[i]) = {}
  BY <1>1, <1>2, NextEntry DEF find_none, Looking
<1>4. PICK t, q : Followed(t, q)
  BY DEF DirInv, find_none, Looking
<1>5. Trails = {}
  <2> SUFFICES ASSUME NEW full \in Trails
               PROVE  FALSE
    OBVIOUS
  <2>1. DirOf(full, i) = start
    BY <1>1, <1>4, SameDir
  <2>2. Follows(full, i)
    BY <1>1 DEF Trails
  <2> QED
    BY <1>3, <2>1, <2>2 DEF Follows
<1>6. /\ UNCHANGED <<disk, path, flags, i, start, de, de_info, out>> /\ pc' = "done"
      /\ out = Refused
  BY DEF find_none, Looking, DirInv
<1>7. Trails' = {}
  BY <1>5, <1>6, SameVolume
<1>8. OpensTheFile'
  BY <1>6, <1>7 DEF OpensTheFile, Refused
<1> QED
  BY <1>6, <1>8 DEF DirInv

LEMMA FoundKeeps ==
  ASSUME DirInv, find_found
  PROVE  DirInv'
<1>1. VolumeOK /\ i \in 1 .. Len(path.names)
  BY VolumesOK DEF DirInv, find_found, Looking, VolumeOK
<1>2. Searched(start, de, path.names[i]) /\ Len(path.names[i]) \in Nat
  BY <1>1 DEF DirInv, find_found, Looking, VolumeOK
<1>3. PICK q : q = cur_de_last(de)
  OBVIOUS
<1>4. PICK info : info = fat_get_dirent_info(de)
  OBVIOUS
<1>5. /\ q \in 1 .. Size /\ disk[q].kind = "std"
      /\ Hits(start, path.names[i]) # {} /\ Min(Hits(start, path.names[i])) = q
  BY <1>1, <1>2, <1>3, NextEntry DEF find_found, Looking
<1>6. /\ info.name = disk[q].name /\ info.dir = disk[q].dir
      /\ info.ro = disk[q].ro /\ info.cluster = disk[q].cluster
  BY <1>3, <1>4 DEF fat_get_dirent_info
<1>7. PICK t, last : Followed(t, last)
  BY DEF DirInv, find_found, Looking
<1>8. \A full \in Trails : full[i] = q
  <2> TAKE full \in Trails
  <2>1. DirOf(full, i) = start
    BY <1>1, <1>7, SameDir
  <2>2. Follows(full, i)
    BY <1>1 DEF Trails
  <2> QED
    BY <1>5, <2>1, <2>2 DEF Follows
<1>9. /\ UNCHANGED <<disk, path, flags, out>> /\ de_info' = info /\ out = Refused
      /\ pc = "find"
  BY <1>4 DEF find_found, Looking, DirInv
<1>10. Trails' = Trails
  BY <1>9 DEF Trails, Follows, DirOf, Hits, Live, EndOf
<1>11. CASE ~info.dir /\ MoreFollows
  <2>1. pc' = "done"
    BY <1>4, <1>11 DEF find_found, Looking
  <2>2. \A full \in Trails : ~Permitted(full[Len(path.names)])
    <3> TAKE full \in Trails
    <3>1. CASE i < Len(path.names)
      <4>1. i + 1 \in 1 .. Len(path.names) /\ i + 1 > 1 /\ (i + 1) - 1 = i
        BY <1>1, <3>1 DEF VolumeOK
      <4>2. disk[full[i]].dir
        BY <4>1 DEF Trails, Follows
      <4> QED
        BY <1>6, <1>8, <1>11, <4>2
    <3>2. CASE path.tail = "slashes"
      BY <3>2 DEF Permitted
    <3> QED
      BY <1>11, <3>1, <3>2 DEF MoreFollows
  <2>3. \A full \in Trails' : ~Permitted(full[Len(path.names)])'
    BY <1>9, <1>10, <2>2 DEF Permitted
  <2>4. out'.opened = FALSE
    BY <1>9 DEF Refused
  <2>5. OpensTheFile'
    BY <2>3, <2>4 DEF OpensTheFile
  <2> QED
    BY <1>9, <2>1, <2>5 DEF DirInv
<1>12. CASE ~(~info.dir /\ MoreFollows)
  <2>1. i' = i + 1 /\ start' = cluster_to_dirent(disk[q].cluster) /\ de' = start' /\ pc' = pc
    BY <1>4, <1>6, <1>12 DEF find_found, Looking
  <2>2. i \in Nat /\ i >= 1 /\ i + 1 \in 1 .. Len(path.names) + 1 /\ (i + 1) - 1 = i /\ i + 1 > 1
    BY <1>1 DEF VolumeOK
  <2>3. i + 1 <= Len(path.names) \/ path.tail = "slashes" => disk[q].dir
    BY <1>1, <1>6, <1>12 DEF MoreFollows, VolumeOK
  <2>4. PICK u : u = [n \in 1 .. i |-> IF n = i THEN q ELSE t[n]]
    OBVIOUS
  <2>5. t \in [1 .. i - 1 -> 1 .. Size] /\ \A n \in 1 .. i - 1 : Follows(t, n)
    BY <1>7 DEF Followed
  <2>6. u \in [1 .. i -> 1 .. Size] /\ u[i] = q /\ \A n \in 1 .. i - 1 : u[n] = t[n]
    <3>1. \A n \in 1 .. i : n # i => n \in 1 .. i - 1
      BY <2>2
    <3> QED
      BY <1>5, <2>2, <2>4, <2>5, <3>1
  <2>7. Follows(u, i)
    <3>1. DirOf(u, i) = start
      BY <1>1, <1>7, <2>6, SameDir
    <3>2. i > 1 => disk[u[i - 1]].dir
      <4> SUFFICES ASSUME i > 1
                   PROVE  disk[u[i - 1]].dir
        OBVIOUS
      <4>1. i - 1 \in 1 .. i - 1
        BY <2>2
      <4>2. u[i - 1] = last /\ disk[last].dir
        BY <1>1, <1>7, <2>6, <4>1 DEF Followed
      <4> QED
        BY <4>2
    <3> QED
      BY <1>5, <2>6, <3>1, <3>2 DEF Follows
  <2>8. ASSUME NEW n \in 1 .. i - 1
        PROVE  Follows(u, n)
    <3>1. Follows(t, n) /\ u[n] = t[n]
      BY <2>5, <2>6
    <3>2. n > 1 => u[n - 1] = t[n - 1]
      BY <2>2, <2>6
    <3>3. n = 1 \/ n > 1
      BY <2>2
    <3>4. DirOf(u, n) = DirOf(t, n)
      BY <3>2, <3>3 DEF DirOf
    <3> QED
      BY <3>1, <3>2, <3>4 DEF Follows
  <2>9. \A n \in 1 .. i : Follows(u, n)'
    <3>1. \A n \in 1 .. i : Follows(u, n)
      <4>1. \A n \in 1 .. i : n = i \/ n \in 1 .. i - 1
        BY <2>2
      <4> QED
        BY <2>7, <2>8, <4>1
    <3> QED
      BY <1>9, <3>1, SameVolume
  <2>10. Followed(u, q)'
    BY <1>5, <1>6, <1>8, <1>9, <1>10, <2>1, <2>2, <2>3, <2>6, <2>9 DEF Followed, cluster_to_dirent
  <2>11. (i <= Len(path.names) => Searched(start, de, path.names[i]))'
    <3> SUFFICES ASSUME i + 1 <= Len(path.names)
                 PROVE  Searched(start, de, path.names[i])'
      BY <1>9, <2>1
    <3>1. cluster_to_dirent(disk[q].cluster) \in 1 .. Size
      BY <1>1, <1>5, <2>3 DEF VolumeOK
    <3>2. Searched(start', start', path.names[i + 1])
      BY <1>1, <2>1, <3>1, SearchStarts
    <3> QED
      BY <1>9, <2>1, <3>2 DEF Searched, Hits, Live, EndOf
  <2>12. OpensTheFile'
    BY <1>9, <2>1 DEF OpensTheFile
  <2> QED
    BY <1>9, <2>1, <2>2, <2>10, <2>11, <2>12 DEF DirInv
<1> QED
  BY <1>11, <1>12

LEMMA CheckKeeps ==
  ASSUME DirInv, open_check
  PROVE  DirInv'
<1>1. /\ VolumeOK /\ i = Len(path.names) + 1 /\ Len(path.names) \in Nat
      /\ pc' = "done" /\ UNCHANGED <<disk, path, flags>>
  BY VolumesOK DEF DirInv, open_check, VolumeOK
<1>2. OpensTheFile'
  <2> SUFFICES ASSUME Len(path.names) > 0
               PROVE  /\ out'.opened <=>
                           \E full \in Trails : Permitted(full[Len(path.names)])
                      /\ \A full \in Trails :
                           Permitted(full[Len(path.names)]) =>
                             /\ out'.info.cluster = disk[full[Len(path.names)]].cluster
                             /\ out'.info.name = disk[full[Len(path.names)]].name
    <3>1. Trails' = Trails /\ \A q : Permitted(q)' <=> Permitted(q)
      BY <1>1 DEF Trails, Follows, DirOf, Hits, Live, EndOf, Permitted
    <3> QED
      BY <1>1, <3>1 DEF OpensTheFile
  <2>1. PICK t, q : Followed(t, q)
    BY DEF DirInv, open_check
  <2>2. i > 1 /\ i - 1 = Len(path.names)
    BY <1>1
  <2>3. /\ q = t[Len(path.names)] /\ \A full \in Trails : full[Len(path.names)] = q
        /\ de_info.name = disk[q].name /\ de_info.dir = disk[q].dir
        /\ de_info.ro = disk[q].ro /\ de_info.cluster = disk[q].cluster
        /\ path.tail = "slashes" => disk[q].dir
    BY <2>1, <2>2 DEF Followed
  <2>4. t \in Trails
    BY <2>1, <2>2 DEF Followed, Trails
  <2>5. /\ de_info.dir \/ ("VFF_WRITE" \in flags /\ de_info.ro) => out' = Refused
        /\ ~(de_info.dir \/ ("VFF_WRITE" \in flags /\ de_info.ro)) => out' = Opened(de_info)
    BY DEF open_check
  <2>6. Permitted(q) <=> ~(de_info.dir \/ ("VFF_WRITE" \in flags /\ de_info.ro))
    BY <2>3 DEF Permitted
  <2>7. CASE Permitted(q)
    BY <2>3, <2>4, <2>5, <2>6, <2>7 DEF Opened
  <2>8. CASE ~Permitted(q)
    BY <2>3, <2>4, <2>5, <2>6, <2>8 DEF Refused
  <2> QED
    BY <2>7, <2>8
<1> QED
  BY <1>1, <1>2 DEF DirInv

(* fat_vfs_open gives the file its path leads to, and every file that it   *)
(* may open, for any path, names and notion of case, when no name on the   *)
(* way overruns a buffer and on volumes as FatDirAssumption has them:      *)
(* directories in one piece, with their end marks, and no '..' that names  *)
(* the root by cluster 0 (fat_vfs_open, fat_find_dirent).                  *)
THEOREM OpenFindsTheFile == OpenSpec => []OpensTheFile
<1>1. OpenInit => DirInv
  BY OpenStart
<1>2. DirInv /\ [OpenNext]_open_vars => DirInv'
  <2> SUFFICES ASSUME DirInv, [OpenNext]_open_vars
               PROVE  DirInv'
    OBVIOUS
  <2>1. CASE UNCHANGED open_vars
    <3>1. UNCHANGED <<disk, path, flags, i, start, de, de_info, pc, out>>
      BY <2>1 DEF open_vars
    <3>2. OpensTheFile'
      BY <3>1, SameVolume DEF DirInv, OpensTheFile
    <3>3. Trails' = Trails
      BY <3>1, SameVolume
    <3>4. ASSUME NEW t, NEW q, Followed(t, q)
          PROVE  Followed(t, q)'
      BY <3>1, <3>3, <3>4, SameVolume DEF Followed, cluster_to_dirent
    <3>5. Searched(start, de, path.names[i])' <=> Searched(start, de, path.names[i])
      BY <3>1 DEF Searched, Hits, Live, EndOf
    <3> QED
      BY <3>1, <3>2, <3>4, <3>5 DEF DirInv
  <2>2. CASE Done
    BY <2>1, <2>2 DEF Done
  <2>3. CASE smash
    BY <2>3 DEF smash, DirInv, OpensTheFile
  <2> QED
    BY <2>1, <2>2, <2>3, NextKeeps, NoneKeeps, FoundKeeps, CheckKeeps DEF OpenNext
<1>3. DirInv => OpensTheFile
  BY DEF DirInv
<1> QED
  BY <1>1, <1>2, <1>3, PTL DEF OpenSpec
================================================================================
