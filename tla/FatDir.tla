------------------------------- MODULE FatDir --------------------------------
(***************************************************************************)
(* Finding a file on a FAT volume (kernel/src/fat.c): fat_vfs_open walks a *)
(* path, and looks each name up with fat_find_dirent, which steps through  *)
(* a directory with fat_get_dirent_info and fat_next_dirent.               *)
(*                                                                         *)
(* The disk is a function from entry positions (32 bytes each) to          *)
(* directory entries; a name is a sequence of characters.  Reads do not    *)
(* fail: below the directory code a driver failure is silent.              *)
(*                                                                         *)
(* Two buffers on the stack are filled without a check of their size.  A   *)
(* walk that gets there ends "smashed", of which nothing more is said.     *)
(***************************************************************************)
EXTENDS Integers, Sequences, FiniteSetsExt

CONSTANTS
  Disks,         \* the volumes: functions from 1 .. Size to entries
  Size,          \* entries a volume holds
  Root,          \* fat_get_root: position of the first root entry
  DataStart,     \* position of the first data sector
  ClusterSize,   \* entries of a cluster
  Paths,         \* [names, tail]: what the caller asks for
  PATH_BUF,      \* characters of path_buf, 256
  Lower(_),      \* lower case of a character
  StackInfo      \* what an uninitialised fat_dirent_info may hold

Kinds == {"end", "unused", "lfn", "std"}

(* A name has a length.  A directory starts at a cluster of the data area  *)
(* (the '..' that names the root by cluster 0 is not among the entries) on *)
(* the volume, which ends with a directory's end mark: the scans have no   *)
(* bound of their own.  The first byte of a long-name entry is its order,  *)
(* which an entry in use has other than 0 and 0xe5.                        *)
ASSUME FatDirAssumption ==
  /\ Root \in Nat \ {0} /\ ClusterSize \in Nat \ {0} /\ PATH_BUF \in Nat
  /\ Size \in Nat /\ DataStart \in Root .. Size
  /\ \A p \in Paths : Len(p.names) \in Nat /\ \A k \in 1 .. Len(p.names) : Len(p.names[k]) \in Nat
  /\ \A d \in Disks :
       /\ DOMAIN d = 1 .. Size /\ d[Size].kind = "end"
       /\ \A p \in 1 .. Size :
            /\ d[p].kind \in Kinds
            /\ d[p].kind = "lfn" => d[p].order \in (1 .. 255) \ {229}
            /\ d[p].kind = "std" => Len(d[p].name) \in Nat
            /\ d[p].kind = "std" /\ d[p].dir =>
                 /\ d[p].cluster >= 2
                 /\ DataStart + (d[p].cluster - 2) * ClusterSize \in 1 .. Size

VARIABLES
  disk, path, flags,   \* the volume and the call's arguments
  i,                   \* the name of the path being looked up
  start,               \* the directory it is looked up in
  de, de_info,         \* the locals of the same names
  pc, out              \* what the call has come to: the file's info, if any

open_vars == <<disk, path, flags, i, start, de, de_info, pc, out>>

Refused == [opened |-> FALSE]
Opened(info) == [opened |-> TRUE, info |-> info]

OpenInit ==
  /\ disk \in Disks /\ path \in Paths /\ flags \in SUBSET {"VFF_WRITE"}
  /\ i = 1 /\ start = Root /\ de = Root
  /\ de_info \in StackInfo
  /\ pc = "find" /\ out = Refused

-----------------------------------------------------------------------------
(* Both scans skip unused and long-name entries up to the next standard    *)
(* entry or the end of the directory.                                      *)
cur_de_last(p) == Min({q \in p .. Size : disk[q].kind \in {"std", "end"}})

(* fat_next_dirent.  Its second loop reads the entry the first loop ended  *)
(* at (cur_de_last, not next_de), a standard entry, and so always gives    *)
(* the position just after it, whatever is there.                          *)
fat_next_dirent_stuck(p) ==
  IF disk[cur_de_last(p)].kind = "end" THEN 0 ELSE cur_de_last(p)
fat_next_dirent(p) ==
  IF disk[cur_de_last(p)].kind = "end" THEN 0 ELSE cur_de_last(p) + 1

(* fat_get_dirent_info: fails at the end of the directory.  The 13         *)
(* characters of a long-name entry go to name[13 * order] on; orders start *)
(* at 1, so name[0] stays 0 and the name is always the 8.3 one.  With an   *)
(* order of 19 or more, as the last segment of every name has (its bit 6   *)
(* is set), they go past the end of name.                                  *)
NAME_BUF == 255
Overruns(p) ==
  \E q \in p .. cur_de_last(p) :
    disk[q].kind = "lfn" /\ 13 * disk[q].order + 12 >= NAME_BUF
HasInfo(p) == disk[cur_de_last(p)].kind = "std"
fat_get_dirent_info(p) ==
  [name |-> disk[cur_de_last(p)].name, dir |-> disk[cur_de_last(p)].dir,
   ro |-> disk[cur_de_last(p)].ro, cluster |-> disk[cur_de_last(p)].cluster]

(* The comparison in fat_find_dirent stops at the end of either name.      *)
Same_case(a, b) ==
  \A j \in 1 .. Min({Len(a), Len(b)}) : a[j] = b[j]
Same(a, b) ==
  \A j \in 1 .. Min({Len(a), Len(b)}) : Lower(a[j]) = Lower(b[j])

(* cluster_to_pos, counted in entries.                                     *)
cluster_to_dirent(cluster) == DataStart + (cluster - 2) * ClusterSize

-----------------------------------------------------------------------------
(* A name that has been copied to path_buf, with its 0, is looked for, and *)
(* the next entry's name is read.                                          *)
NameFits == Len(path.names[i]) < PATH_BUF
Looking == pc = "find" /\ i <= Len(path.names) /\ NameFits /\ ~Overruns(de)

smash ==
  /\ pc = "find" /\ i <= Len(path.names)
  /\ ~NameFits \/ Overruns(de)
  /\ pc' = "smashed"
  /\ UNCHANGED <<disk, path, flags, i, start, de, de_info, out>>

(* One turn of the loop of fat_find_dirent that does not match: on to the  *)
(* next entry.                                                             *)
find_next ==
  /\ Looking /\ HasInfo(de) /\ ~Same(path.names[i], fat_get_dirent_info(de).name)
  /\ fat_next_dirent(de) # 0
  /\ de' = fat_next_dirent(de)
  /\ UNCHANGED <<disk, path, flags, i, start, de_info, pc, out>>

(* The directory is exhausted: fat_get_dirent_info fails at its end.  (The *)
(* loop's own exit, when fat_next_dirent gives 0, is not reached: the      *)
(* entry it starts from has just been read.)                               *)
find_none ==
  /\ Looking /\ ~HasInfo(de)
  /\ pc' = "done"
  /\ UNCHANGED <<disk, path, flags, i, start, de, de_info, out>>

(* A name was found: fat_vfs_open gets its info and goes down, but refuses *)
(* a file followed by a slash and more characters.  tail is what follows   *)
(* the last name: nothing, one slash or several.                           *)
MoreFollows == i < Len(path.names) \/ path.tail = "slashes"
find_found ==
  LET info == fat_get_dirent_info(de) IN
  /\ Looking /\ HasInfo(de) /\ Same(path.names[i], info.name)
  /\ de_info' = info
  /\ IF ~info.dir /\ MoreFollows
     THEN pc' = "done" /\ UNCHANGED <<i, start, de>>
     ELSE /\ i' = i + 1
          /\ start' = cluster_to_dirent(info.cluster) /\ de' = start'
          /\ UNCHANGED pc
  /\ UNCHANGED <<disk, path, flags, out>>

(* The path is used up: refuse directories, and read-only files opened to  *)
(* write.  For a path without a name de_info was never set.                *)
open_check ==
  /\ pc = "find" /\ i > Len(path.names)
  /\ out' = IF de_info.dir \/ ("VFF_WRITE" \in flags /\ de_info.ro)
            THEN Refused ELSE Opened(de_info)
  /\ pc' = "done"
  /\ UNCHANGED <<disk, path, flags, i, start, de, de_info>>

Done == pc \in {"done", "smashed"} /\ UNCHANGED open_vars

OpenNext == smash \/ find_next \/ find_none \/ find_found \/ open_check \/ Done

OpenSpec == OpenInit /\ [][OpenNext]_open_vars /\ WF_open_vars(OpenNext)

-----------------------------------------------------------------------------
(* The entries of the directory at s, up to its end mark: the directory is *)
(* in one piece (fat.c:6 says that the code reads no other).               *)
EndOf(s) == Min({q \in s .. Size : disk[q].kind = "end"})
Live(s) == {q \in s .. EndOf(s) : disk[q].kind = "std"}

(* The file a path leads to: from directory to directory by the first      *)
(* entry that agrees with the name as far as both go, case aside.          *)
Agree(a, b) ==
  LET n == IF Len(a) < Len(b) THEN Len(a) ELSE Len(b)
  IN  [j \in 1 .. n |-> Lower(a[j])] = [j \in 1 .. n |-> Lower(b[j])]
Hits(s, name) == {q \in Live(s) : Agree(name, disk[q].name)}

(* A trail has the entry of every name, each in the directory of the one   *)
(* before it.                                                              *)
DirOf(trail, n) ==
  IF n = 1 THEN Root ELSE DataStart + (disk[trail[n - 1]].cluster - 2) * ClusterSize
Follows(trail, n) ==
  /\ n > 1 => disk[trail[n - 1]].dir
  /\ Hits(DirOf(trail, n), path.names[n]) # {}
  /\ trail[n] = Min(Hits(DirOf(trail, n), path.names[n]))
Trails ==
  {trail \in [1 .. Len(path.names) -> 1 .. Size] :
     \A n \in 1 .. Len(path.names) : Follows(trail, n)}

(* A walk of fat_vfs_open that stays inside its buffers opens the file its *)
(* path leads to, and opens it whenever there is one it may open, on a     *)
(* volume whose directories are in one piece.  (A path without a name      *)
(* reads an uninitialised fat_dirent_info, fat.c:395, and is left out.)    *)
Permitted(q) ==
  ~disk[q].dir /\ path.tail # "slashes" /\ ~("VFF_WRITE" \in flags /\ disk[q].ro)
OpensTheFile ==
  pc = "done" /\ Len(path.names) > 0 =>
    /\ out.opened <=> \E trail \in Trails : Permitted(trail[Len(path.names)])
    /\ \A trail \in Trails :
         LET q == trail[Len(path.names)] IN
         Permitted(q) => out.info.cluster = disk[q].cluster /\ out.info.name = disk[q].name

(* Every open comes to an end: the scan moves on with every entry.         *)
OpenEnds == <>(pc # "find")
=============================================================================
