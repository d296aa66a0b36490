-------------------------------- MODULE Blkdev --------------------------------
(***************************************************************************)
(* Block devices and their partitions (kernel/src/blkdev.c).               *)
(*                                                                         *)
(* A registered device is <<k>>, the k-th element of the table; its m-th   *)
(* partition is <<k, m>>.  A partition has no lock of its own in use: its  *)
(* parent_mutex points to the device's mutex.  Reads and writes are        *)
(* checked against the device or partition they name, shifted by part_base *)
(* and passed to the driver with the lock held.  blkdev_unregister,        *)
(* blkdev_rm_part and blkdev_destroy are empty in the code, and no driver  *)
(* sets BF_SYNC_DEP_CHILD.  Addresses and counts are 64-bit words, and the *)
(* sums of an address and a count wrap (Add).                              *)
(*                                                                         *)
(* This module has the operations; Mbr composes them into the system.      *)
(***************************************************************************)
EXTENDS Integers, Sequences, FiniteSets, Katomic

CONSTANTS
  Cpu,
  MAX_BLKDEV_CNT,
  BLKDEV_MAX_PARTS,
  WORD,             \* blk_addr_t and size_t are integers modulo WORD
  Lbas, Counts      \* block addresses and counts that callers read and write

VARIABLES
  blkdevs,   \* sequence of [dev_type, driver, blk_size, nblk, children]
  mutex,     \* the mutex of each registered device
  pc,        \* per processor
  req,       \* per processor: the call it is in
  drv,       \* per processor: the request the driver was given
  ret        \* per processor: what its last call returned

blk_vars == <<blkdevs, mutex, pc, req, drv, ret>>

NULL == <<>>

Word == 0 .. WORD - 1
Add(a, b) == (a + b) % WORD

(* struct blkdev of a partition, where it differs from its parent.         *)
Part(base, limit) == [part_base |-> base, nblk |-> limit]
Parts == [part_base : Word, nblk : Word]
Blkdevs == [dev_type : STRING, driver : STRING, blk_size : Nat, nblk : Word,
            children : Seq(Parts)]

NoReq == [op |-> "none", dev |-> NULL, at |-> 0, n |-> 0]
NoDrv == [lba |-> 0, n |-> 0]

IsPart(dev) == Len(dev) = 2
Disk(dev) == dev[1]
Nblk(dev) == IF IsPart(dev) THEN blkdevs[Disk(dev)].children[dev[2]].nblk
             ELSE blkdevs[Disk(dev)].nblk
PartBase(dev) ==
  IF IsPart(dev) THEN blkdevs[Disk(dev)].children[dev[2]].part_base ELSE 0

Devices == {<<k>> : k \in DOMAIN blkdevs}
           \cup UNION {{<<k, m>> : m \in DOMAIN blkdevs[k].children} :
                         k \in DOMAIN blkdevs}

(* The mutex a call on dev takes.                                          *)
MutexOwn(dev) == IF IsPart(dev) THEN dev ELSE <<Disk(dev)>>
Mutex(dev) == <<Disk(dev)>>

BlkInit ==
  /\ blkdevs = <<>>
  /\ mutex = [d \in {} |-> 0]
  /\ pc = [c \in Cpu |-> "idle"]
  /\ req = [c \in Cpu |-> NoReq]
  /\ drv = [c \in Cpu |-> NoDrv]
  /\ ret = [c \in Cpu |-> 0]

Goto(c, label) == pc' = [pc EXCEPT ![c] = label]

Lock(c) ==
  LET m == Mutex(req[c].dev) IN
  /\ mutex[m] = 0
  /\ mutex' = [mutex EXCEPT ![m] = 1]

Unlock(c) == mutex' = [mutex EXCEPT ![Mutex(req[c].dev)] = 0]

Return(c, val) ==
  /\ Unlock(c)
  /\ ret' = [ret EXCEPT ![c] = val]
  /\ req' = [req EXCEPT ![c] = NoReq]
  /\ Goto(c, "idle")

-----------------------------------------------------------------------------
(* blkdev_register: a full table refuses the device.                       *)
blkdev_register(dev) ==
  IF Len(blkdevs) >= MAX_BLKDEV_CNT
  THEN UNCHANGED <<blkdevs, mutex>>
  ELSE /\ blkdevs' = Append(blkdevs, dev)
       /\ mutex' = [m \in DOMAIN mutex \cup {<<Len(blkdevs) + 1>>} \cup
                          {<<Len(blkdevs) + 1, p>> : p \in 1 .. BLKDEV_MAX_PARTS} |->
                      IF m \in DOMAIN mutex THEN mutex[m] ELSE 0]

-----------------------------------------------------------------------------
(* blkdev_mk_part.  A partition of a partition is refused before the lock; *)
(* a return value of 1 stands for NULL.                                    *)
mk_part(c, dev, base, limit) ==
  /\ pc[c] = "idle" /\ ~IsPart(dev)
  /\ req' = [req EXCEPT ![c] = [op |-> "mk_part", dev |-> dev, at |-> base, n |-> limit]]
  /\ Goto(c, "lock")
  /\ UNCHANGED <<blkdevs, mutex, drv, ret>>

mk_part_add_unchecked(c) ==
  LET r == req[c]
      children == blkdevs[Disk(r.dev)].children
      refused == Len(children) >= BLKDEV_MAX_PARTS
  IN
  /\ pc[c] = "locked" /\ r.op = "mk_part"
  /\ blkdevs' = IF refused THEN blkdevs
                ELSE [blkdevs EXCEPT ![Disk(r.dev)].children =
                        Append(children, Part(r.at, r.n))]
  /\ Return(c, IF refused THEN 1 ELSE 0)
  /\ UNCHANGED drv
mk_part_add(c) ==
  LET r == req[c]
      children == blkdevs[Disk(r.dev)].children
      refused == Len(children) >= BLKDEV_MAX_PARTS \/ Add(r.at, r.n) > Nblk(r.dev)
  IN
  /\ pc[c] = "locked" /\ r.op = "mk_part"
  /\ blkdevs' = IF refused THEN blkdevs
                ELSE [blkdevs EXCEPT ![Disk(r.dev)].children =
                        Append(children, Part(r.at, r.n))]
  /\ Return(c, IF refused THEN 1 ELSE 0)
  /\ UNCHANGED drv

-----------------------------------------------------------------------------
(* blkdev_rd and blkdev_wr                                                 *)
rdwr(c, op, dev, at, n) ==
  /\ pc[c] = "idle"
  /\ req' = [req EXCEPT ![c] = [op |-> op, dev |-> dev, at |-> at, n |-> n]]
  /\ Goto(c, "lock")
  /\ UNCHANGED <<blkdevs, mutex, drv, ret>>

lock(c) ==
  /\ pc[c] = "lock"
  /\ Lock(c)
  /\ Goto(c, "locked")
  /\ UNCHANGED <<blkdevs, req, drv, ret>>

rdwr_refuse(c) ==
  LET r == req[c] IN
  /\ pc[c] = "locked" /\ r.op \in {"rd", "wr"}
  /\ Add(r.at, r.n) > Nblk(r.dev)
  /\ Return(c, 1)
  /\ UNCHANGED <<blkdevs, drv>>

rdwr_driver(c) ==
  LET r == req[c] IN
  /\ pc[c] = "locked" /\ r.op \in {"rd", "wr"}
  /\ Add(r.at, r.n) <= Nblk(r.dev)
  /\ drv' = [drv EXCEPT ![c] = [lba |-> Add(r.at, PartBase(r.dev)), n |-> r.n]]
  /\ Goto(c, "driver")
  /\ UNCHANGED <<blkdevs, mutex, req, ret>>

(* The driver returns; whether it failed is ignored.                       *)
rdwr_return(c) ==
  /\ pc[c] = "driver"
  /\ drv' = [drv EXCEPT ![c] = NoDrv]
  /\ Return(c, 0)
  /\ UNCHANGED blkdevs

Inside(c) ==
  lock(c) \/ mk_part_add(c) \/ rdwr_refuse(c) \/ rdwr_driver(c)

-----------------------------------------------------------------------------
(* A driver works for one caller at a time: never are two processors in    *)
(* the driver of one disk, whether they came through the disk or through   *)
(* any of its partitions (the parent_mutex of blkdev.h:48).                *)
DriverExclusive ==
  \A c, d \in Cpu :
    pc[c] = "driver" /\ pc[d] = "driver" /\ Disk(req[c].dev) = Disk(req[d].dev)
      => c = d

(* What reaches the driver lies inside the disk, and inside the partition  *)
(* it was asked through, for every request whose address plus count is     *)
(* less than 2^64: blkdev_mk_part's check and the one of blkdev_rd and     *)
(* blkdev_wr together confine a partition.  A request whose sum wraps      *)
(* passes blkdev.c:209 and :233 and is given to the driver as it is; the   *)
(* property says nothing about it.  The tables of devices and partitions   *)
(* are confined to their arrays.                                           *)
Wraps(r) == r.at + r.n >= WORD
Contained ==
  /\ Len(blkdevs) <= MAX_BLKDEV_CNT
  /\ \A k \in DOMAIN blkdevs : Len(blkdevs[k].children) <= BLKDEV_MAX_PARTS
  /\ \A c \in Cpu : pc[c] = "driver" /\ ~Wraps(req[c]) =>
    LET dev == req[c].dev IN
    /\ drv[c].lba + drv[c].n <= blkdevs[Disk(dev)].nblk
    /\ PartBase(dev) <= drv[c].lba
    /\ drv[c].lba + drv[c].n <= PartBase(dev) + Nblk(dev)
=============================================================================
