------------------------------- MODULE MbrProofs -------------------------------
(***************************************************************************)
(* Proofs about block devices and their partitioning at boot, for any      *)
(* disks and tables, any number of processors and any reads and writes.    *)
(***************************************************************************)
EXTENDS Mbr, FiniteSetTheorems, TLAPS

BlkTypeOK ==
  /\ blkdevs \in Seq(Blkdevs)
  /\ \A k \in DOMAIN blkdevs : <<k>> \in DOMAIN mutex
  /\ pc \in [Cpu -> {"idle", "lock", "locked", "driver"}]
  /\ DOMAIN req = Cpu /\ DOMAIN drv = Cpu /\ DOMAIN ret = Cpu

BootTypeOK ==
  /\ stage \in {"probe", "mbr", "mbr_read", "mbr_part", "up"}
  /\ probe \in Nat \ {0} /\ cur \in Nat \ {0} /\ ent \in 1 .. NPART + 1
  /\ origin \in Seq(DOMAIN Probed) /\ Len(origin) = Len(blkdevs)
  /\ mbr \in Tables
  /\ stage \in {"mbr_read", "mbr_part"} => cur <= Len(blkdevs)

Requests == [op : {"rd", "wr", "mk_part"}, dev : Devices, at : Word, n : Word]

(* A call names a device that is there; what the driver was given has been *)
(* checked against that device.                                            *)
ReqOf(c) ==
  LET r == req[c] IN
  /\ r \in Requests
  /\ r.op = "mk_part" => ~IsPart(r.dev) /\ ~Wraps(r) /\ pc[c] # "driver"
  /\ pc[c] = "driver" =>
       /\ Add(r.at, r.n) <= Nblk(r.dev)
       /\ drv[c] = [lba |-> Add(r.at, PartBase(r.dev)), n |-> r.n]
ReqOK == \A c \in Cpu : pc[c] # "idle" => ReqOf(c)

Holds(c) == pc[c] \in {"locked", "driver"}

(* One processor is past the lock of a disk.                               *)
LockOK ==
  /\ \A c \in Cpu : Holds(c) => mutex[Mutex(req[c].dev)] = 1
  /\ \A c, d \in Cpu :
       Holds(c) /\ Holds(d) /\ Disk(req[c].dev) = Disk(req[d].dev) => c = d

(* Partitions lie inside their disk, and the tables have room for them.    *)
PartsOK ==
  /\ Len(blkdevs) <= MAX_BLKDEV_CNT
  /\ \A k \in DOMAIN blkdevs :
       /\ Len(blkdevs[k].children) <= BLKDEV_MAX_PARTS
       /\ \A m \in DOMAIN blkdevs[k].children :
            blkdevs[k].children[m].part_base + blkdevs[k].children[m].nblk
              <= blkdevs[k].nblk

BlkInv == BlkTypeOK /\ ReqOK /\ LockOK /\ PartsOK

IInv == BlkInv /\ BootTypeOK

(* Before the system is up only the boot processor runs.                   *)
Alone ==
  /\ stage # "up" => \A c \in Cpu : c # BSP => pc[c] = "idle"
  /\ stage \in {"probe", "mbr"} => pc[BSP] = "idle"
  /\ stage = "up" => cur > Len(blkdevs)
                     /\ \A c \in Cpu : pc[c] # "idle" => req[c].op # "mk_part"

Right(k) ==
  IF Scannable(blkdevs[k])
  THEN Described(blkdevs[k].children, TableOf[origin[k]], blkdevs[k].nblk)
  ELSE blkdevs[k].children = <<>>

(* The disks mbr_find is through with are right, those it has yet to come  *)
(* to have no partitions.                                                  *)
Progress ==
  /\ stage = "probe" => cur = 1
  /\ \A k \in DOMAIN blkdevs :
       /\ blkdevs[k].nblk = Probed[origin[k]].nblk
       /\ k < cur /\ k \notin failed => Right(k)
       /\ k > cur \/ (k = cur /\ stage # "mbr_part") => blkdevs[k].children = <<>>

(* What mbr_find has read of the disk it is at.                            *)
Reading ==
  stage = "mbr_read" =>
    /\ Scannable(blkdevs[cur])
    /\ pc[BSP] # "idle" => req[BSP] = [op |-> "rd", dev |-> <<cur>>, at |-> 0, n |-> 1]
    /\ pc[BSP] = "idle" /\ cur \notin failed =>
         /\ ret[BSP] = 0 => mbr = TableOf[origin[cur]]
         /\ ret[BSP] # 0 => blkdevs[cur].nblk = 0

(* The partitions made so far are those of the entries before ent; one may *)
(* be in the making.                                                       *)
Parting ==
  stage = "mbr_part" =>
    /\ Scannable(blkdevs[cur]) /\ mbr.sig
    /\ cur \notin failed => mbr = TableOf[origin[cur]]
    /\ pc[BSP] = "idle" =>
         PartsOf(blkdevs[cur].children, mbr, blkdevs[cur].nblk, ent - 1)
    /\ pc[BSP] # "idle" =>
         /\ ent >= 2 /\ mbr.ents[ent - 1].type # 0
         /\ req[BSP] = [op |-> "mk_part", dev |-> <<cur>>,
                        at |-> mbr.ents[ent - 1].start_lba,
                        n |-> mbr.ents[ent - 1].nsector]
         /\ PartsOf(blkdevs[cur].children, mbr, blkdevs[cur].nblk, ent - 2)

BootInv == Alone /\ Progress /\ Reading /\ Parting
-----------------------------------------------------------------------------
(* A sum below 2^64 does not wrap.                                         *)
LEMMA AddFits ==
  ASSUME NEW a \in Nat, NEW b \in Nat, a + b < WORD
  PROVE  Add(a, b) = a + b
PROOF
  <1>1. WORD \in Nat \ {0} /\ a + b \in 0 .. WORD - 1
    BY MbrAssumption
  <1>2. ((a + b) % WORD) = a + b
    BY <1>1
  <1> QED  BY <1>2 DEF Add

(* Words are numbers below WORD; 0 and 1 are words.                        *)
LEMMA Words ==
  /\ \A w \in Word : w \in Nat /\ w < WORD
  /\ 0 \in Word /\ 1 \in Word /\ 0 + 1 < WORD
PROOF
  BY MbrAssumption DEF Word

(* A registered device and its partitions are well-formed.                 *)
LEMMA BlkdevType ==
  ASSUME BlkTypeOK, NEW k \in DOMAIN blkdevs
  PROVE  /\ blkdevs[k] \in Blkdevs /\ blkdevs[k].nblk \in Word
         /\ blkdevs[k].nblk \in Nat
         /\ blkdevs[k].children \in Seq(Parts)
         /\ \A m \in DOMAIN blkdevs[k].children :
              /\ blkdevs[k].children[m] \in Parts
              /\ blkdevs[k].children[m].part_base \in Nat
              /\ blkdevs[k].children[m].nblk \in Nat
PROOF
  <1>1. blkdevs[k] \in Blkdevs
    BY DEF BlkTypeOK
  <1>2. blkdevs[k].nblk \in Word /\ blkdevs[k].children \in Seq(Parts)
    BY <1>1 DEF Blkdevs
  <1>3. \A m \in DOMAIN blkdevs[k].children : blkdevs[k].children[m] \in Parts
    BY <1>2
  <1> QED  BY <1>1, <1>2, <1>3, Words DEF Parts

(* A device is a disk or a partition of a disk.                            *)
LEMMA DeviceCases ==
  ASSUME NEW dev \in Devices
  PROVE  /\ Disk(dev) \in DOMAIN blkdevs
         /\ ~IsPart(dev) => dev = <<Disk(dev)>>
         /\ IsPart(dev) => /\ dev = <<Disk(dev), dev[2]>>
                           /\ dev[2] \in DOMAIN blkdevs[Disk(dev)].children
PROOF
  <1>1. CASE \E k \in DOMAIN blkdevs : dev = <<k>>
    BY <1>1 DEF Disk, IsPart
  <1>2. CASE \E k \in DOMAIN blkdevs : \E m \in DOMAIN blkdevs[k].children : dev = <<k, m>>
    BY <1>2 DEF Disk, IsPart
  <1> QED  BY <1>1, <1>2 DEF Devices

(* A disk is a device, and not a partition.                                *)
LEMMA DiskIsDevice ==
  ASSUME NEW k \in DOMAIN blkdevs
  PROVE  <<k>> \in Devices /\ ~IsPart(<<k>>) /\ Disk(<<k>>) = k
PROOF
  BY DEF Devices, IsPart, Disk

(* Its size and base are numbers.                                          *)
LEMMA DeviceNumbers ==
  ASSUME BlkTypeOK, NEW dev \in Devices
  PROVE  Nblk(dev) \in Nat /\ PartBase(dev) \in Nat
PROOF
  BY DeviceCases, BlkdevType DEF Nblk, PartBase

(* New devices and new partitions leave the ones that are there alone.     *)
Grows ==
  /\ blkdevs' \in Seq(Blkdevs) /\ DOMAIN blkdevs \subseteq DOMAIN blkdevs'
  /\ \A k \in DOMAIN blkdevs :
       /\ blkdevs'[k].nblk = blkdevs[k].nblk
       /\ DOMAIN blkdevs[k].children \subseteq DOMAIN blkdevs'[k].children
       /\ \A m \in DOMAIN blkdevs[k].children :
            blkdevs'[k].children[m] = blkdevs[k].children[m]

(* So every device stays a device of the same size, at the same base.      *)
LEMMA DevicesStay ==
  ASSUME Grows, NEW dev \in Devices
  PROVE  dev \in Devices' /\ Nblk(dev)' = Nblk(dev) /\ PartBase(dev)' = PartBase(dev)
PROOF
  <1>1. CASE ~IsPart(dev)
    <2>1. Disk(dev) \in DOMAIN blkdevs /\ dev = <<Disk(dev)>>
      BY <1>1, DeviceCases
    <2>2. dev \in Devices'
      BY <2>1 DEF Grows, Devices
    <2> QED  BY <1>1, <2>1, <2>2 DEF Nblk, PartBase, Grows
  <1>2. CASE IsPart(dev)
    <2>1. /\ Disk(dev) \in DOMAIN blkdevs /\ dev = <<Disk(dev), dev[2]>>
          /\ dev[2] \in DOMAIN blkdevs[Disk(dev)].children
      BY <1>2, DeviceCases
    <2>2. Disk(dev) \in DOMAIN blkdevs' /\ dev[2] \in DOMAIN blkdevs'[Disk(dev)].children
      BY <2>1 DEF Grows
    <2>3. dev \in Devices'
      BY <2>1, <2>2 DEF Devices
    <2> QED  BY <1>2, <2>1, <2>3 DEF Nblk, PartBase, Grows
  <1> QED  BY <1>1, <1>2

(* A step that registers nothing leaves them alone.                        *)
LEMMA UnchangedGrows ==
  ASSUME BlkTypeOK, UNCHANGED blkdevs
  PROVE  Grows
PROOF
  BY DEF Grows, BlkTypeOK

(* A processor that keeps its label and its call keeps its part of ReqOK.  *)
LEMMA ReqStays ==
  ASSUME BlkTypeOK, ReqOK, Grows, NEW c \in Cpu, pc[c] # "idle",
         pc'[c] = pc[c], req'[c] = req[c], drv'[c] = drv[c]
  PROVE  ReqOf(c)'
PROOF
  <1>1. PICK r : r = req[c] /\ r \in Requests /\ r.dev \in Devices
    BY DEF ReqOK, ReqOf, Requests
  <1>2. /\ r.dev \in Devices' /\ Nblk(r.dev)' = Nblk(r.dev)
        /\ PartBase(r.dev)' = PartBase(r.dev)
    BY <1>1, DevicesStay
  <1>3. r \in Requests'
    BY <1>1, <1>2 DEF Requests
  <1>4. req'[c] = r
    BY <1>1
  <1>5. ReqOf(c)
    BY DEF ReqOK
  <1> QED  BY <1>1, <1>2, <1>3, <1>4, <1>5 DEF ReqOf, Nblk, PartBase
-----------------------------------------------------------------------------
(* A call of blkdev_rd, blkdev_wr or blkdev_mk_part, up to its lock.       *)
LEMMA CallStep ==
  ASSUME BlkInv, NEW c \in Cpu, pc[c] = "idle", NEW r \in Requests,
         r.op = "mk_part" => ~IsPart(r.dev) /\ ~Wraps(r),
         req' = [req EXCEPT ![c] = r], Goto(c, "lock"),
         UNCHANGED <<blkdevs, mutex, drv, ret>>
  PROVE  BlkInv'
PROOF
  <1>1. /\ pc' = [pc EXCEPT ![c] = "lock"] /\ pc'[c] = "lock" /\ req'[c] = r
        /\ \A d \in Cpu : d # c => pc'[d] = pc[d] /\ req'[d] = req[d]
    BY DEF Goto, BlkInv, BlkTypeOK
  <1>2. BlkTypeOK'
    BY <1>1 DEF BlkInv, BlkTypeOK
  <1>3. Grows
    BY UnchangedGrows DEF BlkInv
  <1>4. r \in Requests'
    BY DEF Requests, Devices
  <1>5. ReqOf(c)'
    BY <1>1, <1>4 DEF ReqOf
  <1>6. ReqOK'
    <2> SUFFICES ASSUME NEW d \in Cpu, pc'[d] # "idle" PROVE ReqOf(d)'
      BY DEF ReqOK
    <2>1. CASE d = c
      BY <1>5, <2>1
    <2>2. CASE d # c
      BY <1>1, <1>3, <2>2, ReqStays DEF BlkInv
    <2> QED  BY <2>1, <2>2
  <1>7. LockOK'
    BY <1>1 DEF BlkInv, LockOK, Holds, Mutex
  <1>8. PartsOK'
    BY DEF BlkInv, PartsOK
  <1> QED  BY <1>2, <1>6, <1>7, <1>8 DEF BlkInv

(* Getting the disk's lock.                                                *)
LEMMA LockStep ==
  ASSUME BlkInv, NEW c \in Cpu, lock(c)
  PROVE  BlkInv'
PROOF
  <1>1. /\ pc[c] = "lock" /\ pc' = [pc EXCEPT ![c] = "locked"]
        /\ mutex[Mutex(req[c].dev)] = 0
        /\ mutex' = [mutex EXCEPT ![Mutex(req[c].dev)] = 1]
        /\ UNCHANGED <<blkdevs, req, drv, ret>>
    BY DEF lock, Lock, Goto
  <1>2. pc'[c] = "locked" /\ \A d \in Cpu : d # c => pc'[d] = pc[d]
    BY <1>1 DEF BlkInv, BlkTypeOK
  <1>3. req[c] \in Requests /\ req[c].dev \in Devices /\ ReqOf(c)
    BY <1>1 DEF BlkInv, ReqOK, ReqOf, Requests
  <1>4. Mutex(req[c].dev) \in DOMAIN mutex
    BY <1>3, DeviceCases DEF Mutex, BlkInv, BlkTypeOK
  <1>5. BlkTypeOK'
    BY <1>1 DEF BlkInv, BlkTypeOK
  <1>6. Grows
    BY <1>1, UnchangedGrows DEF BlkInv
  <1>7. ReqOf(c)'
    BY <1>1, <1>2, <1>3 DEF ReqOf, Requests, Devices
  <1>8. ReqOK'
    <2> SUFFICES ASSUME NEW d \in Cpu, pc'[d] # "idle" PROVE ReqOf(d)'
      BY DEF ReqOK
    <2>1. CASE d = c
      BY <1>7, <2>1
    <2>2. CASE d # c
      BY <1>1, <1>2, <1>6, <2>2, ReqStays DEF BlkInv
    <2> QED  BY <2>1, <2>2
  <1>9. LockOK'
    <2>1. \A d \in Cpu : d # c /\ Holds(d) => mutex[Mutex(req[d].dev)] = 1
      BY DEF BlkInv, LockOK
    <2>2. \A d \in Cpu : d # c /\ Holds(d) => Disk(req[d].dev) # Disk(req[c].dev)
      BY <1>1, <2>1 DEF Mutex
    <2>3. \A d \in Cpu : d # c => (Holds(d)' <=> Holds(d))
      BY <1>2 DEF Holds
    <2>4. \A d \in Cpu : Holds(d)' => mutex'[Mutex(req[d].dev)] = 1
      BY <1>1, <1>4, <2>1, <2>3
    <2>5. \A d, e \in Cpu :
            Holds(d)' /\ Holds(e)' /\ Disk(req[d].dev) = Disk(req[e].dev) => d = e
      BY <2>2, <2>3 DEF BlkInv, LockOK
    <2> QED  BY <1>1, <2>4, <2>5 DEF LockOK, Mutex
  <1>10. PartsOK'
    BY <1>1 DEF BlkInv, PartsOK
  <1> QED  BY <1>5, <1>8, <1>9, <1>10 DEF BlkInv

(* The check before the driver, and the shift by part_base.                *)
LEMMA DriverStep ==
  ASSUME BlkInv, NEW c \in Cpu, rdwr_driver(c)
  PROVE  BlkInv'
PROOF
  <1>1. /\ pc[c] = "locked" /\ pc' = [pc EXCEPT ![c] = "driver"]
        /\ req[c].op \in {"rd", "wr"} /\ Add(req[c].at, req[c].n) <= Nblk(req[c].dev)
        /\ drv' = [drv EXCEPT ![c] = [lba |-> Add(req[c].at, PartBase(req[c].dev)),
                                      n |-> req[c].n]]
        /\ UNCHANGED <<blkdevs, mutex, req, ret>>
    BY DEF rdwr_driver, Goto
  <1>2. /\ pc'[c] = "driver" /\ \A d \in Cpu : d # c => pc'[d] = pc[d] /\ drv'[d] = drv[d]
        /\ drv'[c] = [lba |-> Add(req[c].at, PartBase(req[c].dev)), n |-> req[c].n]
    BY <1>1 DEF BlkInv, BlkTypeOK
  <1>3. BlkTypeOK'
    BY <1>1 DEF BlkInv, BlkTypeOK
  <1>4. Grows
    BY <1>1, UnchangedGrows DEF BlkInv
  <1>5. ReqOf(c)'
    <2>1. req[c] \in Requests
      BY <1>1 DEF BlkInv, ReqOK, ReqOf
    <2>2. req'[c] \in Requests'
      BY <1>1, <2>1 DEF Requests, Devices
    <2> QED  BY <1>1, <1>2, <2>2 DEF ReqOf, Nblk, PartBase
  <1>6. ReqOK'
    <2> SUFFICES ASSUME NEW d \in Cpu, pc'[d] # "idle" PROVE ReqOf(d)'
      BY DEF ReqOK
    <2>1. CASE d = c
      BY <1>5, <2>1
    <2>2. CASE d # c
      BY <1>1, <1>2, <1>4, <2>2, ReqStays DEF BlkInv
    <2> QED  BY <2>1, <2>2
  <1>7. LockOK'
    BY <1>1, <1>2 DEF BlkInv, LockOK, Holds, Mutex
  <1>8. PartsOK'
    BY <1>1 DEF BlkInv, PartsOK
  <1> QED  BY <1>3, <1>6, <1>7, <1>8 DEF BlkInv

(* Unlock and return, with or without a new partition.                     *)
LEMMA ReturnStep ==
  ASSUME BlkInv, NEW c \in Cpu, Holds(c), NEW val, Return(c, val),
         Grows, DOMAIN blkdevs' = DOMAIN blkdevs, PartsOK',
         DOMAIN drv' = Cpu, \A d \in Cpu : d # c => drv'[d] = drv[d]
  PROVE  BlkInv'
PROOF
  <1>1. /\ mutex' = [mutex EXCEPT ![Mutex(req[c].dev)] = 0]
        /\ pc' = [pc EXCEPT ![c] = "idle"]
        /\ req' = [req EXCEPT ![c] = NoReq] /\ ret' = [ret EXCEPT ![c] = val]
    BY DEF Return, Unlock, Goto
  <1>2. /\ pc'[c] = "idle" /\ \A d \in Cpu : d # c => pc'[d] = pc[d] /\ req'[d] = req[d]
    BY <1>1 DEF BlkInv, BlkTypeOK
  <1>3. BlkTypeOK'
    <2>1. DOMAIN mutex' = DOMAIN mutex
      BY <1>1
    <2>2. \A k \in DOMAIN blkdevs' : <<k>> \in DOMAIN mutex'
      BY <2>1 DEF BlkInv, BlkTypeOK
    <2> QED  BY <1>1, <2>2 DEF BlkInv, BlkTypeOK, Grows
  <1>4. ReqOK'
    <2> SUFFICES ASSUME NEW d \in Cpu, pc'[d] # "idle" PROVE ReqOf(d)'
      BY DEF ReqOK
    <2> QED  BY <1>2, ReqStays DEF BlkInv
  <1>5. LockOK'
    <2>1. \A d \in Cpu : Holds(d)' => Holds(d) /\ d # c /\ req'[d] = req[d]
      BY <1>2 DEF Holds
    <2>2. \A d \in Cpu : Holds(d) /\ d # c => Disk(req[d].dev) # Disk(req[c].dev)
      BY DEF BlkInv, LockOK
    <2>3. \A d \in Cpu : Holds(d) /\ d # c => Mutex(req[d].dev) # Mutex(req[c].dev)
      BY <2>2 DEF Mutex
    <2>4. \A d \in Cpu : Holds(d)' => mutex'[Mutex(req[d].dev)] = 1
      <3> SUFFICES ASSUME NEW d \in Cpu, Holds(d)'
                   PROVE  mutex'[Mutex(req[d].dev)] = 1
        OBVIOUS
      <3>1. mutex[Mutex(req[d].dev)] = 1 /\ Mutex(req[d].dev) # Mutex(req[c].dev)
        BY <2>1, <2>3 DEF BlkInv, LockOK
      <3>2. Mutex(req[d].dev) \in DOMAIN mutex
        <4>1. req[d].dev \in Devices
          BY <2>1 DEF BlkInv, ReqOK, ReqOf, Requests, Holds
        <4> QED  BY <4>1, DeviceCases DEF Mutex, BlkInv, BlkTypeOK
      <3> QED  BY <1>1, <3>1, <3>2
    <2>5. \A d \in Cpu : Holds(d)' => mutex'[Mutex(req'[d].dev)] = 1
      BY <2>1, <2>4
    <2>6. \A d, e \in Cpu :
            Holds(d)' /\ Holds(e)' /\ Disk(req'[d].dev) = Disk(req'[e].dev) => d = e
      BY <2>1 DEF BlkInv, LockOK
    <2> QED  BY <2>5, <2>6 DEF LockOK, Mutex
  <1> QED  BY <1>3, <1>4, <1>5 DEF BlkInv
(* What blkdev_mk_part does to the table of devices.                       *)
LEMMA NewPart ==
  ASSUME BlkTypeOK, NEW k \in DOMAIN blkdevs, NEW part \in Parts,
         blkdevs' = [blkdevs EXCEPT ![k].children = Append(blkdevs[k].children, part)]
  PROVE  /\ Grows /\ DOMAIN blkdevs' = DOMAIN blkdevs /\ Len(blkdevs') = Len(blkdevs)
         /\ blkdevs'[k].children = Append(blkdevs[k].children, part)
         /\ blkdevs'[k].nblk = blkdevs[k].nblk
         /\ blkdevs'[k].dev_type = blkdevs[k].dev_type
         /\ blkdevs'[k].blk_size = blkdevs[k].blk_size
         /\ \A l \in DOMAIN blkdevs : l # k => blkdevs'[l] = blkdevs[l]
PROOF
  <1> DEFINE new == [blkdevs[k] EXCEPT !.children = Append(blkdevs[k].children, part)]
  <1>1. blkdevs[k] \in Blkdevs /\ blkdevs[k].children \in Seq(Parts)
    BY BlkdevType
  <1>2. Append(blkdevs[k].children, part) \in Seq(Parts)
    BY <1>1
  <1>3. /\ new \in Blkdevs /\ new.nblk = blkdevs[k].nblk
        /\ new.children = Append(blkdevs[k].children, part)
        /\ new.dev_type = blkdevs[k].dev_type /\ new.blk_size = blkdevs[k].blk_size
    BY <1>1, <1>2 DEF Blkdevs
  <1>4. blkdevs' = [blkdevs EXCEPT ![k] = new]
    OBVIOUS
  <1> HIDE DEF new
  <1>5. blkdevs' \in Seq(Blkdevs) /\ Len(blkdevs') = Len(blkdevs)
        /\ DOMAIN blkdevs' = DOMAIN blkdevs
    <2>1. /\ blkdevs \in Seq(Blkdevs) /\ Len(blkdevs) \in Nat
          /\ blkdevs \in [1 .. Len(blkdevs) -> Blkdevs]
      BY DEF BlkTypeOK
    <2>2. blkdevs' \in [1 .. Len(blkdevs) -> Blkdevs]
      BY <1>3, <1>4, <2>1
    <2> QED  BY <2>1, <2>2
  <1>6. blkdevs'[k] = new /\ \A l \in DOMAIN blkdevs : l # k => blkdevs'[l] = blkdevs[l]
    BY <1>4
  <1>7. \A m \in DOMAIN blkdevs[k].children :
          /\ m \in DOMAIN Append(blkdevs[k].children, part)
          /\ Append(blkdevs[k].children, part)[m] = blkdevs[k].children[m]
    BY <1>1
  <1>8. Grows
    BY <1>3, <1>5, <1>6, <1>7 DEF Grows
  <1> QED  BY <1>3, <1>5, <1>6, <1>8

(* blkdev_mk_part makes a partition only where it fits the disk.           *)
LEMMA PartStep ==
  ASSUME BlkInv, NEW c \in Cpu, mk_part_add(c)
  PROVE  BlkInv' /\ Len(blkdevs') = Len(blkdevs)
PROOF
  <1> DEFINE r == req[c]
             k == Disk(r.dev)
             refused == Len(blkdevs[k].children) >= BLKDEV_MAX_PARTS
                          \/ Add(r.at, r.n) > Nblk(r.dev)
  <1>1. /\ pc[c] = "locked" /\ r.op = "mk_part"
        /\ blkdevs' = IF refused THEN blkdevs
                      ELSE [blkdevs EXCEPT ![k].children =
                              Append(blkdevs[k].children, Part(r.at, r.n))]
        /\ Return(c, IF refused THEN 1 ELSE 0) /\ UNCHANGED drv
    BY DEF mk_part_add
  <1>2. Holds(c) /\ DOMAIN drv' = Cpu /\ \A d \in Cpu : d # c => drv'[d] = drv[d]
    BY <1>1 DEF Holds, BlkInv, BlkTypeOK
  <1>3. /\ r \in Requests /\ r.dev \in Devices /\ ~IsPart(r.dev)
        /\ r.at \in Word /\ r.n \in Word /\ ~Wraps(r)
    BY <1>1 DEF BlkInv, ReqOK, ReqOf, Requests
  <1>9. r.at \in Nat /\ r.n \in Nat /\ Add(r.at, r.n) = r.at + r.n
    <2>1. r.at \in Nat /\ r.n \in Nat /\ WORD \in Nat /\ ~(r.at + r.n >= WORD)
      BY <1>3, Words, MbrAssumption DEF Wraps
    <2> HIDE DEF r
    <2> QED  BY <2>1, AddFits
  <1>4. k \in DOMAIN blkdevs /\ Nblk(r.dev) = blkdevs[k].nblk
    BY <1>3, DeviceCases DEF Nblk
  <1>5. CASE refused
    <2>1. UNCHANGED blkdevs
      BY <1>1, <1>5
    <2>2. Grows
      BY <2>1, UnchangedGrows DEF BlkInv
    <2>3. PartsOK'
      BY <2>1 DEF BlkInv, PartsOK
    <2> QED  BY <1>1, <1>2, <2>1, <2>2, <2>3, ReturnStep
  <1>6. CASE ~refused
    <2> DEFINE part == Part(r.at, r.n)
    <2>1. part \in Parts /\ part.part_base = r.at /\ part.nblk = r.n
      BY <1>3 DEF Part, Parts
    <2>2. blkdevs' = [blkdevs EXCEPT ![k].children = Append(blkdevs[k].children, part)]
      BY <1>1, <1>6
    <2> HIDE DEF part
    <2>3. /\ Grows /\ DOMAIN blkdevs' = DOMAIN blkdevs /\ Len(blkdevs') = Len(blkdevs)
          /\ blkdevs'[k].children = Append(blkdevs[k].children, part)
          /\ blkdevs'[k].nblk = blkdevs[k].nblk
          /\ \A l \in DOMAIN blkdevs : l # k => blkdevs'[l] = blkdevs[l]
      BY <1>4, <2>1, <2>2, NewPart DEF BlkInv
    <2>4. blkdevs[k].children \in Seq(Parts) /\ blkdevs[k].nblk \in Nat
      BY <1>4, BlkdevType DEF BlkInv
    <2>5. Len(blkdevs[k].children) < BLKDEV_MAX_PARTS /\ r.at + r.n <= blkdevs[k].nblk
      BY <1>4, <1>6, <1>9, <2>4, MbrAssumption
    <2>6. Len(blkdevs'[k].children) <= BLKDEV_MAX_PARTS
      BY <2>3, <2>4, <2>5, MbrAssumption
    <2>7. ASSUME NEW m \in DOMAIN blkdevs'[k].children
          PROVE  blkdevs'[k].children[m].part_base + blkdevs'[k].children[m].nblk
                   <= blkdevs'[k].nblk
      <3>1. \/ m \in DOMAIN blkdevs[k].children
               /\ blkdevs'[k].children[m] = blkdevs[k].children[m]
            \/ blkdevs'[k].children[m] = part
        BY <2>3, <2>4
      <3> QED  BY <1>4, <1>9, <2>1, <2>3, <2>5, <3>1 DEF BlkInv, PartsOK
    <2>8. PartsOK'
      BY <2>3, <2>6, <2>7 DEF BlkInv, PartsOK
    <2> QED  BY <1>1, <1>2, <2>3, <2>8, ReturnStep
  <1> QED  BY <1>5, <1>6

(* The other returns leave the table of devices alone.                     *)
LEMMA RdwrReturnStep ==
  ASSUME BlkInv, NEW c \in Cpu, rdwr_refuse(c) \/ rdwr_return(c)
  PROVE  BlkInv' /\ UNCHANGED blkdevs
PROOF
  <1>1. /\ pc[c] \in {"locked", "driver"} /\ UNCHANGED blkdevs
        /\ \E val \in {0, 1} : Return(c, val)
        /\ drv' = drv \/ drv' = [drv EXCEPT ![c] = NoDrv]
    BY DEF rdwr_refuse, rdwr_return
  <1>2. Holds(c) /\ DOMAIN drv' = Cpu /\ \A d \in Cpu : d # c => drv'[d] = drv[d]
    BY <1>1 DEF Holds, BlkInv, BlkTypeOK
  <1>3. Grows
    BY <1>1, UnchangedGrows DEF BlkInv
  <1>4. PartsOK'
    BY <1>1 DEF BlkInv, PartsOK
  <1> QED  BY <1>1, <1>2, <1>3, <1>4, ReturnStep

(* blkdev_register appends a device without partitions while there is      *)
(* room.                                                                   *)
LEMMA RegisterStep ==
  ASSUME BlkInv, NEW dev \in Blkdevs, dev.children = <<>>, blkdev_register(dev),
         UNCHANGED <<pc, req, drv, ret>>
  PROVE  BlkInv'
PROOF
  <1>1. CASE Len(blkdevs) >= MAX_BLKDEV_CNT
    <2>1. UNCHANGED <<blkdevs, mutex>>
      BY <1>1 DEF blkdev_register
    <2>2. BlkTypeOK' /\ LockOK' /\ PartsOK'
      BY <2>1 DEF BlkInv, BlkTypeOK, LockOK, Holds, Mutex, PartsOK
    <2>3. ReqOK'
      <3> SUFFICES ASSUME NEW d \in Cpu, pc'[d] # "idle" PROVE ReqOf(d)'
        BY DEF ReqOK
      <3> QED  BY <2>1, UnchangedGrows, ReqStays DEF BlkInv
    <2> QED  BY <2>2, <2>3 DEF BlkInv
  <1>2. CASE ~(Len(blkdevs) >= MAX_BLKDEV_CNT)
    <2> DEFINE top == Len(blkdevs) + 1
    <2>1. /\ blkdevs' = Append(blkdevs, dev)
          /\ mutex' = [m \in DOMAIN mutex \cup {<<top>>} \cup
                               {<<top, p>> : p \in 1 .. BLKDEV_MAX_PARTS} |->
                         IF m \in DOMAIN mutex THEN mutex[m] ELSE 0]
      BY <1>2 DEF blkdev_register
    <2>2. blkdevs \in Seq(Blkdevs) /\ Len(blkdevs) \in Nat
      BY DEF BlkInv, BlkTypeOK
    <2>3. /\ blkdevs' \in Seq(Blkdevs) /\ Len(blkdevs') = top
          /\ DOMAIN blkdevs' = DOMAIN blkdevs \cup {top}
          /\ blkdevs'[top] = dev
          /\ \A k \in DOMAIN blkdevs : blkdevs'[k] = blkdevs[k]
      BY <2>1, <2>2
    <2>4. /\ \A m \in DOMAIN mutex : m \in DOMAIN mutex' /\ mutex'[m] = mutex[m]
          /\ <<top>> \in DOMAIN mutex'
      BY <2>1
    <2>5. BlkTypeOK'
      BY <2>3, <2>4 DEF BlkInv, BlkTypeOK
    <2>6. Grows
      BY <2>3 DEF Grows
    <2>7. ReqOK'
      <3> SUFFICES ASSUME NEW d \in Cpu, pc'[d] # "idle" PROVE ReqOf(d)'
        BY DEF ReqOK
      <3> QED  BY <2>6, ReqStays DEF BlkInv
    <2>8. LockOK'
      <3>1. \A d \in Cpu : Holds(d) => Mutex(req[d].dev) \in DOMAIN mutex
        <4> SUFFICES ASSUME NEW d \in Cpu, Holds(d)
                     PROVE  Mutex(req[d].dev) \in DOMAIN mutex
          OBVIOUS
        <4>1. req[d].dev \in Devices
          BY DEF BlkInv, ReqOK, ReqOf, Requests, Holds
        <4> QED  BY <4>1, DeviceCases DEF Mutex, BlkInv, BlkTypeOK
      <3> QED  BY <2>4, <3>1 DEF BlkInv, LockOK, Holds, Mutex
    <2>9. PartsOK'
      <3>1. Len(blkdevs') <= MAX_BLKDEV_CNT
        BY <1>2, <2>2, <2>3, MbrAssumption
      <3>2. Len(dev.children) = 0 /\ DOMAIN dev.children = {}
        OBVIOUS
      <3>3. \A k \in DOMAIN blkdevs' :
              /\ Len(blkdevs'[k].children) <= BLKDEV_MAX_PARTS
              /\ \A m \in DOMAIN blkdevs'[k].children :
                   blkdevs'[k].children[m].part_base + blkdevs'[k].children[m].nblk
                     <= blkdevs'[k].nblk
        BY <2>3, <3>2, MbrAssumption DEF BlkInv, PartsOK
      <3> QED  BY <3>1, <3>3 DEF PartsOK
    <2> QED  BY <2>5, <2>7, <2>8, <2>9 DEF BlkInv
  <1> QED  BY <1>1, <1>2
-----------------------------------------------------------------------------
(* Before the drivers probe there are no devices.                          *)
LEMMA InitInv == Init => IInv
PROOF
  <1> SUFFICES ASSUME Init PROVE IInv
    OBVIOUS
  <1>1. BlkTypeOK
    BY DEF Init, BlkInit, BlkTypeOK
  <1>2. \A c \in Cpu : pc[c] = "idle"
    BY DEF Init, BlkInit
  <1>3. ReqOK /\ LockOK
    BY <1>2 DEF ReqOK, LockOK, Holds
  <1>4. PartsOK
    BY MbrAssumption DEF Init, BlkInit, PartsOK
  <1>5. mbr \in Tables
    BY MbrAssumption DEF Init
  <1>6. BootTypeOK
    BY <1>5 DEF Init, BlkInit, BootTypeOK, NPART
  <1> QED  BY <1>1, <1>3, <1>4, <1>6 DEF IInv, BlkInv

(* A step that touches no device keeps what holds of the devices.          *)
LEMMA BlkUnchanged ==
  ASSUME BlkInv, UNCHANGED blk_vars
  PROVE  BlkInv'
PROOF
  <1>1. UNCHANGED <<blkdevs, mutex, pc, req, drv, ret>>
    BY DEF blk_vars
  <1>2. BlkTypeOK' /\ LockOK' /\ PartsOK'
    BY <1>1 DEF BlkInv, BlkTypeOK, LockOK, Holds, Mutex, PartsOK
  <1>3. ReqOK'
    <2> SUFFICES ASSUME NEW d \in Cpu, pc'[d] # "idle" PROVE ReqOf(d)'
      BY DEF ReqOK
    <2> QED  BY <1>1, UnchangedGrows, ReqStays DEF BlkInv
  <1> QED  BY <1>2, <1>3 DEF BlkInv

(* The k-th probe finds a device without partitions.                       *)
LEMMA ProbedType ==
  ASSUME NEW k \in DOMAIN Probed
  PROVE  /\ Probed[k] \in Blkdevs /\ Probed[k].children = <<>>
         /\ TableOf[k] \in Tables
PROOF
  BY MbrAssumption

(* The fields of a table entry are 32-bit numbers: their sum is a word.    *)
LEMMA EntryType ==
  ASSUME NEW table \in Tables, NEW k \in 1 .. NPART
  PROVE  /\ table.ents[k].start_lba \in Nat /\ table.ents[k].nsector \in Nat
         /\ table.ents[k].start_lba + table.ents[k].nsector < WORD
         /\ table.ents[k].start_lba \in Word /\ table.ents[k].nsector \in Word
PROOF
  <1>1. table.ents[k] \in Entries
    BY DEF Tables
  <1>2. /\ table.ents[k].start_lba \in Nat /\ table.ents[k].nsector \in Nat
        /\ table.ents[k].start_lba + table.ents[k].nsector < WORD
    BY <1>1 DEF Entries
  <1> QED  BY <1>2, MbrAssumption DEF Word

(* Every step keeps devices, calls and locks in order.                     *)
LEMMA BlkStep ==
  ASSUME IInv, [Next]_vars
  PROVE  BlkInv'
PROOF
  <1>1. CASE probe_found
    <2>1. probe \in DOMAIN Probed
      <3>1. probe \in 1 .. Len(Probed) /\ DOMAIN Probed = 1 .. Len(Probed)
        BY <1>1, MbrAssumption DEF probe_found, IInv, BootTypeOK
      <3> QED  BY <3>1
    <2> QED  BY <1>1, <2>1, ProbedType, RegisterStep DEF probe_found, IInv
  <1>2. CASE mbr_rd
    <2>1. cur \in DOMAIN blkdevs
      BY <1>2 DEF mbr_rd, IInv, BootTypeOK, BlkInv, BlkTypeOK
    <2>2. [op |-> "rd", dev |-> <<cur>>, at |-> 0, n |-> 1] \in Requests
      BY <2>1, DiskIsDevice, Words DEF Requests
    <2> QED  BY <1>2, <2>2, CallStep, MbrAssumption DEF mbr_rd, rdwr, IInv
  <1>3. CASE mbr_driver
    BY <1>3, RdwrReturnStep, MbrAssumption DEF mbr_driver, IInv
  <1>4. CASE mbr_mk_part
    <2>1. ent \in 1 .. NPART /\ mbr \in Tables /\ cur \in DOMAIN blkdevs
      BY <1>4 DEF mbr_mk_part, IInv, BootTypeOK, NPART, BlkInv, BlkTypeOK
    <2> DEFINE r == [op |-> "mk_part", dev |-> <<cur>>,
                     at |-> mbr.ents[ent].start_lba, n |-> mbr.ents[ent].nsector]
    <2>2. r \in Requests /\ ~IsPart(r.dev) /\ ~Wraps(r)
      <3>1. /\ mbr.ents[ent].start_lba \in Nat /\ mbr.ents[ent].nsector \in Nat
            /\ mbr.ents[ent].start_lba + mbr.ents[ent].nsector < WORD
            /\ mbr.ents[ent].start_lba \in Word /\ mbr.ents[ent].nsector \in Word
        BY <2>1, EntryType
      <3>2. r \in Requests /\ ~IsPart(r.dev)
        BY <2>1, <3>1, DiskIsDevice DEF Requests
      <3>3. ~(mbr.ents[ent].start_lba + mbr.ents[ent].nsector >= WORD)
        BY <3>1, MbrAssumption
      <3> QED  BY <3>2, <3>3 DEF Wraps
    <2>3. CASE mbr.ents[ent].type = 0
      BY <1>4, <2>3, BlkUnchanged DEF mbr_mk_part, IInv
    <2>4. CASE mbr.ents[ent].type # 0
      <3>1. mk_part(BSP, <<cur>>, mbr.ents[ent].start_lba, mbr.ents[ent].nsector)
        BY <1>4, <2>4 DEF mbr_mk_part
      <3>2. /\ pc[BSP] = "idle" /\ req' = [req EXCEPT ![BSP] = r] /\ Goto(BSP, "lock")
            /\ UNCHANGED <<blkdevs, mutex, drv, ret>>
        BY <3>1 DEF mk_part
      <3> HIDE DEF r
      <3> QED  BY <2>2, <3>2, CallStep, MbrAssumption DEF IInv
    <2> QED  BY <2>3, <2>4
  <1>5. ASSUME NEW c \in Cpu, Use(c) PROVE BlkInv'
    <2>1. PICK dev \in Devices, at \in Lbas, n \in Counts, op \in {"rd", "wr"} :
            rdwr(c, op, dev, at, n)
      BY <1>5 DEF Use
    <2> DEFINE r == [op |-> op, dev |-> dev, at |-> at, n |-> n]
    <2>2. r \in Requests /\ r.op # "mk_part"
      BY MbrAssumption DEF Requests
    <2>3. /\ pc[c] = "idle" /\ req' = [req EXCEPT ![c] = r] /\ Goto(c, "lock")
          /\ UNCHANGED <<blkdevs, mutex, drv, ret>>
      BY <2>1 DEF rdwr
    <2> HIDE DEF r
    <2> QED  BY <2>2, <2>3, CallStep DEF IInv
  <1>6. ASSUME NEW c \in Cpu, DriverDone(c) PROVE BlkInv'
    BY <1>6, RdwrReturnStep DEF DriverDone, IInv
  <1>7. ASSUME NEW c \in Cpu, Inside(c) PROVE BlkInv'
    BY <1>7, LockStep, PartStep, RdwrReturnStep, DriverStep DEF Inside, IInv
  <1>8. CASE \/ probe_absent \/ probe_done \/ mbr_skip \/ mbr_check \/ mbr_next
             \/ mbr_done \/ NoDevice \/ UNCHANGED vars
    <2>1. UNCHANGED blk_vars
      BY <1>8 DEF probe_absent, probe_done, mbr_skip, mbr_check, mbr_next, mbr_done,
                  NoDevice, vars
    <2> QED  BY <2>1, BlkUnchanged DEF IInv
  <1> QED
    BY <1>1, <1>2, <1>3, <1>4, <1>5, <1>6, <1>7, <1>8 DEF Next
(* Only blkdev_register makes the table of devices longer.                 *)
LEMMA LengthStays ==
  ASSUME IInv, NEW c \in Cpu, Inside(c) \/ rdwr_return(c)
  PROVE  Len(blkdevs') = Len(blkdevs)
PROOF
  BY PartStep DEF Inside, lock, rdwr_refuse, rdwr_driver, rdwr_return, IInv

(* Every step keeps the boot processor's variables in range.               *)
LEMMA BootTypeStep ==
  ASSUME IInv, [Next]_vars
  PROVE  BootTypeOK'
PROOF
  <1> USE DEF IInv, BootTypeOK
  <1>1. CASE probe_absent \/ probe_done \/ mbr_skip \/ mbr_next \/ mbr_done \/ NoDevice
             \/ UNCHANGED vars
    <2>1. UNCHANGED blkdevs
      BY <1>1 DEF probe_absent, probe_done, mbr_skip, mbr_next, mbr_done, NoDevice,
                  vars, blk_vars
    <2> QED  BY <1>1, <2>1 DEF probe_absent, probe_done, mbr_skip, mbr_next, mbr_done,
                               NoDevice, vars, boot_vars
  <1>2. CASE probe_found
    <2>1. probe \in DOMAIN Probed /\ Len(Probed) \in Nat
      <3>1. probe \in 1 .. Len(Probed) /\ DOMAIN Probed = 1 .. Len(Probed)
            /\ Len(Probed) \in Nat
        BY <1>2, MbrAssumption DEF probe_found
      <3> QED  BY <3>1
    <2>2. CASE Len(blkdevs) >= MAX_BLKDEV_CNT
      BY <1>2, <2>1, <2>2 DEF probe_found, blkdev_register
    <2>3. CASE ~(Len(blkdevs) >= MAX_BLKDEV_CNT)
      <3>1. /\ blkdevs' = Append(blkdevs, Probed[probe]) /\ origin' = Append(origin, probe)
            /\ probe' = probe + 1 /\ UNCHANGED <<stage, cur, ent, mbr>> /\ stage = "probe"
        BY <1>2, <2>3 DEF probe_found, blkdev_register
      <3>2. Len(blkdevs') = Len(blkdevs) + 1
        BY <3>1 DEF BlkInv, BlkTypeOK
      <3>3. origin' \in Seq(DOMAIN Probed) /\ Len(origin') = Len(origin) + 1
        BY <2>1, <3>1
      <3> QED  BY <3>1, <3>2, <3>3
    <2> QED  BY <2>2, <2>3
  <1>3. CASE mbr_rd
    BY <1>3 DEF mbr_rd, rdwr
  <1>4. CASE mbr_driver
    <2>1. UNCHANGED blkdevs
      BY <1>4 DEF mbr_driver, rdwr_return
    <2>2. TableOf[origin[cur]] \in Tables
      <3>1. cur \in 1 .. Len(origin)
        BY <1>4 DEF mbr_driver
      <3>2. origin[cur] \in DOMAIN Probed
        BY <3>1
      <3> QED  BY <3>2, ProbedType
    <2> QED  BY <1>4, <2>1, <2>2 DEF mbr_driver
  <1>5. CASE mbr_check
    <2>1. UNCHANGED blkdevs
      BY <1>5 DEF mbr_check, blk_vars
    <2> QED  BY <1>5, <2>1 DEF mbr_check, NPART
  <1>6. CASE mbr_mk_part
    <2>1. UNCHANGED blkdevs
      BY <1>6 DEF mbr_mk_part, blk_vars, mk_part
    <2> QED  BY <1>6, <2>1 DEF mbr_mk_part, NPART
  <1>7. ASSUME NEW c \in Cpu,
               Use(c) \/ DriverDone(c) \/ (Inside(c) /\ UNCHANGED boot_vars)
        PROVE  BootTypeOK'
    <2>1. UNCHANGED boot_vars
      BY <1>7 DEF Use, DriverDone
    <2>2. Len(blkdevs') = Len(blkdevs)
      BY <1>7, LengthStays DEF Use, DriverDone, rdwr
    <2> QED  BY <2>1, <2>2 DEF boot_vars
  <1> QED  BY <1>1, <1>2, <1>3, <1>4, <1>5, <1>6, <1>7 DEF Next

(* The inductive invariant holds in every state.                           *)
LEMMA Invariant == Spec => []IInv
PROOF
  <1>1. IInv /\ [Next]_vars => IInv'
    BY BlkStep, BootTypeStep DEF IInv
  <1> QED  BY InitInv, <1>1, PTL DEF Spec

(* Through however many partitions and processors, blkdev_rd and blkdev_wr *)
(* enter the driver of a disk one at a time.                               *)
THEOREM DriversAreExclusive == Spec => []DriverExclusive
PROOF
  <1>1. IInv => DriverExclusive
    BY DEF IInv, BlkInv, LockOK, Holds, DriverExclusive
  <1> QED  BY <1>1, Invariant, PTL

(* No read or write whose address plus count is less than 2^64 leaves the  *)
(* partition or the disk it names, and neither table of the block layer    *)
(* overflows (blkdev_mk_part, blkdev_rd, blkdev_wr).                       *)
THEOREM PartitionsConfine == Spec => []Contained
PROOF
  <1>1. IInv => Contained
    <2> SUFFICES ASSUME IInv PROVE Contained
      OBVIOUS
    <2> USE DEF IInv, BlkInv
    <2>1. ASSUME NEW c \in Cpu, pc[c] = "driver", ~Wraps(req[c])
          PROVE  LET dev == req[c].dev IN
                 /\ drv[c].lba + drv[c].n <= blkdevs[Disk(dev)].nblk
                 /\ PartBase(dev) <= drv[c].lba
                 /\ drv[c].lba + drv[c].n <= PartBase(dev) + Nblk(dev)
      <3> DEFINE r == req[c]
                 dev == r.dev
      <3>1. /\ r \in Requests /\ dev \in Devices /\ r.at \in Nat /\ r.n \in Nat
            /\ r.at + r.n <= Nblk(dev)
            /\ drv[c] = [lba |-> Add(r.at, PartBase(dev)), n |-> r.n]
        <4>1. /\ r \in Requests /\ dev \in Devices /\ r.at \in Word /\ r.n \in Word
              /\ Add(r.at, r.n) <= Nblk(dev)
              /\ drv[c] = [lba |-> Add(r.at, PartBase(dev)), n |-> r.n]
          BY <2>1 DEF ReqOK, ReqOf, Requests
        <4>2. /\ r.at \in Nat /\ r.n \in Nat /\ WORD \in Nat
              /\ ~(r.at + r.n >= WORD)
          BY <2>1, <4>1, Words, MbrAssumption DEF Wraps
        <4>3. Add(r.at, r.n) = r.at + r.n
          BY <4>2, AddFits
        <4> QED  BY <4>1, <4>2, <4>3
      <3>2. Nblk(dev) \in Nat /\ PartBase(dev) \in Nat /\ Disk(dev) \in DOMAIN blkdevs
        BY <3>1, DeviceNumbers, DeviceCases
      <3>3. blkdevs[Disk(dev)].nblk \in Nat /\ blkdevs[Disk(dev)].nblk < WORD
        BY <3>2, BlkdevType, Words
      <3>4. PartBase(dev) + Nblk(dev) <= blkdevs[Disk(dev)].nblk
        BY <3>1, <3>2, <3>3, DeviceCases DEF PartBase, Nblk, PartsOK
      <3>5. drv[c].lba = r.at + PartBase(dev) /\ drv[c].n = r.n
        <4>1. r.at + PartBase(dev) < WORD
          BY <3>1, <3>2, <3>3, <3>4, MbrAssumption
        <4> QED  BY <3>1, <3>2, <4>1, AddFits
      <3> HIDE DEF r, dev
      <3>6. /\ drv[c].lba + drv[c].n <= blkdevs[Disk(dev)].nblk
            /\ PartBase(dev) <= drv[c].lba
            /\ drv[c].lba + drv[c].n <= PartBase(dev) + Nblk(dev)
        BY <3>1, <3>2, <3>3, <3>4, <3>5
      <3> QED  BY <3>6 DEF r, dev
    <2> QED  BY <2>1 DEF Contained, PartsOK
  <1> QED  BY <1>1, Invariant, PTL
-----------------------------------------------------------------------------
(* The fitting entries are finitely many, and the next entry, if it fits,  *)
(* comes behind all of them.                                               *)
LEMMA FittingNext ==
  ASSUME NEW table, NEW nblk, NEW n \in Nat
  PROVE  LET fit == Fitting(table, nblk, n)
             fit1 == Fitting(table, nblk, n + 1)
             fits == /\ table.ents[n + 1].type # 0
                     /\ table.ents[n + 1].start_lba + table.ents[n + 1].nsector <= nblk
         IN  /\ IsFiniteSet(fit) /\ Cardinality(fit) \in Nat
             /\ ~fits => fit1 = fit
             /\ fits => /\ Cardinality(fit1) = Cardinality(fit) + 1
                        /\ fit1 = fit \cup {n + 1}
                        /\ Rank(fit1, n + 1) = Cardinality(fit) + 1
                        /\ \A k \in fit : Rank(fit1, k) = Rank(fit, k)
             /\ \A k \in fit : Rank(fit, k) \in 1 .. Cardinality(fit)
PROOF
  <1> DEFINE fit == Fitting(table, nblk, n)
             fit1 == Fitting(table, nblk, n + 1)
             fits == /\ table.ents[n + 1].type # 0
                     /\ table.ents[n + 1].start_lba + table.ents[n + 1].nsector <= nblk
  <1>1. fit \subseteq 1 .. n /\ n + 1 \notin fit
    BY DEF Fitting
  <1>2. IsFiniteSet(1 .. n)
    BY FS_Interval
  <1>3. IsFiniteSet(fit) /\ Cardinality(fit) \in Nat
    BY <1>1, <1>2, FS_Subset, FS_CardinalityType
  <1>4. ~fits => fit1 = fit
    BY DEF Fitting
  <1>5. fits => fit1 = fit \cup {n + 1}
    BY DEF Fitting
  <1> HIDE DEF fit, fit1, fits
  <1>6. fits => Cardinality(fit1) = Cardinality(fit) + 1
    BY <1>1, <1>3, <1>5, FS_AddElement
  <1>7. fits => {l \in fit1 : l <= n + 1} = fit1
    <2>1. \A l \in fit \cup {n + 1} : l \in 1 .. n + 1
      BY <1>1
    <2>2. fits => \A l \in fit1 : l <= n + 1
      BY <1>5, <2>1
    <2> QED  BY <2>2
  <1>8. fits => \A k \in fit : {l \in fit1 : l <= k} = {l \in fit : l <= k}
    <2> SUFFICES ASSUME fits, NEW k \in fit
                 PROVE  {l \in fit1 : l <= k} = {l \in fit : l <= k}
      OBVIOUS
    <2>1. k \in 1 .. n /\ ~(n + 1 <= k)
      BY <1>1
    <2>2. \A l : l \in fit1 /\ l <= k <=> l \in fit /\ l <= k
      BY <1>5, <2>1
    <2> QED  BY <2>2
  <1>9. ASSUME NEW k \in fit PROVE Rank(fit, k) \in 1 .. Cardinality(fit)
    <2> DEFINE low == {l \in fit : l <= k}
    <2>1. low \subseteq fit /\ k \in low
      BY <1>1
    <2>2. IsFiniteSet(low) /\ Cardinality(low) <= Cardinality(fit) /\ Cardinality(low) \in Nat
      BY <1>3, <2>1, FS_Subset, FS_CardinalityType
    <2>3. Cardinality(low) # 0
      BY <2>1, <2>2, FS_EmptySet
    <2> QED  BY <1>3, <2>2, <2>3 DEF Rank
  <1>10. fits => /\ Rank(fit1, n + 1) = Cardinality(fit) + 1
                 /\ \A k \in fit : Rank(fit1, k) = Rank(fit, k)
    BY <1>6, <1>7, <1>8 DEF Rank
  <1> QED  BY <1>3, <1>4, <1>5, <1>6, <1>9, <1>10 DEF fit, fit1, fits

(* No entries describe no partitions.                                      *)
LEMMA PartsOfNone ==
  ASSUME NEW table, NEW nblk
  PROVE  PartsOf(<<>>, table, nblk, 0)
PROOF
  <1>1. Fitting(table, nblk, 0) = {}
    BY DEF Fitting
  <1>2. Cardinality({}) = 0
    BY FS_EmptySet
  <1>3. Len(<<>>) = 0 /\ 0 = IF 0 < BLKDEV_MAX_PARTS THEN 0 ELSE BLKDEV_MAX_PARTS
    BY MbrAssumption
  <1>4. Len(<<>>) = IF Cardinality(Fitting(table, nblk, 0)) < BLKDEV_MAX_PARTS
                    THEN Cardinality(Fitting(table, nblk, 0)) ELSE BLKDEV_MAX_PARTS
    BY <1>1, <1>2, <1>3
  <1> QED  BY <1>1, <1>4 DEF PartsOf

(* An entry that is unused or does not fit describes nothing; one that     *)
(* fits describes one partition more, if there is room for it.             *)
LEMMA PartsOfNext ==
  ASSUME NEW children \in Seq(Parts), NEW table, NEW nblk, NEW n \in Nat,
         PartsOf(children, table, nblk, n)
  PROVE  LET e == table.ents[n + 1]
             fits == e.type # 0 /\ e.start_lba + e.nsector <= nblk
         IN  /\ Len(children) <= BLKDEV_MAX_PARTS
             /\ ~fits \/ Len(children) >= BLKDEV_MAX_PARTS
                  => PartsOf(children, table, nblk, n + 1)
             /\ fits /\ ~(Len(children) >= BLKDEV_MAX_PARTS)
                  => PartsOf(Append(children, Part(e.start_lba, e.nsector)),
                             table, nblk, n + 1)
PROOF
  <1> DEFINE e == table.ents[n + 1]
             fits == e.type # 0 /\ e.start_lba + e.nsector <= nblk
             fit == Fitting(table, nblk, n)
             fit1 == Fitting(table, nblk, n + 1)
             part == Part(e.start_lba, e.nsector)
             PartOf(k) == Part(table.ents[k].start_lba, table.ents[k].nsector)
             Max == BLKDEV_MAX_PARTS
  <1>1. /\ Cardinality(fit) \in Nat
        /\ ~fits => fit1 = fit
        /\ fits => /\ Cardinality(fit1) = Cardinality(fit) + 1
                   /\ fit1 = fit \cup {n + 1}
                   /\ Rank(fit1, n + 1) = Cardinality(fit) + 1
                   /\ \A k \in fit : Rank(fit1, k) = Rank(fit, k)
        /\ \A k \in fit : Rank(fit, k) \in 1 .. Cardinality(fit)
    BY FittingNext
  <1>2. /\ Len(children) = IF Cardinality(fit) < Max THEN Cardinality(fit) ELSE Max
        /\ \A k \in fit : Rank(fit, k) <= Max => children[Rank(fit, k)] = PartOf(k)
    BY DEF PartsOf
  <1>3. Len(children) \in Nat /\ Max \in Nat
    BY MbrAssumption
  <1>4. Len(children) <= Max
    BY <1>1, <1>2, <1>3
  <1>5. PartOf(n + 1) = part
    OBVIOUS
  <1> HIDE DEF fit, fit1, fits, part, PartOf
  <1>6. ASSUME ~fits PROVE PartsOf(children, table, nblk, n + 1)
    <2>1. fit1 = fit
      BY <1>1, <1>6
    <2> QED  BY <1>2, <2>1 DEF PartsOf, fit, fit1, PartOf
  <1>7. ASSUME fits, Len(children) >= Max PROVE PartsOf(children, table, nblk, n + 1)
    <2>1. Cardinality(fit) >= Max /\ Len(children) = Max
      BY <1>1, <1>2, <1>3, <1>7
    <2>2. Len(children) = IF Cardinality(fit1) < Max THEN Cardinality(fit1) ELSE Max
      BY <1>1, <1>3, <1>7, <2>1
    <2>3. \A k \in fit1 : Rank(fit1, k) <= Max => children[Rank(fit1, k)] = PartOf(k)
      <3> SUFFICES ASSUME NEW k \in fit1, Rank(fit1, k) <= Max
                   PROVE  children[Rank(fit1, k)] = PartOf(k)
        OBVIOUS
      <3>1. k # n + 1
        BY <1>1, <1>3, <1>7, <2>1
      <3> QED  BY <1>1, <1>2, <1>7, <3>1
    <2> QED  BY <2>2, <2>3 DEF PartsOf, fit1, PartOf
  <1>8. ASSUME fits, ~(Len(children) >= Max)
        PROVE  PartsOf(Append(children, part), table, nblk, n + 1)
    <2> DEFINE new == Append(children, part)
    <2>1. Len(children) = Cardinality(fit) /\ Cardinality(fit) < Max
      BY <1>1, <1>2, <1>3, <1>8
    <2>2. /\ Len(new) = Len(children) + 1 /\ new[Len(children) + 1] = part
          /\ \A j \in 1 .. Len(children) : new[j] = children[j]
      OBVIOUS
    <2> HIDE DEF new
    <2>3. Len(new) = IF Cardinality(fit1) < Max THEN Cardinality(fit1) ELSE Max
      BY <1>1, <1>3, <1>8, <2>1, <2>2
    <2>4. \A k \in fit1 : Rank(fit1, k) <= Max => new[Rank(fit1, k)] = PartOf(k)
      <3> SUFFICES ASSUME NEW k \in fit1, Rank(fit1, k) <= Max
                   PROVE  new[Rank(fit1, k)] = PartOf(k)
        OBVIOUS
      <3>1. CASE k = n + 1
        BY <1>1, <1>5, <1>8, <2>1, <2>2, <3>1
      <3>2. CASE k \in fit
        BY <1>1, <1>2, <1>8, <2>1, <2>2, <3>2
      <3> QED  BY <1>1, <1>8, <3>1, <3>2
    <2> QED  BY <2>3, <2>4 DEF PartsOf, fit1, PartOf, new
  <1> QED  BY <1>4, <1>6, <1>7, <1>8 DEF fits, part
-----------------------------------------------------------------------------
(* Before the drivers probe no table has been read.                        *)
LEMMA BootInit == Init => BootInv
PROOF
  <1> SUFFICES ASSUME Init PROVE BootInv
    OBVIOUS
  <1>1. Alone
    BY MbrAssumption DEF Init, BlkInit, Alone
  <1>2. Progress
    BY DEF Init, BlkInit, Progress
  <1> QED  BY <1>1, <1>2 DEF Init, BootInv, Reading, Parting

(* Steps that leave the disks, mbr_find and the calls alone.               *)
LEMMA BootFrame ==
  ASSUME BootInv, UNCHANGED <<blkdevs, req, ret, boot_vars>>,
         \A c \in Cpu : pc'[c] = "idle" <=> pc[c] = "idle"
  PROVE  BootInv'
PROOF
  <1>1. UNCHANGED <<stage, probe, origin, cur, ent, mbr, failed>>
    BY DEF boot_vars
  <1>2. Alone'
    BY <1>1, MbrAssumption DEF BootInv, Alone
  <1>3. Progress'
    BY <1>1 DEF BootInv, Progress, Right
  <1>4. Reading' /\ Parting'
    BY <1>1, MbrAssumption DEF BootInv, Reading, Parting
  <1> QED  BY <1>2, <1>3, <1>4 DEF BootInv

(* mbr_find goes on to the next disk once the one it is at is right.       *)
LEMMA NextDisk ==
  ASSUME IInv, BootInv, UNCHANGED <<blk_vars, origin, failed>>,
         stage # "up", stage' = "mbr", cur' = cur + 1, pc[BSP] = "idle",
         cur \in DOMAIN blkdevs, cur \notin failed => Right(cur), stage # "probe"
  PROVE  BootInv'
PROOF
  <1>1. UNCHANGED <<blkdevs, pc, req, ret>>
    BY DEF blk_vars
  <1>2. cur \in Nat /\ DOMAIN blkdevs = 1 .. Len(blkdevs) /\ Len(blkdevs) \in Nat
    BY DEF IInv, BootTypeOK, BlkInv, BlkTypeOK
  <1>3. Alone'
    BY <1>1 DEF BootInv, Alone
  <1>4. Progress'
    <2> SUFFICES ASSUME NEW k \in DOMAIN blkdevs
                 PROVE  /\ blkdevs[k].nblk = Probed[origin[k]].nblk
                        /\ k < cur + 1 /\ k \notin failed => Right(k)
                        /\ k > cur + 1 \/ k = cur + 1 => blkdevs[k].children = <<>>
      BY <1>1 DEF Progress, Right
    <2>1. k < cur + 1 => k < cur \/ k = cur
      BY <1>2
    <2>2. k > cur + 1 \/ k = cur + 1 => k > cur
      BY <1>2
    <2> QED  BY <2>1, <2>2 DEF BootInv, Progress
  <1> QED  BY <1>3, <1>4 DEF BootInv, Reading, Parting

(* blkdevs_find adds a disk without partitions.                            *)
LEMMA BootFound ==
  ASSUME IInv, BootInv, probe_found
  PROVE  BootInv'
PROOF
  <1>1. /\ stage = "probe" /\ UNCHANGED <<pc, req, drv, ret, stage, cur, ent, mbr, failed>>
        /\ probe \in DOMAIN Probed
    <2>1. probe \in 1 .. Len(Probed) /\ DOMAIN Probed = 1 .. Len(Probed)
      BY MbrAssumption DEF probe_found, IInv, BootTypeOK
    <2> QED  BY <2>1 DEF probe_found
  <1>2. Alone' /\ Reading' /\ Parting'
    BY <1>1 DEF BootInv, Alone, Reading, Parting
  <1>3. cur = 1
    BY <1>1 DEF BootInv, Progress
  <1>4. CASE Len(blkdevs) >= MAX_BLKDEV_CNT
    <2>1. UNCHANGED <<blkdevs, origin>>
      BY <1>4 DEF probe_found, blkdev_register
    <2>2. Progress'
      BY <1>1, <2>1 DEF BootInv, Progress, Right
    <2> QED  BY <1>2, <2>2 DEF BootInv
  <1>5. CASE ~(Len(blkdevs) >= MAX_BLKDEV_CNT)
    <2> DEFINE top == Len(blkdevs) + 1
    <2>1. blkdevs' = Append(blkdevs, Probed[probe]) /\ origin' = Append(origin, probe)
      BY <1>5 DEF probe_found, blkdev_register
    <2>2. /\ blkdevs \in Seq(Blkdevs) /\ origin \in Seq(DOMAIN Probed)
          /\ Len(origin) = Len(blkdevs)
      BY DEF IInv, BootTypeOK, BlkInv, BlkTypeOK
    <2>3. /\ DOMAIN blkdevs' = DOMAIN blkdevs \cup {top}
          /\ DOMAIN blkdevs = 1 .. Len(blkdevs) /\ Len(blkdevs) \in Nat
          /\ blkdevs'[top] = Probed[probe]
          /\ \A k \in DOMAIN blkdevs : blkdevs'[k] = blkdevs[k]
      BY <2>1, <2>2
    <2>4. origin'[top] = probe /\ \A k \in DOMAIN blkdevs : origin'[k] = origin[k]
      BY <2>1, <2>2
    <2>5. \A k \in DOMAIN blkdevs : ~(k < cur) /\ (k > cur \/ k = cur)
      BY <1>3, <2>3
    <2>6. \A k \in DOMAIN blkdevs : blkdevs[k].children = <<>>
                                    /\ blkdevs[k].nblk = Probed[origin[k]].nblk
      BY <1>1, <2>5 DEF BootInv, Progress
    <2>7. Probed[probe].children = <<>> /\ ~(top < cur)
      BY <1>1, <1>3, <2>3, ProbedType
    <2>8. \A k \in DOMAIN blkdevs' :
            /\ blkdevs'[k].nblk = Probed[origin'[k]].nblk
            /\ ~(k < cur') /\ blkdevs'[k].children = <<>>
      BY <1>1, <2>3, <2>4, <2>5, <2>6, <2>7
    <2>9. Progress'
      BY <1>1, <1>3, <2>8 DEF Progress
    <2> QED  BY <1>2, <2>9 DEF BootInv
  <1> QED  BY <1>4, <1>5
(* mbr_find starts to read a disk.                                         *)
LEMMA BootRead ==
  ASSUME IInv, BootInv, mbr_rd
  PROVE  BootInv'
PROOF
  <1>1. /\ stage = "mbr" /\ stage' = "mbr_read" /\ Scannable(blkdevs[cur])
        /\ pc[BSP] = "idle" /\ pc' = [pc EXCEPT ![BSP] = "lock"]
        /\ req' = [req EXCEPT ![BSP] = [op |-> "rd", dev |-> <<cur>>, at |-> 0, n |-> 1]]
        /\ UNCHANGED <<blkdevs, ret, origin, cur, ent, mbr, failed>>
    BY DEF mbr_rd, rdwr, Goto
  <1>2. /\ pc'[BSP] = "lock" /\ \A c \in Cpu : c # BSP => pc'[c] = pc[c]
        /\ req'[BSP] = [op |-> "rd", dev |-> <<cur>>, at |-> 0, n |-> 1]
    BY <1>1, MbrAssumption DEF IInv, BlkInv, BlkTypeOK
  <1>3. Alone'
    BY <1>1, <1>2 DEF BootInv, Alone
  <1>4. Progress'
    BY <1>1 DEF BootInv, Progress, Right
  <1>5. Reading' /\ Parting'
    BY <1>1, <1>2 DEF Reading, Parting, Scannable
  <1> QED  BY <1>3, <1>4, <1>5 DEF BootInv

(* The driver returns to mbr_find.                                         *)
LEMMA BootDriver ==
  ASSUME IInv, BootInv, mbr_driver
  PROVE  BootInv'
PROOF
  <1>1. /\ stage = "mbr_read" /\ pc' = [pc EXCEPT ![BSP] = "idle"]
        /\ ret' = [ret EXCEPT ![BSP] = 0]
        /\ \/ mbr' = TableOf[origin[cur]] /\ failed' = failed
           \/ failed' = failed \cup {cur}
        /\ UNCHANGED <<blkdevs, stage, origin, cur, ent>>
    BY DEF mbr_driver, rdwr_return, Return, Goto
  <1>2. pc'[BSP] = "idle" /\ ret'[BSP] = 0 /\ \A c \in Cpu : c # BSP => pc'[c] = pc[c]
    BY <1>1, MbrAssumption DEF IInv, BlkInv, BlkTypeOK
  <1>3. Alone'
    BY <1>1, <1>2 DEF BootInv, Alone
  <1>4. Progress'
    BY <1>1 DEF BootInv, Progress, Right
  <1>5. Reading'
    BY <1>1, <1>2 DEF BootInv, Reading, Scannable
  <1>6. Parting'
    BY <1>1 DEF Parting
  <1> QED  BY <1>3, <1>4, <1>5, <1>6 DEF BootInv

(* The table is taken, or the disk stays without partitions: rightly so if *)
(* its table was read and has no signature, or if it has no block 0.       *)
LEMMA BootCheck ==
  ASSUME IInv, BootInv, mbr_check
  PROVE  BootInv'
PROOF
  <1>1. stage = "mbr_read" /\ pc[BSP] = "idle"
        /\ UNCHANGED <<blk_vars, probe, origin, mbr, failed>>
    BY DEF mbr_check
  <1>2. UNCHANGED <<blkdevs, pc, req, ret>>
    BY <1>1 DEF blk_vars
  <1>3. cur \in DOMAIN blkdevs /\ cur \in Nat
    BY <1>1 DEF IInv, BootTypeOK, BlkInv, BlkTypeOK
  <1>4. blkdevs[cur].children = <<>> /\ blkdevs[cur].nblk = Probed[origin[cur]].nblk
    BY <1>1, <1>3 DEF BootInv, Progress
  <1>5. CASE ret[BSP] = 0 /\ mbr_verify(mbr)
    <2>1. stage' = "mbr_part" /\ ent' = 1 /\ cur' = cur /\ mbr.sig
      BY <1>5 DEF mbr_check, mbr_verify
    <2>2. PartsOf(<<>>, mbr, blkdevs[cur].nblk, 0)
      BY PartsOfNone
    <2>3. Alone'
      BY <1>1, <1>2, <2>1 DEF BootInv, Alone
    <2>4. Progress'
      BY <1>1, <1>2, <2>1 DEF BootInv, Progress, Right
    <2>5. Reading'
      BY <2>1 DEF Reading
    <2>6. ent' - 1 = 0
      BY <2>1
    <2>7. PartsOf(blkdevs[cur].children, mbr, blkdevs[cur].nblk, ent' - 1)
      BY <1>4, <2>2, <2>6
    <2>8. Scannable(blkdevs[cur]) /\ (cur \notin failed => mbr = TableOf[origin[cur]])
      BY <1>1, <1>5 DEF BootInv, Reading
    <2>9. Parting'
      BY <1>1, <1>2, <2>1, <2>7, <2>8 DEF Parting, Scannable
    <2> QED  BY <2>3, <2>4, <2>5, <2>9 DEF BootInv
  <1>6. CASE ~(ret[BSP] = 0 /\ mbr_verify(mbr))
    <2>1. stage' = "mbr" /\ cur' = cur + 1
      BY <1>6 DEF mbr_check
    <2>2. ASSUME cur \notin failed PROVE Right(cur)
      <3>1. Scannable(blkdevs[cur])
        BY <1>1 DEF BootInv, Reading
      <3>2. origin[cur] \in DOMAIN Probed
        BY <1>3 DEF IInv, BootTypeOK, BlkInv, BlkTypeOK
      <3>3. ~TableOf[origin[cur]].sig
        <4>1. CASE ret[BSP] = 0
          BY <1>1, <1>6, <2>2, <4>1 DEF BootInv, Reading, mbr_verify
        <4>2. CASE ret[BSP] # 0
          BY <1>1, <1>4, <2>2, <3>2, <4>2, MbrAssumption DEF BootInv, Reading
        <4> QED  BY <4>1, <4>2
      <3> QED  BY <1>4, <3>1, <3>3 DEF Right, Described
    <2> QED  BY <1>1, <1>3, <2>1, <2>2, NextDisk
  <1> QED  BY <1>5, <1>6

(* The next entry of the table: skipped, or handed to blkdev_mk_part.      *)
LEMMA BootEntry ==
  ASSUME IInv, BootInv, mbr_mk_part
  PROVE  BootInv'
PROOF
  <1>1. /\ stage = "mbr_part" /\ pc[BSP] = "idle" /\ ent' = ent + 1
        /\ UNCHANGED <<stage, probe, origin, cur, mbr, failed>>
    BY DEF mbr_mk_part
  <1>2. ent \in 1 .. NPART /\ cur \in DOMAIN blkdevs
    BY DEF mbr_mk_part, IInv, BootTypeOK, NPART, BlkInv, BlkTypeOK
  <1>3. blkdevs[cur].children \in Seq(Parts)
    BY <1>2, BlkdevType DEF IInv, BlkInv
  <1>4. /\ Scannable(blkdevs[cur]) /\ mbr.sig
        /\ cur \notin failed => mbr = TableOf[origin[cur]]
        /\ PartsOf(blkdevs[cur].children, mbr, blkdevs[cur].nblk, ent - 1)
    BY <1>1 DEF BootInv, Parting
  <1>5. ent - 1 \in Nat /\ (ent - 1) + 1 = ent /\ ent' - 1 = ent /\ ent' - 2 = ent - 1
        /\ ent' >= 2
    BY <1>1, <1>2 DEF NPART
  <1>6. CASE mbr.ents[ent].type = 0
    <2>1. UNCHANGED <<blkdevs, pc, req, ret>>
      BY <1>6 DEF mbr_mk_part, blk_vars
    <2>2. PartsOf(blkdevs[cur].children, mbr, blkdevs[cur].nblk, (ent - 1) + 1)
      BY <1>3, <1>4, <1>5, <1>6, PartsOfNext
    <2>3. PartsOf(blkdevs[cur].children, mbr, blkdevs[cur].nblk, ent' - 1)
      BY <1>5, <2>2
    <2>4. Alone' /\ Progress' /\ Reading'
      BY <1>1, <2>1 DEF BootInv, Alone, Progress, Right, Reading
    <2>5. Parting'
      BY <1>1, <1>4, <2>1, <2>3 DEF Parting, Scannable
    <2> QED  BY <2>4, <2>5 DEF BootInv
  <1>7. CASE mbr.ents[ent].type # 0
    <2> DEFINE r == [op |-> "mk_part", dev |-> <<cur>>,
                     at |-> mbr.ents[ent].start_lba, n |-> mbr.ents[ent].nsector]
    <2>1. mk_part(BSP, <<cur>>, mbr.ents[ent].start_lba, mbr.ents[ent].nsector)
      BY <1>7 DEF mbr_mk_part
    <2>2. /\ pc' = [pc EXCEPT ![BSP] = "lock"] /\ req' = [req EXCEPT ![BSP] = r]
          /\ UNCHANGED <<blkdevs, ret>>
      BY <2>1 DEF mk_part, Goto
    <2>3. /\ pc'[BSP] = "lock" /\ req'[BSP] = r
          /\ \A c \in Cpu : c # BSP => pc'[c] = pc[c]
      BY <2>2, MbrAssumption DEF IInv, BlkInv, BlkTypeOK
    <2> HIDE DEF r
    <2>4. Alone' /\ Progress' /\ Reading'
      BY <1>1, <2>2, <2>3 DEF BootInv, Alone, Progress, Right, Reading
    <2>5. PartsOf(blkdevs[cur].children, mbr, blkdevs[cur].nblk, ent' - 2)
      BY <1>4, <1>5
    <2>6. r = [op |-> "mk_part", dev |-> <<cur>>, at |-> mbr.ents[ent' - 1].start_lba,
               n |-> mbr.ents[ent' - 1].nsector]
          /\ mbr.ents[ent' - 1].type # 0
      BY <1>5, <1>7 DEF r
    <2>7. Parting'
      BY <1>1, <1>4, <1>5, <2>2, <2>3, <2>5, <2>6 DEF Parting, Scannable
    <2> QED  BY <2>4, <2>7 DEF BootInv
  <1> QED  BY <1>6, <1>7
(* blkdev_mk_part for mbr_find: the entry's partition is added or refused  *)
(* as its table and the room left say.                                     *)
LEMMA BootPart ==
  ASSUME IInv, BootInv, NEW c \in Cpu, mk_part_add(c), UNCHANGED boot_vars
  PROVE  BootInv'
PROOF
  <1>1. UNCHANGED <<stage, origin, cur, ent, mbr, failed>>
    BY DEF boot_vars
  <1>2. pc[c] = "locked" /\ req[c].op = "mk_part"
    BY DEF mk_part_add
  <1>3. c = BSP /\ stage = "mbr_part"
    <2>1. stage # "up"
      BY <1>2 DEF BootInv, Alone
    <2>2. c = BSP
      BY <1>2, <2>1 DEF BootInv, Alone
    <2>3. stage # "mbr_read"
      BY <1>2, <2>2 DEF BootInv, Reading
    <2>4. stage \notin {"probe", "mbr"}
      BY <1>2, <2>2 DEF BootInv, Alone
    <2> QED  BY <2>1, <2>2, <2>3, <2>4 DEF IInv, BootTypeOK
  <1> DEFINE e == mbr.ents[ent - 1]
             ch == blkdevs[cur].children
             nblk == blkdevs[cur].nblk
             fits == e.type # 0 /\ e.start_lba + e.nsector <= nblk
             full == Len(ch) >= BLKDEV_MAX_PARTS
             part == Part(e.start_lba, e.nsector)
  <1>4. /\ Scannable(blkdevs[cur]) /\ mbr.sig
        /\ cur \notin failed => mbr = TableOf[origin[cur]]
        /\ ent >= 2 /\ e.type # 0
        /\ req[BSP] = [op |-> "mk_part", dev |-> <<cur>>,
                       at |-> e.start_lba, n |-> e.nsector]
        /\ PartsOf(ch, mbr, nblk, ent - 2)
    BY <1>2, <1>3 DEF BootInv, Parting
  <1>5. /\ cur \in DOMAIN blkdevs /\ ent \in 1 .. NPART + 1 /\ mbr \in Tables
        /\ ent - 2 \in Nat /\ (ent - 2) + 1 = ent - 1 /\ ent - 1 \in 1 .. NPART
    BY <1>3, <1>4 DEF IInv, BootTypeOK, NPART, BlkInv, BlkTypeOK
  <1>6. ch \in Seq(Parts) /\ nblk \in Nat
    BY <1>5, BlkdevType DEF IInv, BlkInv
  <1>7. /\ e.start_lba \in Nat /\ e.nsector \in Nat
        /\ e.start_lba \in Word /\ e.nsector \in Word
        /\ Add(e.start_lba, e.nsector) = e.start_lba + e.nsector
    BY <1>5, EntryType, AddFits
  <1>8. part \in Parts
    BY <1>7 DEF Part, Parts
  <1>9. /\ ~fits \/ full => PartsOf(ch, mbr, nblk, ent - 1)
        /\ fits /\ ~full => PartsOf(Append(ch, part), mbr, nblk, ent - 1)
    <2>1. /\ ~fits \/ full => PartsOf(ch, mbr, nblk, (ent - 2) + 1)
          /\ fits /\ ~full => PartsOf(Append(ch, part), mbr, nblk, (ent - 2) + 1)
      BY <1>4, <1>5, <1>6, PartsOfNext
    <2> QED  BY <1>5, <2>1
  <1>10. /\ blkdevs' = IF full \/ e.start_lba + e.nsector > nblk THEN blkdevs
                       ELSE [blkdevs EXCEPT ![cur].children = Append(ch, part)]
         /\ pc' = [pc EXCEPT ![BSP] = "idle"]
    <2>1. Disk(req[c].dev) = cur /\ Nblk(req[c].dev) = nblk
          /\ req[c].at = e.start_lba /\ req[c].n = e.nsector
      BY <1>3, <1>4 DEF Disk, Nblk, IsPart
    <2>2. Add(req[c].at, req[c].n) = e.start_lba + e.nsector
      BY <1>7, <2>1
    <2> QED  BY <1>3, <2>1, <2>2 DEF mk_part_add, Return, Goto
  <1>11. pc'[BSP] = "idle" /\ \A d \in Cpu : d # BSP => pc'[d] = pc[d]
    BY <1>10, MbrAssumption DEF IInv, BlkInv, BlkTypeOK
  <1>12. Alone'
    BY <1>1, <1>3, <1>11 DEF BootInv, Alone
  <1>13. Reading'
    BY <1>1, <1>3 DEF Reading
  <1>14. CASE fits /\ ~full
    <2>1. blkdevs' = [blkdevs EXCEPT ![cur].children = Append(blkdevs[cur].children, part)]
      <3>1. ~(full \/ e.start_lba + e.nsector > nblk)
        BY <1>6, <1>7, <1>14
      <3> QED  BY <1>10, <3>1
    <2> HIDE DEF part
    <2>2. /\ DOMAIN blkdevs' = DOMAIN blkdevs
          /\ blkdevs'[cur].children = Append(blkdevs[cur].children, part)
          /\ blkdevs'[cur].nblk = blkdevs[cur].nblk
          /\ blkdevs'[cur].dev_type = blkdevs[cur].dev_type
          /\ blkdevs'[cur].blk_size = blkdevs[cur].blk_size
          /\ \A l \in DOMAIN blkdevs : l # cur => blkdevs'[l] = blkdevs[l]
      BY <1>5, <1>8, <2>1, NewPart DEF IInv, BlkInv
    <2>3. Progress'
      <3>1. cur \in Nat /\ DOMAIN blkdevs \subseteq Nat
        BY DEF IInv, BootTypeOK, BlkInv, BlkTypeOK
      <3> SUFFICES ASSUME NEW k \in DOMAIN blkdevs
                   PROVE  /\ blkdevs'[k].nblk = Probed[origin[k]].nblk
                          /\ k < cur /\ k \notin failed => Right(k)'
                          /\ k > cur => blkdevs'[k].children = <<>>
        BY <1>1, <1>3, <2>2 DEF Progress
      <3>2. CASE k = cur
        BY <2>2, <3>1, <3>2 DEF BootInv, Progress
      <3>3. CASE k # cur
        BY <1>1, <2>2, <3>3 DEF BootInv, Progress, Right
      <3> QED  BY <3>2, <3>3
    <2>4. PartsOf(blkdevs'[cur].children, mbr, blkdevs'[cur].nblk, ent - 1)
      BY <1>9, <1>14, <2>2
    <2>5. Scannable(blkdevs'[cur])
      BY <1>4, <2>2 DEF Scannable
    <2>6. Parting'
      BY <1>1, <1>4, <1>11, <2>4, <2>5 DEF Parting, Scannable
    <2> QED  BY <1>12, <1>13, <2>3, <2>6 DEF BootInv
  <1>15. CASE ~fits \/ full
    <2>1. UNCHANGED blkdevs
      BY <1>4, <1>6, <1>7, <1>10, <1>15
    <2>2. Progress'
      BY <1>1, <2>1 DEF BootInv, Progress, Right
    <2>3. Parting'
      BY <1>1, <1>4, <1>9, <1>11, <1>15, <2>1 DEF Parting, Scannable
    <2> QED  BY <1>12, <1>13, <2>2, <2>3 DEF BootInv
  <1> QED  BY <1>14, <1>15

(* A refused read: mbr_find's own is refused only on a disk without block  *)
(* 0.                                                                      *)
LEMMA BootRefuse ==
  ASSUME IInv, BootInv, NEW c \in Cpu, rdwr_refuse(c), UNCHANGED boot_vars
  PROVE  BootInv'
PROOF
  <1>1. UNCHANGED <<stage, origin, cur, ent, mbr, failed, blkdevs>>
    BY DEF boot_vars, rdwr_refuse
  <1>2. /\ pc[c] = "locked" /\ req[c].op # "mk_part"
        /\ Add(req[c].at, req[c].n) > Nblk(req[c].dev)
        /\ pc' = [pc EXCEPT ![c] = "idle"] /\ req' = [req EXCEPT ![c] = NoReq]
        /\ ret' = [ret EXCEPT ![c] = 1]
    BY DEF rdwr_refuse, Return, Goto
  <1>3. /\ pc'[c] = "idle" /\ ret'[c] = 1
        /\ \A d \in Cpu : d # c => pc'[d] = pc[d] /\ req'[d] = req[d]
    BY <1>2 DEF IInv, BlkInv, BlkTypeOK
  <1>4. Alone'
    BY <1>1, <1>2, <1>3 DEF BootInv, Alone
  <1>5. Progress'
    BY <1>1 DEF BootInv, Progress, Right
  <1>6. Parting'
    <2>1. stage # "mbr_part"
      BY <1>2 DEF BootInv, Alone, Parting
    <2> QED  BY <1>1, <2>1 DEF Parting
  <1>7. Reading'
    <2> SUFFICES ASSUME stage = "mbr_read" PROVE Reading'
      BY <1>1 DEF Reading
    <2>1. c = BSP
      BY <1>2 DEF BootInv, Alone
    <2>2. /\ Scannable(blkdevs[cur])
          /\ req[c] = [op |-> "rd", dev |-> <<cur>>, at |-> 0, n |-> 1]
      BY <1>2, <2>1 DEF BootInv, Reading
    <2>3. 0 + 1 > blkdevs[cur].nblk
      <3>1. Add(0, 1) = 0 + 1
        BY Words, AddFits
      <3> QED  BY <1>2, <2>2, <3>1 DEF Nblk, IsPart, Disk
    <2>4. blkdevs[cur].nblk \in Nat
      <3>1. cur \in DOMAIN blkdevs
        BY DEF IInv, BootTypeOK, BlkInv, BlkTypeOK
      <3> QED  BY <3>1, BlkdevType DEF IInv, BlkInv
    <2>5. blkdevs[cur].nblk = 0
      BY <2>3, <2>4
    <2> QED  BY <1>1, <1>3, <2>1, <2>2, <2>5 DEF Reading, Scannable
  <1> QED  BY <1>4, <1>5, <1>6, <1>7 DEF BootInv

(* Reads and writes once the system is up.                                 *)
LEMMA BootUp ==
  ASSUME IInv, BootInv, NEW c \in Cpu, Use(c) \/ DriverDone(c)
  PROVE  BootInv'
PROOF
  <1>1. /\ stage = "up" /\ UNCHANGED <<stage, origin, cur, ent, mbr, failed, blkdevs>>
        /\ \E r : req' = [req EXCEPT ![c] = r] /\ r.op # "mk_part"
        /\ \E label : pc' = [pc EXCEPT ![c] = label]
    <2>1. CASE Use(c)
      <3>1. PICK dev \in Devices, at \in Lbas, n \in Counts, op \in {"rd", "wr"} :
              rdwr(c, op, dev, at, n)
        BY <2>1 DEF Use
      <3>2. [op |-> op, dev |-> dev, at |-> at, n |-> n].op # "mk_part"
        OBVIOUS
      <3> QED  BY <2>1, <3>1, <3>2 DEF Use, rdwr, Goto, boot_vars
    <2>2. CASE DriverDone(c)
      <3>1. NoReq.op # "mk_part"
        BY DEF NoReq
      <3> QED  BY <2>2, <3>1 DEF DriverDone, rdwr_return, Return, Goto, boot_vars
    <2> QED  BY <2>1, <2>2
  <1>2. /\ req'[c].op # "mk_part"
        /\ \A d \in Cpu : d # c => pc'[d] = pc[d] /\ req'[d] = req[d]
    BY <1>1 DEF IInv, BlkInv, BlkTypeOK
  <1>3. Alone'
    BY <1>1, <1>2 DEF BootInv, Alone
  <1>4. Progress' /\ Reading' /\ Parting'
    BY <1>1 DEF BootInv, Progress, Right, Reading, Parting
  <1> QED  BY <1>3, <1>4 DEF BootInv

(* Every step of the boot and of its users keeps the invariant.            *)
LEMMA BootStep ==
  ASSUME IInv, BootInv, [Next]_vars
  PROVE  BootInv'
PROOF
  <1>1. CASE probe_absent
    <2>1. UNCHANGED <<blkdevs, pc, req, ret, stage, origin, cur, ent, mbr, failed>>
      BY <1>1 DEF probe_absent, blk_vars
    <2> QED  BY <2>1 DEF BootInv, Alone, Progress, Right, Reading, Parting
  <1>2. CASE probe_done
    <2>1. /\ stage = "probe" /\ stage' = "mbr"
          /\ UNCHANGED <<blkdevs, pc, req, ret, origin, cur, ent, mbr, failed>>
      BY <1>2 DEF probe_done, blk_vars
    <2> QED  BY <2>1 DEF BootInv, Alone, Progress, Right, Reading, Parting
  <1>3. CASE mbr_skip
    <2>1. /\ stage = "mbr" /\ stage' = "mbr" /\ cur' = cur + 1 /\ ~Scannable(blkdevs[cur])
          /\ UNCHANGED <<blk_vars, origin, failed>>
      BY <1>3 DEF mbr_skip
    <2>2. cur \in DOMAIN blkdevs /\ pc[BSP] = "idle"
      BY <1>3, <2>1 DEF mbr_skip, IInv, BootTypeOK, BlkInv, BlkTypeOK, BootInv, Alone
    <2>3. Right(cur)
      BY <2>1, <2>2 DEF BootInv, Progress, Right
    <2> QED  BY <2>1, <2>2, <2>3, NextDisk
  <1>4. CASE mbr_next
    <2>1. /\ stage = "mbr_part" /\ stage' = "mbr" /\ cur' = cur + 1 /\ pc[BSP] = "idle"
          /\ UNCHANGED <<blk_vars, origin, failed>> /\ ent > NPART
      BY <1>4 DEF mbr_next
    <2>2. cur \in DOMAIN blkdevs /\ ent - 1 = NPART
      BY <2>1 DEF IInv, BootTypeOK, BlkInv, BlkTypeOK, NPART
    <2>3. cur \notin failed => Right(cur)
      BY <2>1, <2>2 DEF BootInv, Parting, Right, Described
    <2> QED  BY <2>1, <2>2, <2>3, NextDisk
  <1>5. CASE mbr_done
    <2>1. /\ stage = "mbr" /\ stage' = "up" /\ cur > Len(blkdevs)
          /\ UNCHANGED <<blkdevs, pc, req, ret, origin, cur, ent, mbr, failed>>
      BY <1>5 DEF mbr_done, blk_vars
    <2> QED  BY <2>1, MbrAssumption DEF BootInv, Alone, Progress, Right, Reading, Parting
  <1>6. ASSUME NEW c \in Cpu, Inside(c), UNCHANGED boot_vars PROVE BootInv'
    <2>1. CASE lock(c) \/ rdwr_driver(c)
      <3>1. /\ UNCHANGED <<blkdevs, req, ret>> /\ pc[c] # "idle"
            /\ \E label \in {"locked", "driver"} : pc' = [pc EXCEPT ![c] = label]
        BY <2>1 DEF lock, rdwr_driver, Goto
      <3>2. \A d \in Cpu : pc'[d] = "idle" <=> pc[d] = "idle"
        BY <3>1 DEF IInv, BlkInv, BlkTypeOK
      <3> QED  BY <1>6, <3>1, <3>2, BootFrame
    <2> QED  BY <1>6, <2>1, BootPart, BootRefuse DEF Inside
  <1>7. CASE NoDevice \/ UNCHANGED vars
    <2>1. UNCHANGED <<blkdevs, pc, req, ret, boot_vars>>
      BY <1>7 DEF NoDevice, vars, blk_vars
    <2> QED  BY <2>1, BootFrame
  <1> QED
    BY <1>1, <1>2, <1>3, <1>4, <1>5, <1>6, <1>7, BootFound, BootRead, BootDriver,
       BootCheck, BootEntry, BootUp
    DEF Next

(* The partitions follow the tables in every state.                        *)
LEMMA BootInvariant == Spec => []BootInv
PROOF
  <1>1. IInv /\ BootInv /\ [Next]_vars => BootInv'
    BY BootStep
  <1> QED  BY Invariant, BootInit, <1>1, PTL DEF Spec

(* Once the system is up, every disk that could be read has exactly the    *)
(* partitions its own table describes: no disk gets the table of another   *)
(* that mbr_find still had in its local variable.                          *)
THEOREM PartitionsAreTheTables == Spec => []PartsMatchTable
PROOF
  <1>1. IInv /\ BootInv => PartsMatchTable
    <2> SUFFICES ASSUME IInv, BootInv, stage = "up", NEW k \in DOMAIN blkdevs,
                        k \notin failed
                 PROVE  Right(k)
      BY DEF PartsMatchTable, Right
    <2>1. k < cur
      BY DEF BootInv, Alone, IInv, BootTypeOK, BlkInv, BlkTypeOK
    <2> QED  BY <2>1 DEF BootInv, Progress
  <1> QED  BY <1>1, Invariant, BootInvariant, PTL
=============================================================================
