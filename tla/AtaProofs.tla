------------------------------- MODULE AtaProofs -------------------------------
(***************************************************************************)
(* Proofs about the ATA PIO driver, for any buses, any devices on them,    *)
(* any size of the bus cache and any number of processors.                 *)
(***************************************************************************)
EXTENDS Ata, TLAPS

Requests == [bus : Bus, dev_num : DevNum, lba48 : BOOLEAN, src : Nat, n : Nat]
Infos == [io_port : Bus, sel_dev_num : DevNum, sel_data : Nat]
States == [st : {"idle", "bsy", "drq", "err"}, next : Nat, left : Nat]
Labels == {"idle", "get_sel", "get_cmd", "get_status", "get_poll", "id_sel", "id_cmd",
           "id_poll", "rd_sel", "rd_cmd", "rd_poll", "rd_ok", "wr"}

TypeOK ==
  /\ bus_cache \in Seq(Infos)
  /\ mutex \in k_mutex_t
  /\ drive_sel \in [Bus -> Nat]
  /\ hw \in [Attached -> States]
  /\ \A a \in Attached : a[1] \notin floating
  /\ found \subseteq Requests
  /\ pc \in [Cpu -> Labels]
  /\ DOMAIN req = Cpu
  /\ i \in [Cpu -> Nat]
  /\ DOMAIN dst = Cpu

(* One processor is in the driver, and it has the lock.                    *)
LockOK ==
  /\ \A c, d \in Cpu : pc[c] # "idle" /\ pc[d] # "idle" => c = d
  /\ \A c \in Cpu : pc[c] # "idle" => mutex = 1

(* Who is in the driver knows what it is there for; the sector loop starts *)
(* at 0.                                                                   *)
ReqOK ==
  \A c \in Cpu :
    /\ pc[c] \notin {"idle", "wr"} => req[c] \in Requests
    /\ pc[c] \in {"rd_sel", "rd_cmd", "rd_poll", "rd_ok"} => req[c].n \in 1 .. MAX_SECTORS
    /\ pc[c] \notin {"rd_poll", "rd_ok"} => i[c] = 0

Target(r) == <<r.bus, r.dev_num>>
Start(r) == IF r.lba48 THEN r.src ELSE r.src % LBA_LIMIT

(* A device that was asked for n sectors and gave i of them has n - i left,*)
(* the next of which is the one at the start address plus i.               *)
InStep(h, r, k) ==
  \/ k < r.n /\ h.st \in {"bsy", "drq"} /\ h.left = r.n - k /\ h.next = Start(r) + k
  \/ k < r.n /\ h.st = "err"
  \/ k = r.n /\ h.left = 0

(* Driver and device count the same sectors, and the last one the driver   *)
(* took is at the front of the caller's buffer.                            *)
PollOK ==
  \A c \in Cpu :
    LET r == req[c] IN
    pc[c] \in {"rd_poll", "rd_ok"} /\ r.n < MAX_SECTORS =>
      /\ i[c] <= r.n
      /\ pc[c] = "rd_ok" => i[c] = r.n
      /\ Target(r) \in Attached =>
           /\ InStep(hw[Target(r)], r, i[c])
           /\ i[c] >= 1 => dst[c] = <<r.bus, r.dev_num, Start(r) + i[c] - 1>>

IInv == TypeOK /\ LockOK /\ ReqOK /\ CacheHonest /\ ReadsReachDevice /\ PollOK
-----------------------------------------------------------------------------
(* The selection of a read has the device's number in bit 4.               *)
LEMMA ReadSelects ==
  ASSUME NEW r \in Requests
  PROVE  ReadSel(r) \in Nat /\ (ReadSel(r) \div 16) % 2 = r.dev_num
PROOF
  <1>1. r.dev_num \in {0, 1} /\ r.lba48 \in BOOLEAN
    BY DEF Requests, DevNum
  <1>2. CASE r.lba48
    BY <1>1, <1>2 DEF ReadSel
  <1>3. CASE ~r.lba48
    BY <1>1, <1>3 DEF ReadSel
  <1> QED  BY <1>2, <1>3

(* An address that fits the registers is not changed by them.              *)
LEMMA StartExact ==
  ASSUME NEW r \in Requests, r.n >= 1
  PROVE  Start(r) \in Nat /\ (Addressable(r) => Start(r) = r.src)
PROOF
  <1>1. \A a \in Nat, l \in Nat \ {0} : a % l \in Nat /\ (a < l => a % l = a)
    OBVIOUS
  <1>2. r.src \in Nat /\ r.n \in Nat /\ LBA_LIMIT \in Nat \ {0}
    BY AtaAssumption DEF Requests
  <1>3. r.src % LBA_LIMIT \in Nat /\ (r.src < LBA_LIMIT => r.src % LBA_LIMIT = r.src)
    BY <1>1, <1>2
  <1>4. ~r.lba48 /\ Addressable(r) => r.src < LBA_LIMIT
    BY <1>2 DEF Addressable
  <1> QED  BY <1>2, <1>3, <1>4 DEF Start

(* sel_drive leaves the bus selected as asked and the cache honest, on a   *)
(* hit, on a stale entry, on a new bus and on one the cache has no room    *)
(* for.                                                                    *)
LEMMA SelDrive ==
  ASSUME TypeOK, CacheHonest, NEW b \in Bus, NEW d \in DevNum, NEW data \in Nat,
         sel_drive(b, d, data)
  PROVE  /\ bus_cache' \in Seq(Infos) /\ drive_sel' \in [Bus -> Nat]
         /\ drive_sel'[b] = data
         /\ CacheHonest'
PROOF
  <1> DEFINE info == [io_port |-> b, sel_dev_num |-> d, sel_data |-> data]
  <1>1. info \in Infos /\ info.io_port = b /\ info.sel_data = data
    BY DEF Infos
  <1>2. bus_cache \in Seq(Infos) /\ drive_sel \in [Bus -> Nat]
    BY DEF TypeOK
  <1>3. CASE \E k \in CacheOf(b) : bus_cache[k] = info
    <2>1. UNCHANGED <<bus_cache, drive_sel>>
      BY <1>3 DEF sel_drive
    <2>2. PICK k \in DOMAIN bus_cache : bus_cache[k] = info
      BY <1>3 DEF CacheOf
    <2>3. drive_sel[b] = data
      BY <1>1, <2>2 DEF CacheHonest
    <2> QED  BY <1>2, <2>1, <2>3 DEF CacheHonest
  <1>4. CASE ~ \E k \in CacheOf(b) : bus_cache[k] = info
    <2>1. /\ drive_sel' = [drive_sel EXCEPT ![b] = data]
          /\ bus_cache' = IF CacheOf(b) # {}
                          THEN [k \in DOMAIN bus_cache |->
                                  IF k \in CacheOf(b) THEN info ELSE bus_cache[k]]
                          ELSE IF Len(bus_cache) < MAX_BUSES
                               THEN Append(bus_cache, info) ELSE bus_cache
      BY <1>4 DEF sel_drive
    <2>2. /\ drive_sel' \in [Bus -> Nat] /\ drive_sel'[b] = data
          /\ \A x \in Bus : x # b => drive_sel'[x] = drive_sel[x]
      BY <1>2, <2>1
    <2>3. \A k \in DOMAIN bus_cache : bus_cache[k] \in Infos /\ bus_cache[k].io_port \in Bus
      <3>1. \A k \in DOMAIN bus_cache : bus_cache[k] \in Infos
        BY <1>2
      <3> QED  BY <3>1 DEF Infos
    <2>4. CASE CacheOf(b) # {}
      <3>1. /\ DOMAIN bus_cache' = DOMAIN bus_cache
            /\ \A k \in DOMAIN bus_cache :
                 bus_cache'[k] = IF k \in CacheOf(b) THEN info ELSE bus_cache[k]
        BY <2>1, <2>4
      <3>2. bus_cache' \in Seq(Infos) /\ Len(bus_cache') = Len(bus_cache)
        BY <1>1, <1>2, <2>1, <2>3, <2>4
      <3>3. \A k \in DOMAIN bus_cache : bus_cache'[k].io_port = bus_cache[k].io_port
        BY <1>1, <3>1 DEF CacheOf
      <3>4. \A k \in DOMAIN bus_cache' : drive_sel'[bus_cache'[k].io_port] = bus_cache'[k].sel_data
        <4> SUFFICES ASSUME NEW k \in DOMAIN bus_cache
                     PROVE  drive_sel'[bus_cache'[k].io_port] = bus_cache'[k].sel_data
          BY <3>1
        <4>1. CASE k \in CacheOf(b)
          BY <1>1, <2>2, <3>1, <4>1
        <4>2. CASE k \notin CacheOf(b)
          BY <2>2, <2>3, <3>1, <4>2 DEF CacheOf, CacheHonest
        <4> QED  BY <4>1, <4>2
      <3>5. CacheHonest'
        BY <3>1, <3>2, <3>3, <3>4 DEF CacheHonest
      <3> QED  BY <2>2, <3>2, <3>5
    <2>5. CASE CacheOf(b) = {} /\ Len(bus_cache) < MAX_BUSES
      <3>1. bus_cache' = Append(bus_cache, info)
        BY <2>1, <2>5
      <3>2. /\ bus_cache' \in Seq(Infos) /\ Len(bus_cache') = Len(bus_cache) + 1
            /\ DOMAIN bus_cache' = DOMAIN bus_cache \cup {Len(bus_cache) + 1}
            /\ bus_cache'[Len(bus_cache) + 1] = info
            /\ \A k \in DOMAIN bus_cache : bus_cache'[k] = bus_cache[k]
        BY <1>1, <1>2, <3>1
      <3>3. \A k \in DOMAIN bus_cache : bus_cache[k].io_port # b
        BY <2>5 DEF CacheOf
      <3>4. Len(bus_cache') <= MAX_BUSES
        BY <1>2, <2>5, <3>2, AtaAssumption
      <3>5. \A k, l \in DOMAIN bus_cache' :
              bus_cache'[k].io_port = bus_cache'[l].io_port => k = l
        BY <1>1, <3>2, <3>3 DEF CacheHonest
      <3>6. \A k \in DOMAIN bus_cache' :
              drive_sel'[bus_cache'[k].io_port] = bus_cache'[k].sel_data
        BY <1>1, <2>2, <2>3, <3>2, <3>3 DEF CacheHonest
      <3> QED  BY <2>2, <3>2, <3>4, <3>5, <3>6 DEF CacheHonest
    <2>6. CASE CacheOf(b) = {} /\ ~(Len(bus_cache) < MAX_BUSES)
      <3>1. bus_cache' = bus_cache
        BY <2>1, <2>6
      <3>2. \A k \in DOMAIN bus_cache : bus_cache[k].io_port # b
        BY <2>6 DEF CacheOf
      <3>3. CacheHonest'
        BY <2>2, <2>3, <3>1, <3>2 DEF CacheHonest
      <3> QED  BY <1>2, <2>2, <3>1, <3>3
    <2> QED  BY <2>4, <2>5, <2>6
  <1> QED  BY <1>3, <1>4
-----------------------------------------------------------------------------
(* Before ata_pio_init nothing has been identified.                        *)
LEMMA InitInv == Init => IInv
PROOF
  <1> SUFFICES ASSUME Init PROVE IInv
    OBVIOUS
  <1>1. /\ bus_cache = <<>> /\ mutex = 0 /\ drive_sel \in [Bus -> {0, 16}]
        /\ hw = [a \in Attached |-> Idle]
        /\ floating \in SUBSET {b \in Bus : \A a \in Attached : a[1] # b}
        /\ found = {} /\ pc = [c \in Cpu |-> "idle"] /\ DOMAIN req = Cpu
        /\ i = [c \in Cpu |-> 0] /\ DOMAIN dst = Cpu
    BY DEF Init
  <1>2. Idle \in States
    BY DEF Idle, States
  <1>3. TypeOK
    <2>1. bus_cache \in Seq(Infos) /\ mutex \in k_mutex_t /\ found \subseteq Requests
      BY <1>1 DEF k_mutex_t
    <2>2. drive_sel \in [Bus -> Nat]
      BY <1>1
    <2>3. hw \in [Attached -> States]
      BY <1>1, <1>2
    <2>4. \A a \in Attached : a[1] \notin floating
      BY <1>1
    <2>5. pc \in [Cpu -> Labels] /\ i \in [Cpu -> Nat]
      BY <1>1 DEF Labels
    <2> QED  BY <1>1, <2>1, <2>2, <2>3, <2>4, <2>5 DEF TypeOK
  <1>4. \A c \in Cpu : pc[c] = "idle" /\ i[c] = 0
    BY <1>1
  <1>5. LockOK /\ ReqOK /\ ReadsReachDevice /\ PollOK
    BY <1>4 DEF LockOK, ReqOK, ReadsReachDevice, PollOK
  <1>6. CacheHonest
    BY <1>1, AtaAssumption DEF CacheHonest
  <1> QED  BY <1>3, <1>5, <1>6 DEF IInv

(* While a processor is in the driver the others are not.                  *)
LEMMA OthersIdle ==
  ASSUME LockOK, NEW c \in Cpu, pc[c] # "idle", NEW d \in Cpu, d # c
  PROVE  pc[d] = "idle"
PROOF
  BY DEF LockOK

(* Taking the lock to start a call of the driver.                          *)
LEMMA LockStep ==
  ASSUME IInv, NEW c \in Cpu, pc[c] = "idle", k_mutex_lock(mutex),
         NEW label \in {"get_sel", "id_sel", "rd_sel", "wr"}, Goto(c, label),
         DOMAIN req' = Cpu,
         label # "wr" => req'[c] \in Requests,
         label = "rd_sel" => req'[c].n \in 1 .. MAX_SECTORS,
         UNCHANGED <<bus_cache, hw_vars, found, i, dst>>
  PROVE  IInv'
PROOF
  <1>1. /\ mutex = 0 /\ mutex' = 1 /\ pc' = [pc EXCEPT ![c] = label]
        /\ UNCHANGED <<bus_cache, drive_sel, hw, floating, found, i, dst>>
    BY DEF k_mutex_lock, Goto, hw_vars
  <1>2. pc'[c] = label /\ \A d \in Cpu : d # c => pc'[d] = "idle"
    BY <1>1 DEF IInv, TypeOK, LockOK
  <1>3. TypeOK'
    BY <1>1 DEF IInv, TypeOK, Labels, k_mutex_t
  <1>4. LockOK'
    BY <1>1, <1>2 DEF LockOK
  <1>5. ReqOK'
    <2> SUFFICES ASSUME NEW d \in Cpu
                 PROVE  /\ pc'[d] \notin {"idle", "wr"} => req'[d] \in Requests
                        /\ pc'[d] \in {"rd_sel", "rd_cmd", "rd_poll", "rd_ok"}
                             => req'[d].n \in 1 .. MAX_SECTORS
                        /\ pc'[d] \notin {"rd_poll", "rd_ok"} => i'[d] = 0
      BY DEF ReqOK
    <2>1. i'[d] = 0
      BY <1>1, <1>2 DEF IInv, ReqOK, LockOK
    <2> QED  BY <1>2, <2>1
  <1>6. CacheHonest'
    BY <1>1 DEF IInv, CacheHonest
  <1>7. ReadsReachDevice' /\ PollOK'
    BY <1>2 DEF ReadsReachDevice, PollOK
  <1> QED  BY <1>3, <1>4, <1>5, <1>6, <1>7 DEF IInv

(* Leaving the driver: the lock is given back and nobody is in it.         *)
LEMMA LeaveStep ==
  ASSUME IInv, NEW c \in Cpu, pc[c] # "idle", Leave(c),
         hw' \in [Attached -> States], found' \subseteq Requests,
         UNCHANGED <<bus_cache, drive_sel, floating>>
  PROVE  IInv'
PROOF
  <1>1. /\ mutex' = 0 /\ pc' = [pc EXCEPT ![c] = "idle"] /\ i' = [i EXCEPT ![c] = 0]
        /\ DOMAIN req' = Cpu /\ DOMAIN dst' = Cpu
    BY DEF Leave, k_mutex_unlock, Goto, IInv, TypeOK
  <1>2. \A d \in Cpu : pc'[d] = "idle" /\ i'[d] = 0
    BY <1>1, OthersIdle DEF IInv, TypeOK, ReqOK
  <1>3. TypeOK'
    BY <1>1 DEF IInv, TypeOK, Labels, k_mutex_t
  <1>4. LockOK' /\ ReqOK' /\ ReadsReachDevice' /\ PollOK'
    BY <1>2 DEF LockOK, ReqOK, ReadsReachDevice, PollOK
  <1>5. CacheHonest'
    BY DEF IInv, CacheHonest
  <1> QED  BY <1>3, <1>4, <1>5 DEF IInv

(* A step inside the driver that ends before the sector loop and leaves    *)
(* its own call alone.                                                     *)
LEMMA EarlyStep ==
  ASSUME IInv, NEW c \in Cpu, pc[c] \notin {"idle", "wr", "rd_poll", "rd_ok"},
         NEW label \in Labels \ {"idle", "wr", "rd_poll", "rd_ok", "rd_cmd", "rd_sel"},
         Goto(c, label),
         UNCHANGED <<mutex, floating, found, req, i, dst>>,
         bus_cache' \in Seq(Infos), drive_sel' \in [Bus -> Nat], CacheHonest',
         hw' \in [Attached -> States]
  PROVE  IInv'
PROOF
  <1>1. pc' = [pc EXCEPT ![c] = label] /\ pc'[c] = label
    BY DEF Goto, IInv, TypeOK
  <1>2. \A d \in Cpu : d # c => pc'[d] = "idle" /\ pc[d] = "idle"
    BY <1>1, OthersIdle DEF IInv, TypeOK
  <1>3. TypeOK'
    BY <1>1 DEF IInv, TypeOK
  <1>4. LockOK'
    BY <1>1, <1>2 DEF IInv, LockOK
  <1>5. ReqOK'
    BY <1>1, <1>2 DEF IInv, ReqOK
  <1>6. ReadsReachDevice' /\ PollOK'
    BY <1>1, <1>2 DEF ReadsReachDevice, PollOK
  <1> QED  BY <1>3, <1>4, <1>5, <1>6 DEF IInv
(* A command keeps the devices well-formed.                                *)
LEMMA CommandType ==
  ASSUME TypeOK, NEW b, NEW lba \in Nat, NEW cnt \in Nat, Command(b, lba, cnt)
  PROVE  hw' \in [Attached -> States]
PROOF
  <1>1. [st |-> "bsy", next |-> lba, left |-> cnt] \in States
    BY DEF States
  <1> QED  BY <1>1 DEF TypeOK, Command

(* So does reading a block.                                                *)
LEMMA DrainedType ==
  ASSUME NEW h \in States
  PROVE  Drained(h) \in States
PROOF
  BY DEF States, Drained, Idle

(* A device that becomes ready or fails does so in step with the driver.   *)
LEMMA DeviceStep ==
  ASSUME IInv, NEW a \in Attached, Device(a)
  PROVE  IInv'
PROOF
  <1>1. /\ hw[a].st = "bsy"
        /\ \/ hw' = [hw EXCEPT ![a].st = "drq"]
           \/ hw' = [hw EXCEPT ![a] = [Idle EXCEPT !.st = "err"]]
        /\ UNCHANGED <<bus_cache, mutex, drive_sel, floating, found, pc, req, i, dst>>
    BY DEF Device, ready, fail
  <1>2. hw[a] \in States
    BY DEF IInv, TypeOK
  <1>3. /\ \A x \in Attached : x # a => hw'[x] = hw[x]
        /\ \/ hw'[a] = [hw[a] EXCEPT !.st = "drq"]
           \/ hw'[a] = [Idle EXCEPT !.st = "err"]
        /\ DOMAIN hw' = Attached
        /\ hw' = [x \in Attached |-> hw'[x]]
    BY <1>1 DEF IInv, TypeOK
  <1>4. hw'[a] \in States
    BY <1>2, <1>3 DEF States, Idle
  <1>5. hw' \in [Attached -> States]
    BY <1>3, <1>4 DEF IInv, TypeOK
  <1>6. TypeOK'
    BY <1>1, <1>5 DEF IInv, TypeOK
  <1>7. LockOK' /\ ReqOK' /\ CacheHonest'
    BY <1>1 DEF IInv, LockOK, ReqOK, CacheHonest
  <1>8. ReadsReachDevice'
    BY <1>1 DEF IInv, ReadsReachDevice, Selected
  <1>9. ASSUME NEW c \in Cpu, pc[c] \in {"rd_poll", "rd_ok"}, req[c].n < MAX_SECTORS,
               Target(req[c]) \in Attached
        PROVE  InStep(hw'[Target(req[c])], req[c], i[c])
    <2>1. InStep(hw[Target(req[c])], req[c], i[c])
      BY <1>9 DEF IInv, PollOK
    <2>2. CASE Target(req[c]) # a
      BY <1>3, <1>9, <2>1, <2>2
    <2>3. CASE Target(req[c]) = a
      <3>1. \/ /\ hw'[a].st = "drq" /\ hw'[a].left = hw[a].left
               /\ hw'[a].next = hw[a].next
            \/ hw'[a].st = "err" /\ hw'[a].left = 0
        BY <1>2, <1>3 DEF States, Idle
      <3> QED  BY <1>1, <2>1, <2>3, <3>1 DEF InStep
    <2> QED  BY <2>2, <2>3
  <1>10. PollOK'
    BY <1>1, <1>9 DEF IInv, PollOK
  <1> QED  BY <1>6, <1>7, <1>8, <1>10 DEF IInv

(* The selected device is asked for the sectors the driver will read.      *)
LEMMA ReadCommandStep ==
  ASSUME IInv, NEW c \in Cpu, rd_cmd(c)
  PROVE  IInv'
PROOF
  <1> DEFINE r == req[c]
             cnt == Wrapped(r.n)
             m == IF cnt = 0 THEN MAX_SECTORS ELSE cnt
  <1>1. /\ pc[c] = "rd_cmd" /\ pc' = [pc EXCEPT ![c] = "rd_poll"]
        /\ Command(r.bus, Start(r), m)
        /\ UNCHANGED <<bus_cache, mutex, drive_sel, floating, found, req, i, dst>>
    BY DEF rd_cmd, Goto, Start
  <1>2. r \in Requests /\ r.n \in 1 .. MAX_SECTORS /\ i[c] = 0
    BY <1>1 DEF IInv, ReqOK
  <1>3. Start(r) \in Nat
    BY <1>2, StartExact
  <1>4. m \in Nat /\ m = r.n
    BY <1>2, AtaAssumption DEF Wrapped
  <1>5. hw' \in [Attached -> States]
    BY <1>1, <1>3, <1>4, CommandType DEF IInv
  <1>6. pc'[c] = "rd_poll" /\ \A d \in Cpu : d # c => pc'[d] = "idle" /\ pc[d] = "idle"
    BY <1>1, OthersIdle DEF IInv, TypeOK
  <1>7. TypeOK'
    BY <1>1, <1>5 DEF IInv, TypeOK, Labels
  <1>8. LockOK' /\ ReqOK' /\ CacheHonest'
    BY <1>1, <1>6 DEF IInv, LockOK, ReqOK, CacheHonest
  <1>9. ReadsReachDevice'
    BY <1>1, <1>6 DEF IInv, ReadsReachDevice, Selected
  <1>10. ASSUME Target(r) \in Attached PROVE InStep(hw'[Target(r)], r, 0)
    <2>1. Selected(r.bus) = Target(r)
      BY <1>1 DEF IInv, ReadsReachDevice, Target
    <2>2. hw'[Target(r)] = [st |-> "bsy", next |-> Start(r), left |-> m]
      BY <1>1, <1>10, <2>1 DEF Command, IInv, TypeOK
    <2> QED  BY <1>2, <1>3, <1>4, <2>2 DEF InStep
  <1>11. PollOK'
    BY <1>1, <1>2, <1>6, <1>10, AtaAssumption DEF PollOK
  <1> QED  BY <1>7, <1>8, <1>9, <1>11 DEF IInv

(* One iteration of the sector loop takes the next sector of the device,   *)
(* and the device then has one less.                                       *)
LEMMA SectorStep ==
  ASSUME IInv, NEW c \in Cpu, rd_sector(c)
  PROVE  IInv'
PROOF
  <1> DEFINE r == req[c]
             who == Selected(r.bus)
  <1>1. /\ pc[c] = "rd_poll" /\ i[c] < Wrapped(r.n) /\ ~BSY(r.bus) /\ ~ERR(r.bus)
        /\ \/ /\ DRQ(r.bus)
              /\ dst' = [dst EXCEPT ![c] = <<who[1], who[2], hw[who].next>>]
              /\ hw' = [hw EXCEPT ![who] = Drained(@)]
           \/ ~DRQ(r.bus) /\ dst' = [dst EXCEPT ![c] = Garbage] /\ UNCHANGED hw
        /\ i' = [i EXCEPT ![c] = @ + 1]
        /\ UNCHANGED <<bus_cache, mutex, drive_sel, floating, found, pc, req>>
    BY DEF rd_sector
  <1>2. /\ r \in Requests /\ r.n \in 1 .. MAX_SECTORS /\ r.n \in Nat /\ i[c] \in Nat
        /\ MAX_SECTORS \in Nat
    <2>1. r \in Requests /\ r.n \in 1 .. MAX_SECTORS
      BY <1>1 DEF IInv, ReqOK
    <2>2. r.n \in Nat
      BY <2>1 DEF Requests
    <2>3. i[c] \in Nat /\ MAX_SECTORS \in Nat
      BY AtaAssumption DEF IInv, TypeOK
    <2> QED  BY <2>1, <2>2, <2>3
  <1>3. r.n < MAX_SECTORS /\ i[c] < r.n
    BY <1>1, <1>2 DEF Wrapped
  <1>4. who = Target(r)
    BY <1>1 DEF IInv, ReadsReachDevice, Target
  <1>5. hw' \in [Attached -> States]
    <2>1. CASE UNCHANGED hw
      BY <2>1 DEF IInv, TypeOK
    <2>2. CASE hw' = [hw EXCEPT ![who] = Drained(@)]
      <3>1. who \in Attached => Drained(hw[who]) \in States
        BY DrainedType DEF IInv, TypeOK
      <3> QED  BY <2>2, <3>1 DEF IInv, TypeOK
    <2> QED  BY <1>1, <2>1, <2>2
  <1>6. i' \in [Cpu -> Nat] /\ i'[c] = i[c] + 1 /\ DOMAIN dst' = Cpu
    BY <1>1, <1>2 DEF IInv, TypeOK
  <1>7. TypeOK'
    BY <1>1, <1>5, <1>6 DEF IInv, TypeOK
  <1>8. \A d \in Cpu : d # c => pc[d] = "idle" /\ i'[d] = i[d]
    BY <1>1, OthersIdle DEF IInv, TypeOK
  <1>9. LockOK' /\ ReqOK' /\ CacheHonest'
    BY <1>1, <1>8 DEF IInv, LockOK, ReqOK, CacheHonest
  <1>10. ReadsReachDevice'
    BY <1>1 DEF IInv, ReadsReachDevice, Selected
  <1>11. ASSUME Target(r) \in Attached
         PROVE  /\ InStep(hw'[Target(r)], r, i[c] + 1)
                /\ dst'[c] = <<r.bus, r.dev_num, Start(r) + i[c]>>
    <2> DEFINE h == hw[Target(r)]
    <2>1. InStep(h, r, i[c])
      BY <1>1, <1>3, <1>11 DEF IInv, PollOK
    <2>2. r.bus \notin floating
      BY <1>11 DEF IInv, TypeOK, Target
    <2>3. Status(r.bus) = h.st
      BY <1>4, <1>11, <2>2 DEF Status
    <2>4. /\ h \in States /\ h.st = "drq" /\ h.left = r.n - i[c]
          /\ h.next = Start(r) + i[c]
      <3>1. h \in States
        BY <1>11 DEF IInv, TypeOK
      <3>2. h.st # "bsy" /\ h.st # "err"
        BY <1>1, <2>3 DEF BSY, ERR
      <3> QED  BY <1>2, <1>3, <2>1, <3>1, <3>2 DEF InStep
    <2>5. DRQ(r.bus)
      BY <2>3, <2>4 DEF DRQ
    <2>6. /\ dst'[c] = <<r.bus, r.dev_num, h.next>>
          /\ hw'[Target(r)] = Drained(h)
      BY <1>1, <1>4, <1>11, <2>5 DEF IInv, TypeOK, Target
    <2>7. Start(r) \in Nat
      BY <1>2, StartExact
    <2> HIDE DEF h
    <2>8. InStep(Drained(h), r, i[c] + 1)
      <3>1. CASE r.n - i[c] = 1
        <4>1. Drained(h) = Idle
          BY <2>4, <3>1 DEF Drained
        <4> QED  BY <1>2, <3>1, <4>1 DEF InStep, Idle
      <3>2. CASE r.n - i[c] > 1
        <4>1. Drained(h) = [st |-> "bsy", next |-> h.next + 1, left |-> h.left - 1]
          BY <1>2, <2>4, <3>2 DEF Drained
        <4> QED  BY <1>2, <2>4, <2>7, <3>2, <4>1 DEF InStep
      <3> QED  BY <1>2, <1>3, <3>1, <3>2
    <2> QED  BY <2>4, <2>6, <2>8
  <1>12. PollOK'
    <2>1. i'[c] - 1 = i[c] /\ i'[c] <= r.n /\ pc[c] # "rd_ok"
      BY <1>1, <1>2, <1>3, <1>6
    <2>2. Start(r) \in Nat
      BY <1>2, StartExact
    <2>3. Target(r) \in Attached =>
            /\ InStep(hw'[Target(r)], r, i'[c])
            /\ dst'[c] = <<r.bus, r.dev_num, Start(r) + i'[c] - 1>>
      BY <1>2, <1>6, <1>11, <2>2
    <2> QED  BY <1>1, <1>8, <2>1, <2>3 DEF PollOK
  <1> QED  BY <1>7, <1>9, <1>10, <1>12 DEF IInv
(* sel_drive before a read: the device the read is for is selected.        *)
LEMMA ReadSelectStep ==
  ASSUME IInv, NEW c \in Cpu, rd_sel(c)
  PROVE  IInv'
PROOF
  <1>1. /\ pc[c] = "rd_sel" /\ pc' = [pc EXCEPT ![c] = "rd_cmd"]
        /\ sel_drive(req[c].bus, req[c].dev_num, ReadSel(req[c]))
        /\ UNCHANGED <<mutex, hw, floating, found, req, i, dst>>
    BY DEF rd_sel, Goto
  <1>2. /\ req[c] \in Requests /\ req[c].bus \in Bus /\ req[c].dev_num \in DevNum
    BY <1>1 DEF IInv, ReqOK, Requests
  <1>3. ReadSel(req[c]) \in Nat /\ (ReadSel(req[c]) \div 16) % 2 = req[c].dev_num
    BY <1>2, ReadSelects
  <1>4. /\ bus_cache' \in Seq(Infos) /\ drive_sel' \in [Bus -> Nat]
        /\ drive_sel'[req[c].bus] = ReadSel(req[c])
        /\ CacheHonest'
    BY <1>1, <1>2, <1>3, SelDrive DEF IInv
  <1>5. pc'[c] = "rd_cmd" /\ \A d \in Cpu : d # c => pc'[d] = "idle" /\ pc[d] = "idle"
    BY <1>1, OthersIdle DEF IInv, TypeOK
  <1>6. TypeOK'
    BY <1>1, <1>4 DEF IInv, TypeOK, Labels
  <1>7. LockOK' /\ ReqOK'
    BY <1>1, <1>5 DEF IInv, LockOK, ReqOK
  <1>8. ReadsReachDevice'
    BY <1>1, <1>3, <1>4, <1>5 DEF ReadsReachDevice, Selected
  <1>9. PollOK'
    BY <1>5 DEF PollOK
  <1> QED  BY <1>4, <1>6, <1>7, <1>8, <1>9 DEF IInv

(* The loop is over when all sectors have been taken.                      *)
LEMMA DoneStep ==
  ASSUME IInv, NEW c \in Cpu, rd_done(c)
  PROVE  IInv'
PROOF
  <1>1. /\ pc[c] = "rd_poll" /\ pc' = [pc EXCEPT ![c] = "rd_ok"]
        /\ i[c] >= Wrapped(req[c].n)
        /\ UNCHANGED <<bus_cache, mutex, drive_sel, hw, floating, found, req, i, dst>>
    BY DEF rd_done, Goto, hw_vars
  <1>2. pc'[c] = "rd_ok" /\ \A d \in Cpu : d # c => pc'[d] = "idle" /\ pc[d] = "idle"
    BY <1>1, OthersIdle DEF IInv, TypeOK
  <1>3. TypeOK'
    BY <1>1 DEF IInv, TypeOK, Labels
  <1>4. LockOK' /\ ReqOK' /\ CacheHonest'
    BY <1>1, <1>2 DEF IInv, LockOK, ReqOK, CacheHonest
  <1>5. ReadsReachDevice'
    BY <1>1, <1>2 DEF IInv, ReadsReachDevice, Selected
  <1>6. req[c].n < MAX_SECTORS => i[c] = req[c].n
    <2>1. req[c] \in Requests /\ i[c] \in Nat
      BY <1>1 DEF IInv, ReqOK, TypeOK
    <2>2. req[c].n \in Nat /\ MAX_SECTORS \in Nat
      BY <2>1, AtaAssumption DEF Requests
    <2>3. req[c].n < MAX_SECTORS => i[c] <= req[c].n
      BY <1>1 DEF IInv, PollOK
    <2> QED  BY <1>1, <2>1, <2>2, <2>3 DEF Wrapped
  <1>7. PollOK'
    BY <1>1, <1>2, <1>6 DEF IInv, PollOK
  <1> QED  BY <1>3, <1>4, <1>5, <1>7 DEF IInv

-----------------------------------------------------------------------------
(* Every step of the driver, of a device and of a caller keeps the         *)
(* invariant.                                                              *)
LEMMA StepInv == IInv /\ [Next]_vars => IInv'
PROOF
  <1> SUFFICES ASSUME IInv, [Next]_vars PROVE IInv'
    OBVIOUS
  <1>1. ASSUME NEW c \in Cpu, get_lock(c) PROVE IInv'
    <2>1. PICK b \in Bus, d \in DevNum :
            req' = [req EXCEPT ![c] = [NoReq EXCEPT !.bus = b, !.dev_num = d]]
      BY <1>1 DEF get_lock
    <2>2. DOMAIN req' = Cpu /\ req'[c] \in Requests
      BY <2>1 DEF IInv, TypeOK, NoReq, Requests
    <2> QED  BY <1>1, <2>2, LockStep DEF get_lock
  <1>2. ASSUME NEW c \in Cpu, id_lock(c) PROVE IInv'
    <2>1. DOMAIN req' = Cpu /\ req'[c] \in Requests
      BY <1>2 DEF id_lock, IInv, TypeOK
    <2> QED  BY <1>2, <2>1, LockStep DEF id_lock
  <1>3. ASSUME NEW c \in Cpu, rd_lock(c) PROVE IInv'
    <2>1. PICK dev \in found, lba \in Lbas, n \in Counts :
            /\ n \in 1 .. MAX_SECTORS
            /\ req' = [req EXCEPT ![c] = [dev EXCEPT !.src = lba, !.n = n]]
      BY <1>3 DEF rd_lock
    <2>2. dev \in Requests /\ lba \in Nat /\ n \in Nat
      BY AtaAssumption DEF IInv, TypeOK
    <2>3. [dev EXCEPT !.src = lba, !.n = n] \in Requests
          /\ [dev EXCEPT !.src = lba, !.n = n].n = n
      BY <2>2 DEF Requests
    <2>4. DOMAIN req' = Cpu /\ req'[c] \in Requests /\ req'[c].n \in 1 .. MAX_SECTORS
      BY <2>1, <2>3 DEF IInv, TypeOK
    <2> QED  BY <1>3, <2>4, LockStep DEF rd_lock
  <1>4. ASSUME NEW c \in Cpu, wr_lock(c) PROVE IInv'
    <2>1. DOMAIN req' = Cpu
      BY <1>4 DEF wr_lock, IInv, TypeOK
    <2> QED  BY <1>4, <2>1, LockStep DEF wr_lock
  <1>5. ASSUME NEW c \in Cpu, get_sel(c) PROVE IInv'
    <2>1. /\ pc[c] \in {"get_sel", "id_sel"}
          /\ sel_drive(req[c].bus, req[c].dev_num, IdentifySel(req[c].dev_num))
          /\ Goto(c, "get_cmd") \/ Goto(c, "id_cmd")
          /\ UNCHANGED <<mutex, hw, floating, found, req, i, dst>>
      BY <1>5 DEF get_sel
    <2>2. req[c].bus \in Bus /\ req[c].dev_num \in DevNum
      BY <2>1 DEF IInv, ReqOK, Requests
    <2>3. IdentifySel(req[c].dev_num) \in Nat
      BY <2>2 DEF IdentifySel, DevNum
    <2>4. bus_cache' \in Seq(Infos) /\ drive_sel' \in [Bus -> Nat] /\ CacheHonest'
      BY <2>1, <2>2, <2>3, SelDrive DEF IInv
    <2>5. hw' \in [Attached -> States]
      BY <2>1 DEF IInv, TypeOK
    <2> QED  BY <2>1, <2>4, <2>5, EarlyStep DEF Labels
  <1>6. ASSUME NEW c \in Cpu, get_cmd(c) PROVE IInv'
    <2>1. /\ pc[c] \in {"get_cmd", "id_cmd"}
          /\ Command(req[c].bus, 0, 1)
          /\ Goto(c, "get_status") \/ Goto(c, "id_poll")
          /\ UNCHANGED <<bus_cache, mutex, drive_sel, floating, found, req, i, dst>>
      BY <1>6 DEF get_cmd
    <2>2. hw' \in [Attached -> States]
      BY <2>1, CommandType DEF IInv
    <2>3. bus_cache' \in Seq(Infos) /\ drive_sel' \in [Bus -> Nat] /\ CacheHonest'
      BY <2>1 DEF IInv, TypeOK, CacheHonest
    <2> QED  BY <2>1, <2>2, <2>3, EarlyStep DEF Labels
  <1>7. ASSUME NEW c \in Cpu, get_status(c) PROVE IInv'
    <2>1. /\ pc[c] = "get_status" /\ Goto(c, "get_poll")
          /\ UNCHANGED <<bus_cache, mutex, drive_sel, hw, floating, found, req, i, dst>>
      BY <1>7 DEF get_status, hw_vars
    <2>2. /\ hw' \in [Attached -> States] /\ bus_cache' \in Seq(Infos)
          /\ drive_sel' \in [Bus -> Nat] /\ CacheHonest'
      BY <2>1 DEF IInv, TypeOK, CacheHonest
    <2> QED  BY <2>1, <2>2, EarlyStep DEF Labels
  <1>8. ASSUME NEW c \in Cpu,
               get_absent(c) \/ get_err(c) \/ rd_err(c) \/ rd_return(c) \/ wr_return(c)
        PROVE  IInv'
    <2>1. /\ pc[c] # "idle" /\ Leave(c)
          /\ UNCHANGED <<bus_cache, drive_sel, hw, floating, found>>
      BY <1>8 DEF get_absent, get_err, rd_err, rd_return, wr_return, hw_vars
    <2>2. hw' \in [Attached -> States] /\ found' \subseteq Requests
      BY <2>1 DEF IInv, TypeOK
    <2> QED  BY <2>1, <2>2, LeaveStep
  <1>9. ASSUME NEW c \in Cpu, get_id(c) PROVE IInv'
    <2> DEFINE who == Selected(req[c].bus)
    <2>1. /\ pc[c] \in {"get_poll", "id_poll"} /\ Leave(c)
          /\ hw' = [hw EXCEPT ![who] = Drained(@)]
          /\ \/ found' = found \cup {[req[c] EXCEPT !.lba48 = who \in Lba48]}
             \/ found' = found
          /\ UNCHANGED <<bus_cache, drive_sel, floating>>
      BY <1>9 DEF get_id
    <2>2. hw' \in [Attached -> States]
      <3>1. who \in Attached => Drained(hw[who]) \in States
        BY DrainedType DEF IInv, TypeOK
      <3> QED  BY <2>1, <3>1 DEF IInv, TypeOK
    <2>3. req[c] \in Requests
      BY <2>1 DEF IInv, ReqOK
    <2>4. [req[c] EXCEPT !.lba48 = who \in Lba48] \in Requests
      <3>1. \A x \in BOOLEAN : [req[c] EXCEPT !.lba48 = x] \in Requests
        BY <2>3 DEF Requests
      <3>2. (who \in Lba48) \in BOOLEAN
        OBVIOUS
      <3> QED  BY <3>1, <3>2, Zenon
    <2>5. found' \subseteq Requests
      BY <2>1, <2>4 DEF IInv, TypeOK
    <2> QED  BY <2>1, <2>2, <2>5, LeaveStep
  <1>10. CASE UNCHANGED vars
    <2>1. UNCHANGED <<bus_cache, mutex, drive_sel, hw, floating, found, pc, req, i, dst>>
      BY <1>10 DEF vars, hw_vars
    <2>2. TypeOK' /\ LockOK' /\ ReqOK' /\ CacheHonest'
      BY <2>1 DEF IInv, TypeOK, LockOK, ReqOK, CacheHonest
    <2>3. ReadsReachDevice' /\ PollOK'
      BY <2>1 DEF IInv, ReadsReachDevice, Selected, PollOK
    <2> QED  BY <2>2, <2>3 DEF IInv
  <1> QED
    BY <1>1, <1>2, <1>3, <1>4, <1>5, <1>6, <1>7, <1>8, <1>9, <1>10, DeviceStep,
       ReadCommandStep, SectorStep, ReadSelectStep, DoneStep
    DEF Next, Inside, Call, poll

-----------------------------------------------------------------------------
(* The inductive invariant holds in every state.                           *)
LEMMA Invariant == Spec => []IInv
PROOF
  BY InitInv, StepInv, PTL DEF Spec

(* sel_drive's cache never says a bus has something selected that was not  *)
(* the last thing written to it, holds no bus twice and stays within its   *)
(* MAX_BUSES entries.                                                      *)
THEOREM BusCacheHonest == Spec => []CacheHonest
PROOF
  <1>1. IInv => CacheHonest
    BY DEF IInv
  <1> QED  BY <1>1, Invariant, PTL

(* From the command of a read to its return, ata_pio_dev_rd talks to the   *)
(* device it was called for.                                               *)
THEOREM ReadsHitTheirDevice == Spec => []ReadsReachDevice
PROOF
  <1>1. IInv => ReadsReachDevice
    BY DEF IInv
  <1> QED  BY <1>1, Invariant, PTL

(* A read of fewer than MAX_SECTORS sectors that returns 0 leaves nothing  *)
(* in the device for the next command to trip over.                        *)
THEOREM NothingLeftOver == Spec => []TransferComplete
PROOF
  <1>1. IInv => TransferComplete
    <2> SUFFICES ASSUME IInv, NEW c \in Cpu, pc[c] = "rd_ok", req[c].n < MAX_SECTORS,
                        Selected(req[c].bus) \in Attached
                 PROVE  hw[Selected(req[c].bus)].left = 0
      BY DEF TransferComplete
    <2>1. Selected(req[c].bus) = Target(req[c])
      BY DEF IInv, ReadsReachDevice, Target
    <2>2. i[c] = req[c].n /\ InStep(hw[Target(req[c])], req[c], i[c])
      BY <2>1 DEF IInv, PollOK
    <2>3. req[c].n \in Nat
      BY DEF IInv, ReqOK, Requests
    <2> QED  BY <2>1, <2>2, <2>3 DEF InStep
  <1> QED  BY <1>1, Invariant, PTL

(* A read of one sector that returns 0 has left that sector, of that       *)
(* device, in the caller's buffer, whatever failed before and whatever the *)
(* other processors do.                                                    *)
THEOREM SectorReadRight == Spec => []SectorIsRight
PROOF
  <1>1. IInv => SectorIsRight
    <2> SUFFICES ASSUME IInv, NEW c \in Cpu, pc[c] = "rd_ok", req[c].n = 1,
                        Addressable(req[c]),
                        <<req[c].bus, req[c].dev_num>> \in Attached
                 PROVE  dst[c] = <<req[c].bus, req[c].dev_num, req[c].src>>
      BY DEF SectorIsRight
    <2>1. req[c] \in Requests /\ 1 < MAX_SECTORS
      BY AtaAssumption DEF IInv, ReqOK
    <2>2. Start(req[c]) = req[c].src /\ req[c].src \in Nat
      BY <2>1, StartExact DEF Requests
    <2>3. i[c] = 1 /\ dst[c] = <<req[c].bus, req[c].dev_num, Start(req[c]) + 1 - 1>>
      BY <2>1 DEF IInv, PollOK, Target
    <2> QED  BY <2>2, <2>3
  <1> QED  BY <1>1, Invariant, PTL
=============================================================================
