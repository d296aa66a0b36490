--------------------------------- MODULE Ata ---------------------------------
(***************************************************************************)
(* The ATA PIO driver (kernel/src/ata_pio.c) and the buses it drives.      *)
(*                                                                         *)
(* Two devices share a bus; bit 4 of the bus's drive/select register says  *)
(* which of them sees the commands and the status reads that follow.       *)
(* Selecting is slow, so sel_drive() remembers in bus_cache what it last   *)
(* wrote to the first MAX_BUSES buses and skips the write when it would    *)
(* repeat it.  One mutex covers the cache and all buses.                   *)
(*                                                                         *)
(* The devices are modelled from how the driver uses them: a command makes *)
(* the selected device busy, and busy ends with a block of data or with an *)
(* error.  A sector's contents are its own name, <<bus, device, lba>>.     *)
(***************************************************************************)
EXTENDS Integers, Sequences, Katomic

CONSTANTS
  Cpu,
  Bus,           \* io ports of the buses
  Attached,      \* devices that exist: set of <<bus, dev_num>>
  Lba48,         \* those that support 48-bit addresses
  MAX_BUSES,     \* buses that are cached
  MAX_SECTORS,   \* most sectors of one read (0x10000, 0x100 without LBA48)
  LBA_LIMIT,     \* 2^24: what the three address registers can hold
  Lbas, Counts   \* addresses and sector counts callers ask for

DevNum == 0 .. 1

ASSUME AtaAssumption ==
  /\ Attached \subseteq Bus \X DevNum /\ Lba48 \subseteq Attached
  /\ MAX_BUSES \in Nat \ {0} /\ MAX_SECTORS \in Nat \ {0, 1}
  /\ LBA_LIMIT \in Nat \ {0} /\ Lbas \subseteq Nat /\ Counts \subseteq Nat

VARIABLES
  bus_cache,   \* sequence of [io_port, sel_dev_num, sel_data]
  mutex,
  drive_sel,   \* the drive/select register of each bus
  hw,          \* what each device is doing
  floating,    \* empty buses that nothing drives: every status bit reads as set
  found,       \* devices ata_pio_dev_get has returned
  pc, req, i,  \* per processor: where it is, its call, sectors read so far
  dst          \* per processor: what the front of its buffer holds

hw_vars == <<drive_sel, hw, floating>>
vars == <<bus_cache, mutex, hw_vars, found, pc, req, i, dst>>

-----------------------------------------------------------------------------
(* The buses.                                                              *)

Selected(b) == <<b, (drive_sel[b] \div 16) % 2>>

Idle == [st |-> "idle", next |-> 0, left |-> 0]

(* Status of the selected device: BSY, DRQ, ERR, or none of them; an       *)
(* absent device reads as 0, a floating bus as everything.                 *)
Status(b) == IF b \in floating THEN "all"
             ELSE IF Selected(b) \in Attached THEN hw[Selected(b)].st
             ELSE "zero"

BSY(b) == Status(b) \in {"bsy", "all"}
DRQ(b) == Status(b) \in {"drq", "all"}
ERR(b) == Status(b) \in {"err", "all"}

(* A command for n blocks, starting at lba, reaches the selected device.   *)
Command(b, lba, n) ==
  IF Selected(b) \in Attached
  THEN hw' = [hw EXCEPT ![Selected(b)] = [st |-> "bsy", next |-> lba, left |-> n]]
  ELSE UNCHANGED hw

(* A block has been read from the data port.                               *)
Drained(h) ==
  IF h.left <= 1 THEN Idle ELSE [st |-> "bsy", next |-> h.next + 1, left |-> h.left - 1]

ready(a) ==
  /\ hw[a].st = "bsy"
  /\ hw' = [hw EXCEPT ![a].st = "drq"]
  /\ UNCHANGED <<bus_cache, mutex, drive_sel, floating, found, pc, req, i, dst>>

fail(a) ==
  /\ hw[a].st = "bsy"
  /\ hw' = [hw EXCEPT ![a] = [Idle EXCEPT !.st = "err"]]
  /\ UNCHANGED <<bus_cache, mutex, drive_sel, floating, found, pc, req, i, dst>>

-----------------------------------------------------------------------------
Garbage == <<>>

NoReq == [bus |-> CHOOSE b \in Bus : TRUE, dev_num |-> 0, lba48 |-> FALSE,
          src |-> 0, n |-> 0]

Init ==
  /\ bus_cache = <<>> /\ mutex = 0
  /\ drive_sel \in [Bus -> {0, 16}]
  /\ hw = [a \in Attached |-> Idle]
  /\ floating \in SUBSET {b \in Bus : \A a \in Attached : a[1] # b}
  /\ found = {}
  /\ pc = [c \in Cpu |-> "idle"]
  /\ req = [c \in Cpu |-> NoReq]
  /\ i = [c \in Cpu |-> 0]
  /\ dst = [c \in Cpu |-> Garbage]

Goto(c, label) == pc' = [pc EXCEPT ![c] = label]

(* sel_drive: a bus is looked up in the cache; a hit needs no write, an    *)
(* unknown bus is added while there is room.                               *)
CacheOf(b) == {k \in DOMAIN bus_cache : bus_cache[k].io_port = b}
sel_drive_by_number(b, d, data) ==
  LET info == [io_port |-> b, sel_dev_num |-> d, sel_data |-> data] IN
  IF \E k \in CacheOf(b) : bus_cache[k].sel_dev_num = d
  THEN UNCHANGED <<bus_cache, drive_sel>>
  ELSE /\ drive_sel' = [drive_sel EXCEPT ![b] = data]
       /\ bus_cache' = IF CacheOf(b) # {}
                       THEN [k \in DOMAIN bus_cache |->
                               IF k \in CacheOf(b) THEN info ELSE bus_cache[k]]
                       ELSE IF Len(bus_cache) < MAX_BUSES
                            THEN Append(bus_cache, info) ELSE bus_cache
sel_drive_forgetful(b, d, data) ==
  LET info == [io_port |-> b, sel_dev_num |-> d, sel_data |-> data] IN
  IF \E k \in CacheOf(b) : bus_cache[k] = info
  THEN UNCHANGED <<bus_cache, drive_sel>>
  ELSE /\ drive_sel' = [drive_sel EXCEPT ![b] = data]
       /\ bus_cache' = IF CacheOf(b) = {} /\ Len(bus_cache) < MAX_BUSES
                       THEN Append(bus_cache, info) ELSE bus_cache
sel_drive(b, d, data) ==
  LET info == [io_port |-> b, sel_dev_num |-> d, sel_data |-> data] IN
  IF \E k \in CacheOf(b) : bus_cache[k] = info
  THEN UNCHANGED <<bus_cache, drive_sel>>
  ELSE /\ drive_sel' = [drive_sel EXCEPT ![b] = data]
       /\ bus_cache' = IF CacheOf(b) # {}
                       THEN [k \in DOMAIN bus_cache |->
                               IF k \in CacheOf(b) THEN info ELSE bus_cache[k]]
                       ELSE IF Len(bus_cache) < MAX_BUSES
                            THEN Append(bus_cache, info) ELSE bus_cache

(* What is written to the select register: 0xa | dev_num for IDENTIFY,     *)
(* 0xe0 | dev_num << 4 and 0x40 | dev_num << 4 for the two reads.          *)
IdentifySel(d) == 10 + d
ReadSelMaster(r) == IF r.lba48 THEN 224 ELSE 64
ReadSel(r) == (IF r.lba48 THEN 224 ELSE 64) + 16 * r.dev_num

-----------------------------------------------------------------------------
(* ata_pio_dev_get and ata_pio_dev_id: select, IDENTIFY, poll, read.       *)

get_lock(c) ==
  /\ pc[c] = "idle"
  /\ \E b \in Bus, d \in DevNum : req' = [req EXCEPT ![c] = [NoReq EXCEPT !.bus = b, !.dev_num = d]]
  /\ k_mutex_lock(mutex)
  /\ Goto(c, "get_sel")
  /\ UNCHANGED <<bus_cache, hw_vars, found, i, dst>>

id_lock(c) ==
  /\ pc[c] = "idle"
  /\ \E dev \in found : req' = [req EXCEPT ![c] = dev]
  /\ k_mutex_lock(mutex)
  /\ Goto(c, "id_sel")
  /\ UNCHANGED <<bus_cache, hw_vars, found, i, dst>>

get_sel(c) ==
  /\ pc[c] \in {"get_sel", "id_sel"}
  /\ sel_drive(req[c].bus, req[c].dev_num, IdentifySel(req[c].dev_num))
  /\ Goto(c, IF pc[c] = "get_sel" THEN "get_cmd" ELSE "id_cmd")
  /\ UNCHANGED <<mutex, hw, floating, found, req, i, dst>>

get_cmd(c) ==
  /\ pc[c] \in {"get_cmd", "id_cmd"}
  /\ Command(req[c].bus, 0, 1)
  /\ Goto(c, IF pc[c] = "get_cmd" THEN "get_status" ELSE "id_poll")
  /\ UNCHANGED <<bus_cache, mutex, drive_sel, floating, found, req, i, dst>>

Leave(c) ==
  /\ k_mutex_unlock(mutex)
  /\ req' = [req EXCEPT ![c] = NoReq]
  /\ i' = [i EXCEPT ![c] = 0]
  /\ dst' = [dst EXCEPT ![c] = Garbage]
  /\ Goto(c, "idle")

(* Only ata_pio_dev_get gives up on a status of 0.                         *)
get_absent(c) ==
  /\ pc[c] = "get_status"
  /\ Status(req[c].bus) = "zero"
  /\ Leave(c)
  /\ UNCHANGED <<bus_cache, hw_vars, found>>

get_status(c) ==
  /\ pc[c] = "get_status"
  /\ Status(req[c].bus) # "zero"
  /\ Goto(c, "get_poll")
  /\ UNCHANGED <<bus_cache, mutex, hw_vars, found, req, i, dst>>

(* Both polling loops have ended: BSY clear, DRQ or ERR set.               *)
get_err(c) ==
  /\ pc[c] \in {"get_poll", "id_poll"}
  /\ ~BSY(req[c].bus) /\ ERR(req[c].bus)
  /\ Leave(c)
  /\ UNCHANGED <<bus_cache, hw_vars, found>>

(* The identification gives support and size; a device without LBA is      *)
(* refused.                                                                *)
get_id(c) ==
  LET who == Selected(req[c].bus) IN
  /\ pc[c] \in {"get_poll", "id_poll"}
  /\ ~BSY(req[c].bus) /\ DRQ(req[c].bus) /\ ~ERR(req[c].bus)
  /\ hw' = [hw EXCEPT ![who] = Drained(@)]
  /\ \/ /\ pc[c] = "get_poll"
        /\ found' = found \cup {[req[c] EXCEPT !.lba48 = who \in Lba48]}
     \/ UNCHANGED found
  /\ Leave(c)
  /\ UNCHANGED <<bus_cache, drive_sel, floating>>

-----------------------------------------------------------------------------
(* ata_pio_dev_rd.  A count of 0, or above MAX_SECTORS, returns at once    *)
(* without touching anything.  MAX_SECTORS is wrapped to 0, which is how   *)
(* the count register encodes it.                                          *)

Wrapped(n) == IF n = MAX_SECTORS THEN 0 ELSE n

rd_lock(c) ==
  /\ pc[c] = "idle"
  /\ \E dev \in found, lba \in Lbas, n \in Counts :
       /\ n \in 1 .. MAX_SECTORS
       /\ req' = [req EXCEPT ![c] = [dev EXCEPT !.src = lba, !.n = n]]
  /\ k_mutex_lock(mutex)
  /\ Goto(c, "rd_sel")
  /\ UNCHANGED <<bus_cache, hw_vars, found, i, dst>>

rd_sel(c) ==
  /\ pc[c] = "rd_sel"
  /\ sel_drive(req[c].bus, req[c].dev_num, ReadSel(req[c]))
  /\ Goto(c, "rd_cmd")
  /\ UNCHANGED <<mutex, hw, floating, found, req, i, dst>>

(* Count and address registers, then READ or READ EXT.  Without LBA48 only *)
(* 24 bits of the address are written.  The device counts 0 as MAX_SECTORS.*)
rd_cmd(c) ==
  LET r == req[c]
      lba == IF r.lba48 THEN r.src ELSE r.src % LBA_LIMIT
      cnt == Wrapped(r.n)
  IN
  /\ pc[c] = "rd_cmd"
  /\ Command(r.bus, lba, IF cnt = 0 THEN MAX_SECTORS ELSE cnt)
  /\ Goto(c, "rd_poll")
  /\ UNCHANGED <<bus_cache, mutex, drive_sel, floating, found, req, i, dst>>

(* One iteration of the loop: not busy, no error, the sector's words are   *)
(* read to the front of the caller's buffer.                               *)
rd_sector(c) ==
  LET b == req[c].bus
      who == Selected(b)
  IN
  /\ pc[c] = "rd_poll"
  /\ i[c] < Wrapped(req[c].n)
  /\ ~BSY(b) /\ ~ERR(b)
  /\ \/ /\ DRQ(b)
        /\ dst' = [dst EXCEPT ![c] = <<who[1], who[2], hw[who].next>>]
        /\ hw' = [hw EXCEPT ![who] = Drained(@)]
     \/ /\ ~DRQ(b)
        /\ dst' = [dst EXCEPT ![c] = Garbage]
        /\ UNCHANGED hw
  /\ i' = [i EXCEPT ![c] = @ + 1]
  /\ UNCHANGED <<bus_cache, mutex, drive_sel, floating, found, pc, req>>

rd_err(c) ==
  /\ pc[c] = "rd_poll"
  /\ i[c] < Wrapped(req[c].n)
  /\ ERR(req[c].bus)
  /\ Leave(c)
  /\ UNCHANGED <<bus_cache, hw_vars, found>>

(* The loop is over: about to unlock and return 0.                         *)
rd_done_early(c) ==
  /\ pc[c] = "rd_poll"
  /\ i[c] + 1 >= Wrapped(req[c].n)
  /\ Goto(c, "rd_ok")
  /\ UNCHANGED <<bus_cache, mutex, hw_vars, found, req, i, dst>>
rd_done(c) ==
  /\ pc[c] = "rd_poll"
  /\ i[c] >= Wrapped(req[c].n)
  /\ Goto(c, "rd_ok")
  /\ UNCHANGED <<bus_cache, mutex, hw_vars, found, req, i, dst>>

rd_return_locked(c) ==
  /\ pc[c] = "rd_ok"
  /\ UNCHANGED vars
rd_return(c) ==
  /\ pc[c] = "rd_ok"
  /\ Leave(c)
  /\ UNCHANGED <<bus_cache, hw_vars, found>>

-----------------------------------------------------------------------------
(* ata_pio_dev_wr is a stub: it takes the lock and gives it back.          *)
wr_lock(c) ==
  /\ pc[c] = "idle" /\ found # {}
  /\ k_mutex_lock(mutex)
  /\ Goto(c, "wr")
  /\ UNCHANGED <<bus_cache, hw_vars, found, req, i, dst>>

wr_return(c) ==
  /\ pc[c] = "wr"
  /\ Leave(c)
  /\ UNCHANGED <<bus_cache, hw_vars, found>>

-----------------------------------------------------------------------------
(* One more turn of a polling loop: the status says to read it again.      *)
poll(c) ==
  LET b == req[c].bus IN
  /\ \/ /\ pc[c] \in {"get_poll", "id_poll"}
        /\ BSY(b) \/ ~(DRQ(b) \/ ERR(b))
     \/ /\ pc[c] = "rd_poll" /\ i[c] < Wrapped(req[c].n)
        /\ BSY(b) /\ ~ERR(b)
  /\ UNCHANGED vars

Inside(c) ==
  \/ get_sel(c) \/ get_cmd(c) \/ get_absent(c) \/ get_status(c) \/ get_err(c)
  \/ get_id(c) \/ rd_sel(c) \/ rd_cmd(c) \/ rd_sector(c) \/ rd_err(c)
  \/ rd_done(c) \/ rd_return(c) \/ wr_return(c)

Call(c) == get_lock(c) \/ id_lock(c) \/ rd_lock(c) \/ wr_lock(c)

Device(a) == ready(a) \/ fail(a)

Next == (\E a \in Attached : Device(a)) \/ (\E c \in Cpu : Inside(c) \/ poll(c) \/ Call(c))

(* The processor keeps executing, and a device that was given a command    *)
(* answers it in the end, with data or with an error.                      *)
Fairness ==
  /\ \A c \in Cpu : WF_vars(Inside(c))
  /\ \A a \in Attached : WF_vars(Device(a))

Spec == Init /\ [][Next]_vars

FairSpec == Spec /\ Fairness

-----------------------------------------------------------------------------
(* The cache tells the truth: what it says was written last to a bus is    *)
(* what the bus's select register holds, across all devices, both kinds of *)
(* command and any number of callers; and it has room for what it holds,   *)
(* each bus once (sel_drive).                                              *)
CacheHonest ==
  /\ Len(bus_cache) <= MAX_BUSES
  /\ \A k, l \in DOMAIN bus_cache : bus_cache[k].io_port = bus_cache[l].io_port => k = l
  /\ \A k \in DOMAIN bus_cache : drive_sel[bus_cache[k].io_port] = bus_cache[k].sel_data

(* A read goes to the device it is for: from its command on, the device it *)
(* asked for is the selected one, also on buses beyond the cache, whatever *)
(* was selected before it.                                                 *)
ReadsReachDevice ==
  \A c \in Cpu : pc[c] \in {"rd_cmd", "rd_poll", "rd_ok"} =>
    Selected(req[c].bus) = <<req[c].bus, req[c].dev_num>>

Addressable(r) == r.lba48 \/ r.src + r.n <= LBA_LIMIT

(* A read of one sector that returns 0 leaves that very sector in the      *)
(* caller's buffer, no matter what failed or was read before and what      *)
(* other processors do, provided its address fits the registers.           *)
SectorIsRight ==
  \A c \in Cpu :
    /\ pc[c] = "rd_ok" /\ req[c].n = 1 /\ Addressable(req[c])
    /\ <<req[c].bus, req[c].dev_num>> \in Attached
    => dst[c] = <<req[c].bus, req[c].dev_num, req[c].src>>

(* A read that returns 0 has taken everything it asked the device for: the *)
(* next command finds the device without data left over.  The largest read *)
(* is left out: its count is wrapped to 0, and the loop takes nothing.     *)
TransferComplete ==
  \A c \in Cpu :
    pc[c] = "rd_ok" /\ req[c].n < MAX_SECTORS /\ Selected(req[c].bus) \in Attached
      => hw[Selected(req[c].bus)].left = 0

(* The lock is given back: every poll ends, given that devices answer; but *)
(* probing a bus that floats never ends, since its BSY bit stays set       *)
(* (ata_pio.c:105).                                                        *)
ProbesFloating == \E c \in Cpu : pc[c] = "get_poll" /\ req[c].bus \in floating
LockReleased == mutex = 1 ~> mutex = 0 \/ ProbesFloating
=============================================================================
