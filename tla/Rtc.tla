---------------------------------- MODULE Rtc ----------------------------------
(***************************************************************************)
(* The real-time clock (kernel/src/rtc.c).                                 *)
(*                                                                         *)
(* The clock chip counts by itself.  rtc_get_time reads its six registers  *)
(* one after the other, each through an index port and a data port that    *)
(* all processors share, after it has once seen the chip's "update in      *)
(* progress" flag clear.                                                   *)
(*                                                                         *)
(* The chip raises the flag 244 microseconds before it changes a register, *)
(* and a processor that saw the flag clear has read all six by then: the   *)
(* chip does not update while such a processor is still reading (hurry).   *)
(***************************************************************************)
EXTENDS Naturals, Sequences, Katomic

CONSTANTS
  Cpu,     \* processors that ask for the time
  BSP,     \* the one that boots the kernel
  Times,   \* the seconds the clock goes through, in order
  Modes    \* how the chip may be set: [bin, h24 : BOOLEAN]

UINT16_MAX == 65535
rtc_time == [sec : 0 .. 59, min : 0 .. 59, hour : 0 .. 23,
             day : 1 .. 31, month : 1 .. 12, year : 0 .. UINT16_MAX]

(* The kernel assumes the century.                                         *)
ASSUME RtcAssumption ==
  /\ BSP \in Cpu
  /\ Times \in Seq(rtc_time) /\ Times # <<>>
  /\ \A k \in DOMAIN Times : Times[k].year \in 2000 .. 2099
  /\ Modes \subseteq [bin : BOOLEAN, h24 : BOOLEAN]

VARIABLES
  now,         \* the chip's time, an index of Times
  mode,        \* the chip's status register B
  uip,         \* its update: "quiet", "announced" (flag set) or "done" (flag set)
  index,       \* the register that the index port selects
  mode_flags,  \* the kernel's copy of the mode
  boot_time,
  mutex,
  pc,          \* per processor
  todo,        \* per processor: the registers it still has to read
  raw,         \* per processor: what it has read
  ret,         \* per processor: what rtc_get_time returned last
  hurry,       \* processors that were reading when the flag was set
  since        \* history, per processor: the time when its call began

chip_vars == <<now, mode, uip, hurry>>
vars == <<chip_vars, index, mode_flags, boot_time, mutex, pc, todo, raw, ret, since>>

-----------------------------------------------------------------------------
(* The chip (external): how it stores a number and an hour.                *)
Bcd(n) == 16 * (n \div 10) + (n % 10)
Stored(n) == IF mode.bin THEN n ELSE Bcd(n)

Face(hour) == IF hour % 12 = 0 THEN 12 ELSE hour % 12

Register(t, reg) ==
  CASE reg = "R_HOUR" -> IF mode.h24 THEN Stored(t.hour)
                         ELSE Stored(Face(t.hour)) + (IF t.hour >= 12 THEN 128 ELSE 0)
    [] reg = "R_SEC" -> Stored(t.sec) [] reg = "R_MIN" -> Stored(t.min)
    [] reg = "R_DAY" -> Stored(t.day) [] reg = "R_MONTH" -> Stored(t.month)
    [] reg = "R_YEAR" -> Stored(t.year % 100)
CmosReg(reg) == Register(Times[now], reg)

TimeRegs == <<"R_SEC", "R_MIN", "R_HOUR", "R_DAY", "R_MONTH", "R_YEAR">>

-----------------------------------------------------------------------------
(* Converting what was read.                                               *)
FromBcd(b) == (b % 16) + 10 * (b \div 16)

Unpacked(b) == IF mode_flags.bin THEN b ELSE FromBcd(b)

(* The hour keeps its PM bit while it is unpacked.                         *)
UnpackedHour(b) ==
  IF mode_flags.bin THEN b ELSE FromBcd(b % 128) + 128 * (b \div 128)

Hour(b) ==
  LET hour == UnpackedHour(b) IN
  IF ~mode_flags.h24 /\ hour >= 128 THEN ((hour % 128) + 12) % 24 ELSE hour

ASSUME_CENTURY == 20

Converted(r) ==
  [sec |-> Unpacked(r["R_SEC"]), min |-> Unpacked(r["R_MIN"]), hour |-> Hour(r["R_HOUR"]),
   day |-> Unpacked(r["R_DAY"]), month |-> Unpacked(r["R_MONTH"]),
   year |-> Unpacked(r["R_YEAR"]) + 100 * ASSUME_CENTURY]

-----------------------------------------------------------------------------
Blank == [reg \in {TimeRegs[k] : k \in DOMAIN TimeRegs} |-> 0]
NoTime == [sec |-> 0, min |-> 0, hour |-> 0, day |-> 0, month |-> 0, year |-> 0]

Init ==
  /\ now = 1 /\ mode \in Modes /\ uip = "quiet" /\ hurry = {}
  /\ index = "R_STATUS_A" /\ mode_flags = [bin |-> FALSE, h24 |-> FALSE]
  /\ boot_time = NoTime /\ mutex = 0
  /\ pc = [c \in Cpu |-> IF c = BSP THEN "init" ELSE "off"]
  /\ todo = [c \in Cpu |-> <<>>] /\ raw = [c \in Cpu |-> Blank]
  /\ ret = [c \in Cpu |-> NoTime] /\ since = [c \in Cpu |-> 1]

Goto(c, where) == pc' = [pc EXCEPT ![c] = where]

(* rtc_init reads status B without the lock, ...                           *)
init_index ==
  /\ pc[BSP] = "init"
  /\ index' = "R_STATUS_B"
  /\ Goto(BSP, "init_data")
  /\ UNCHANGED <<chip_vars, mode_flags, boot_time, mutex, todo, raw, ret, since>>

(* ... keeps the two modes and asks for the time.                          *)
init_data ==
  /\ pc[BSP] = "init_data"
  /\ mode_flags' = mode
  /\ since' = [since EXCEPT ![BSP] = now]
  /\ Goto(BSP, "lock")
  /\ UNCHANGED <<chip_vars, index, boot_time, mutex, todo, raw, ret>>

(* rtc_get_time is called.                                                 *)
get_call(c) ==
  /\ pc[c] = "idle"
  /\ since' = [since EXCEPT ![c] = now]
  /\ Goto(c, "lock")
  /\ UNCHANGED <<chip_vars, index, mode_flags, boot_time, mutex, todo, raw, ret>>

get_lock(c) ==
  /\ pc[c] = "lock"
  /\ k_mutex_lock(mutex)
  /\ Goto(c, "uip")
  /\ UNCHANGED <<chip_vars, index, mode_flags, boot_time, todo, raw, ret, since>>

(* rd_cmos_reg(R_STATUS_A): write the index, then read the data; again     *)
(* until the flag is clear.                                                *)
uip_index(c) ==
  /\ pc[c] = "uip"
  /\ index' = "R_STATUS_A"
  /\ Goto(c, "uip_data")
  /\ UNCHANGED <<chip_vars, mode_flags, boot_time, mutex, todo, raw, ret, since>>

uip_data_unchecked(c) ==
  /\ pc[c] = "uip_data"
  /\ todo' = [todo EXCEPT ![c] = TimeRegs]
  /\ Goto(c, "rd")
  /\ UNCHANGED <<chip_vars, index, mode_flags, boot_time, mutex, raw, ret, since>>
uip_data(c) ==
  /\ pc[c] = "uip_data"
  /\ IF uip # "quiet"
     THEN Goto(c, "uip") /\ UNCHANGED todo
     ELSE Goto(c, "rd") /\ todo' = [todo EXCEPT ![c] = TimeRegs]
  /\ UNCHANGED <<chip_vars, index, mode_flags, boot_time, mutex, raw, ret, since>>

(* rd_cmos_reg of the next register.                                       *)
rd_index(c) ==
  /\ pc[c] = "rd" /\ todo[c] # <<>>
  /\ index' = Head(todo[c])
  /\ Goto(c, "rd_data")
  /\ UNCHANGED <<chip_vars, mode_flags, boot_time, mutex, todo, raw, ret, since>>

rd_data(c) ==
  /\ pc[c] = "rd_data"
  /\ raw' = [raw EXCEPT ![c][Head(todo[c])] = CmosReg(index)]
  /\ todo' = [todo EXCEPT ![c] = Tail(@)]
  /\ hurry' = IF Len(todo[c]) = 1 THEN hurry \ {c} ELSE hurry
  /\ Goto(c, "rd")
  /\ UNCHANGED <<now, mode, uip, index, mode_flags, boot_time, mutex, ret, since>>

(* Convert, unlock, return; rtc_init keeps the first result.               *)
get_return(c) ==
  /\ pc[c] = "rd" /\ todo[c] = <<>>
  /\ k_mutex_unlock(mutex)
  /\ ret' = [ret EXCEPT ![c] = Converted(raw[c])]
  /\ IF boot_time = NoTime
     THEN /\ boot_time' = Converted(raw[c])
          /\ pc' = [d \in Cpu |-> IF d = c THEN "ret" ELSE "idle"]
     ELSE Goto(c, "ret") /\ UNCHANGED boot_time
  /\ UNCHANGED <<chip_vars, index, mode_flags, todo, raw, since>>

(* The caller has the result.                                              *)
get_done(c) ==
  /\ pc[c] = "ret"
  /\ Goto(c, "idle")
  /\ UNCHANGED <<chip_vars, index, mode_flags, boot_time, mutex, todo, raw, ret, since>>

-----------------------------------------------------------------------------
(* The chip: raise the flag, count, clear the flag.                        *)
Reading == {c \in Cpu : pc[c] \in {"rd", "rd_data"} /\ todo[c] # <<>>}

announce ==
  /\ uip = "quiet" /\ now < Len(Times)
  /\ uip' = "announced"
  /\ hurry' = Reading
  /\ UNCHANGED <<now, mode, index, mode_flags, boot_time, mutex, pc, todo, raw, ret, since>>

update ==
  /\ uip = "announced" /\ hurry = {}
  /\ uip' = "done"
  /\ now' = now + 1
  /\ UNCHANGED <<mode, hurry, index, mode_flags, boot_time, mutex, pc, todo, raw, ret, since>>

finish ==
  /\ uip = "done"
  /\ uip' = "quiet"
  /\ UNCHANGED <<now, mode, hurry, index, mode_flags, boot_time, mutex, pc, todo, raw, ret, since>>

Step(c) ==
  \/ get_call(c) \/ get_lock(c) \/ uip_index(c) \/ uip_data(c)
  \/ rd_index(c) \/ rd_data(c) \/ get_return(c) \/ get_done(c)

Next == init_index \/ init_data \/ (\E c \in Cpu : Step(c)) \/ announce \/ update \/ finish

Spec == Init /\ [][Next]_vars

-----------------------------------------------------------------------------
(* In 12-hour mode the kernel takes noon for midnight and the other way    *)
(* round: the hour is converted "if PM bit set", 12 AM included.           *)
Readable(k) == mode.h24 \/ Times[k].hour % 12 # 0

(* What rtc_get_time returns was the time of day at one instant of the     *)
(* call: never the minute before with the second after, never another      *)
(* processor's register.                                                   *)
TimeIsOne ==
  \A c \in Cpu :
    pc[c] = "ret" /\ (\A k \in since[c] .. now : Readable(k)) =>
      \E k \in since[c] .. now : ret[c] = Times[k]
=============================================================================
