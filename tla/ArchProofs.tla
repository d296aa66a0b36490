------------------------------- MODULE ArchProofs ------------------------------
(***************************************************************************)
(* Proofs about the processor's surroundings.  About the real-time clock,  *)
(* for any processors, any mode of the chip and any seconds it goes        *)
(* through; and about interrupts, exceptions and system calls, for any     *)
(* vectors, lines, spurious interrupts and selections.                     *)
(***************************************************************************)
EXTENDS Rtc, Isr, SequenceTheorems, TLAPS

Regs == {TimeRegs[j] : j \in 1 .. 6}

(* The registers left to read when the first i have been read.             *)
Left(i) == [j \in 1 .. 6 - i |-> TimeRegs[i + j]]

TypeOK ==
  /\ now \in 1 .. Len(Times) /\ mode \in Modes
  /\ uip \in {"quiet", "announced", "done"} /\ uip = "announced" => now < Len(Times)
  /\ DOMAIN pc = Cpu /\ DOMAIN todo = Cpu /\ DOMAIN ret = Cpu /\ DOMAIN raw = Cpu
  /\ \A c \in Cpu : pc[c] \in {"off", "init", "init_data", "idle", "lock", "uip",
                              "uip_data", "rd", "rd_data", "ret"}
  /\ \A c \in Cpu : DOMAIN raw[c] = Regs
  /\ DOMAIN since = Cpu /\ \A c \in Cpu : since[c] \in 1 .. now

(* Until rtc_init has the time only the boot processor runs, and it knows  *)
(* the chip's mode before anybody reads.                                   *)
BootOK ==
  /\ boot_time = NoTime => \A c \in Cpu : c # BSP => pc[c] = "off"
  /\ boot_time # NoTime => \A c \in Cpu : pc[c] \notin {"off", "init", "init_data"}
  /\ boot_time = NoTime => pc[BSP] \notin {"off", "idle", "ret"}
  /\ pc[BSP] \notin {"init", "init_data"} => mode_flags = mode

Inside(c) == pc[c] \in {"uip", "uip_data", "rd", "rd_data"}

(* The lock keeps the two ports to one processor.                          *)
LockOK ==
  /\ \A c \in Cpu : Inside(c) => mutex = 1
  /\ \A c, d \in Cpu : Inside(c) /\ Inside(d) => c = d
  /\ \A c \in Cpu : pc[c] = "rd_data" => todo[c] # <<>> /\ index = Head(todo[c])

(* The chip does not count while a processor is reading.                   *)
HurryOK ==
  \A c \in Reading : uip # "done" /\ (uip = "announced" => c \in hurry)

(* The registers read so far, and all of them, are those of one second.    *)
SameSecond(c, i, k) ==
  \A j \in 1 .. i : raw[c][TimeRegs[j]] = Register(Times[k], TimeRegs[j])
ReadSoFar(c, i) ==
  /\ todo[c] = Left(i)
  /\ i < 6 => SameSecond(c, i, now)
  /\ i = 6 => \E k \in since[c] .. now : SameSecond(c, 6, k)
ReadOf(c) == pc[c] \in {"rd", "rd_data"} => \E i \in 0 .. 6 : ReadSoFar(c, i)
ReadingOK == \A c \in Cpu : ReadOf(c)

ReturnOf(c) ==
  pc[c] = "ret" /\ (\A k \in since[c] .. now : Readable(k)) =>
    \E k \in since[c] .. now : ret[c] = Times[k]

IInv == TypeOK /\ BootOK /\ LockOK /\ HurryOK /\ ReadingOK /\ TimeIsOne

-----------------------------------------------------------------------------
(* The registers left to read, one after the other.                        *)
LEMMA LeftStep ==
  /\ Left(0) = TimeRegs /\ Left(6) = <<>>
  /\ \A i \in 0 .. 5 :
       /\ Left(i) # <<>> /\ Head(Left(i)) = TimeRegs[i + 1]
       /\ Tail(Left(i)) = Left(i + 1) /\ Len(Left(i)) = 6 - i
<1>1. Left(0) = TimeRegs
  BY DEF Left, TimeRegs
<1>2. Left(6) = <<>>
  BY DEF Left
<1>3. ASSUME NEW i \in 0 .. 5
      PROVE  /\ Left(i) # <<>> /\ Head(Left(i)) = TimeRegs[i + 1]
             /\ Tail(Left(i)) = Left(i + 1) /\ Len(Left(i)) = 6 - i
  <2>1. Left(i) \in Seq(Regs) /\ Len(Left(i)) = 6 - i
    <3>1. 6 - i \in Nat /\ \A j \in 1 .. 6 - i : TimeRegs[i + j] \in Regs
      BY DEF Regs
    <3> QED
      BY <3>1 DEF Left
  <2>2. Left(i) # <<>>
    BY <2>1
  <2>3. Head(Left(i)) = TimeRegs[i + 1]
    BY <2>1, <2>2 DEF Left
  <2>4. Tail(Left(i)) = Left(i + 1)
    <3>1. /\ Tail(Left(i)) \in Seq(Regs) /\ Len(Tail(Left(i))) = (6 - i) - 1
          /\ \A j \in 1 .. Len(Tail(Left(i))) : Tail(Left(i))[j] = Left(i)[j + 1]
      BY <2>1, <2>2, HeadTailProperties
    <3>2. 6 - (i + 1) = (6 - i) - 1 /\ 6 - (i + 1) \in Nat
      OBVIOUS
    <3>3. Left(i + 1) \in Seq(Regs) /\ Len(Left(i + 1)) = (6 - i) - 1
      <4>1. \A j \in 1 .. 6 - (i + 1) : TimeRegs[(i + 1) + j] \in Regs
        BY DEF Regs
      <4> QED
        BY <3>2, <4>1 DEF Left
    <3>4. \A j \in 1 .. (6 - i) - 1 : Left(i)[j + 1] = Left(i + 1)[j]
      BY DEF Left
    <3> QED
      BY <3>1, <3>3, <3>4, SeqEqual
  <2> QED
    BY <2>1, <2>2, <2>3, <2>4
<1> QED
  BY <1>1, <1>2, <1>3

(* Nothing is left when all six have been read, and not before.            *)
LEMMA LeftEmpty == \A i \in 0 .. 6 : Left(i) = <<>> <=> i = 6
<1>1. Left(6) = <<>> /\ \A i \in 0 .. 5 : Left(i) # <<>>
  BY LeftStep
<1>2. \A i \in 0 .. 6 : i = 6 \/ i \in 0 .. 5
  OBVIOUS
<1> QED
  BY <1>1, <1>2

(* Unpacking undoes the chip's packing of numbers below 100.               *)
LEMMA Unpacks ==
  ASSUME mode_flags = mode, NEW n \in 0 .. 99
  PROVE  Unpacked(Stored(n)) = n /\ Stored(n) \in Nat
<1>1. Bcd(n) \in Nat /\ FromBcd(Bcd(n)) = n
  BY DEF Bcd, FromBcd
<1> QED
  BY <1>1 DEF Unpacked, Stored

(* The fields of a time.                                                   *)
LEMMA Fields ==
  ASSUME NEW S1, NEW S2, NEW S3, NEW S4, NEW S5, NEW S6,
         NEW t \in [sec : S1, min : S2, hour : S3, day : S4, month : S5, year : S6]
  PROVE  /\ t.sec \in S1 /\ t.min \in S2 /\ t.hour \in S3
         /\ t.day \in S4 /\ t.month \in S5 /\ t.year \in S6
         /\ t = [sec |-> t.sec, min |-> t.min, hour |-> t.hour,
                 day |-> t.day, month |-> t.month, year |-> t.year]
  OBVIOUS

(* Their ranges.                                                           *)
LEMMA TimeFields ==
  ASSUME NEW t \in rtc_time
  PROVE  /\ t.sec \in 0 .. 59 /\ t.min \in 0 .. 59 /\ t.hour \in 0 .. 23
         /\ t.day \in 1 .. 31 /\ t.month \in 1 .. 12 /\ t.year \in 0 .. UINT16_MAX
         /\ t = [sec |-> t.sec, min |-> t.min, hour |-> t.hour,
                 day |-> t.day, month |-> t.month, year |-> t.year]
<1>1. t \in [sec : 0 .. 59, min : 0 .. 59, hour : 0 .. 23,
             day : 1 .. 31, month : 1 .. 12, year : 0 .. UINT16_MAX]
  BY Zenon DEF rtc_time
<1> QED
  BY <1>1, Fields, Zenon

(* The hour comes out right, but for the first hour of each half of a day  *)
(* in 12-hour mode.                                                        *)
LEMMA HourRight ==
  ASSUME mode_flags = mode, NEW t \in rtc_time, mode.h24 \/ t.hour % 12 # 0
  PROVE  Hour(Register(t, "R_HOUR")) = t.hour
<1>1. t.hour \in 0 .. 23
  BY TimeFields
<1>2. CASE mode.h24
  <2>1. Register(t, "R_HOUR") = Stored(t.hour)
    BY <1>2 DEF Register
  <2>2. CASE mode.bin
    BY <1>1, <1>2, <2>1, <2>2 DEF Hour, UnpackedHour, Stored
  <2>3. CASE ~mode.bin
    <3>1. Hour(Register(t, "R_HOUR")) = FromBcd(Bcd(t.hour) % 128) + 128 * (Bcd(t.hour) \div 128)
      BY <1>2, <2>1, <2>3 DEF Hour, UnpackedHour, Stored
    <3>2. Bcd(t.hour) \in 0 .. 127 /\ FromBcd(Bcd(t.hour)) = t.hour
      BY <1>1 DEF Bcd, FromBcd
    <3>3. (Bcd(t.hour) % 128) = Bcd(t.hour) /\ (Bcd(t.hour) \div 128) = 0
      BY <3>2
    <3> QED
      BY <1>1, <3>1, <3>2, <3>3
  <2> QED
    BY <2>2, <2>3
<1>3. CASE ~mode.h24 /\ t.hour < 12
  <2>1. Register(t, "R_HOUR") = Stored(t.hour) /\ t.hour \in 1 .. 11
    <3>1. t.hour \in 1 .. 11 /\ Face(t.hour) = t.hour
      BY <1>1, <1>3 DEF Face
    <3>2. Register(t, "R_HOUR") = Stored(t.hour) + 0
      BY <1>1, <1>3, <3>1 DEF Register
    <3>3. Stored(t.hour) \in Nat
      BY <3>1, Unpacks
    <3> QED
      BY <3>1, <3>2, <3>3
  <2>2. CASE mode.bin
    BY <1>3, <2>1, <2>2 DEF Hour, UnpackedHour, Stored
  <2>3. CASE ~mode.bin
    <3>1. UnpackedHour(Register(t, "R_HOUR"))
            = FromBcd(Bcd(t.hour) % 128) + 128 * (Bcd(t.hour) \div 128)
      BY <2>1, <2>3 DEF UnpackedHour, Stored
    <3>2. Bcd(t.hour) \in 0 .. 127 /\ FromBcd(Bcd(t.hour)) = t.hour
      BY <1>1 DEF Bcd, FromBcd
    <3>3. (Bcd(t.hour) % 128) = Bcd(t.hour) /\ (Bcd(t.hour) \div 128) = 0
      BY <3>2
    <3>4. UnpackedHour(Register(t, "R_HOUR")) = t.hour
      BY <1>1, <3>1, <3>2, <3>3
    <3> QED
      BY <1>1, <3>4 DEF Hour
  <2> QED
    BY <2>2, <2>3
<1>4. CASE ~mode.h24 /\ ~(t.hour < 12)
  <2> DEFINE h == t.hour - 12
  <2>1. h \in 1 .. 11 /\ Face(t.hour) = h /\ t.hour = h + 12
    BY <1>1, <1>4 DEF Face
  <2>2. Register(t, "R_HOUR") = Stored(h) + 128
    BY <1>1, <1>4, <2>1 DEF Register
  <2> HIDE DEF h
  <2>3. UnpackedHour(Register(t, "R_HOUR")) = h + 128
    <3>1. CASE mode.bin
      BY <2>1, <2>2, <3>1 DEF UnpackedHour, Stored
    <3>2. CASE ~mode.bin
      <4>1. UnpackedHour(Register(t, "R_HOUR"))
              = FromBcd((Bcd(h) + 128) % 128) + 128 * ((Bcd(h) + 128) \div 128)
        BY <2>2, <3>2 DEF UnpackedHour, Stored
      <4>2. Bcd(h) \in 0 .. 127 /\ FromBcd(Bcd(h)) = h
        BY <2>1 DEF Bcd, FromBcd
      <4>3. ((Bcd(h) + 128) % 128) = Bcd(h) /\ ((Bcd(h) + 128) \div 128) = 1
        BY <4>2
      <4> QED
        BY <2>1, <4>1, <4>2, <4>3
    <3> QED
      BY <3>1, <3>2
  <2>4. Hour(Register(t, "R_HOUR")) = (((h + 128) % 128) + 12) % 24
    BY <1>4, <2>1, <2>3 DEF Hour
  <2>5. ((h + 128) % 128) = h /\ ((h + 12) % 24) = h + 12
    BY <2>1
  <2> QED
    BY <2>1, <2>4, <2>5
<1> QED
  BY <1>2, <1>3, <1>4

(* The year in its century.                                                *)
LEMMA TwoDigits ==
  ASSUME NEW n \in 2000 .. 2099
  PROVE  \E y \in 0 .. 99 : y = (n % 100) /\ y + 2000 = n
<1>1. (n % 100) \in 0 .. 99 /\ (n % 100) + 2000 = n
  OBVIOUS
<1> QED
  BY <1>1

(* No second the clock goes through is the empty time.                     *)
LEMMA YearNotZero ==
  ASSUME NEW k \in 1 .. Len(Times)
  PROVE  Times[k].year # 0
<1>0. Times[k].year \in 2000 .. 2099
  <2>1. k \in DOMAIN Times
    BY RtcAssumption
  <2> QED
    BY <2>1, RtcAssumption
<1>1. PICK n \in 2000 .. 2099 : n = Times[k].year
  BY <1>0
<1>2. n # 0
  OBVIOUS
<1> QED
  BY <1>1, <1>2

(* All six registers of one second convert to that second.                 *)
LEMMA ConvertsBack ==
  ASSUME mode_flags = mode, NEW k \in 1 .. Len(Times), NEW r, DOMAIN r = Regs,
         \A j \in 1 .. 6 : r[TimeRegs[j]] = Register(Times[k], TimeRegs[j])
  PROVE  /\ Converted(r).year = Times[k].year
         /\ Readable(k) => Converted(r) = Times[k]
<1> DEFINE t == Times[k]
<1>1. t \in rtc_time /\ t.year \in 2000 .. 2099
  BY RtcAssumption
<1> HIDE DEF t
<1>2. /\ t.sec \in 0 .. 59 /\ t.min \in 0 .. 59 /\ t.hour \in 0 .. 23
      /\ t.day \in 1 .. 31 /\ t.month \in 1 .. 12
      /\ t = [sec |-> t.sec, min |-> t.min, hour |-> t.hour,
              day |-> t.day, month |-> t.month, year |-> t.year]
  BY <1>1, TimeFields
<1>3. /\ r["R_SEC"] = Register(t, "R_SEC") /\ r["R_MIN"] = Register(t, "R_MIN")
      /\ r["R_HOUR"] = Register(t, "R_HOUR") /\ r["R_DAY"] = Register(t, "R_DAY")
      /\ r["R_MONTH"] = Register(t, "R_MONTH") /\ r["R_YEAR"] = Register(t, "R_YEAR")
  BY DEF TimeRegs, t
<1>4. /\ r["R_SEC"] = Stored(t.sec) /\ r["R_MIN"] = Stored(t.min)
      /\ r["R_DAY"] = Stored(t.day) /\ r["R_MONTH"] = Stored(t.month)
      /\ r["R_YEAR"] = Stored(t.year % 100)
  BY <1>3 DEF Register
<1>5. /\ Unpacked(r["R_SEC"]) = t.sec /\ Unpacked(r["R_MIN"]) = t.min
      /\ Unpacked(r["R_DAY"]) = t.day /\ Unpacked(r["R_MONTH"]) = t.month
  <2>1. {t.sec, t.min, t.day, t.month} \subseteq 0 .. 99
    BY <1>2
  <2>2. \A n \in 0 .. 99 : Unpacked(Stored(n)) = n
    BY Unpacks
  <2> QED
    BY <1>4, <2>1, <2>2
<1>6. Unpacked(r["R_YEAR"]) + 100 * ASSUME_CENTURY = t.year
  <2>1. \E y \in 0 .. 99 : r["R_YEAR"] = Stored(y) /\ t.year = y + 2000
    <3>1. PICK n \in 2000 .. 2099 : n = t.year
      BY <1>1
    <3>2. PICK y \in 0 .. 99 : y = (n % 100) /\ y + 2000 = n
      BY TwoDigits
    <3>3. r["R_YEAR"] = Stored(n % 100)
      BY <1>4, <3>1
    <3>4. r["R_YEAR"] = Stored(y)
      BY <3>2, <3>3
    <3>5. t.year = y + 2000
      BY <3>1, <3>2
    <3> QED
      BY <3>4, <3>5
  <2>2. PICK y \in 0 .. 99 : r["R_YEAR"] = Stored(y) /\ t.year = y + 2000
    BY <2>1
  <2>3. Unpacked(Stored(y)) = y
    BY Unpacks
  <2> QED
    BY <2>2, <2>3 DEF ASSUME_CENTURY
<1>7. Converted(r).year = t.year
  BY <1>6 DEF Converted
<1>8. ASSUME Readable(k) PROVE Converted(r) = t
  <2>1. Hour(r["R_HOUR"]) = t.hour
    BY <1>1, <1>3, <1>8, HourRight DEF Readable, t
  <2> QED
    BY <1>2, <1>5, <1>6, <2>1 DEF Converted
<1> QED
  BY <1>7, <1>8 DEF t

-----------------------------------------------------------------------------
(* A step that leaves a processor and the clock alone.                     *)
LEMMA Same ==
  ASSUME NEW d \in Cpu, UNCHANGED <<now, mode>>,
         pc'[d] = pc[d], raw'[d] = raw[d], todo'[d] = todo[d], since'[d] = since[d],
         ret'[d] = ret[d]
  PROVE  (ReadOf(d) => ReadOf(d)') /\ (ReturnOf(d) => ReturnOf(d)')
<1>1. \A t, reg : Register(t, reg)' = Register(t, reg)
  BY DEF Register, Stored
<1>2. \A i \in 0 .. 6 : ReadSoFar(d, i) => ReadSoFar(d, i)'
  BY <1>1 DEF ReadSoFar, SameSecond
<1> QED
  BY <1>2 DEF ReadOf, ReturnOf, Readable

(* The chip's start, the kernel's, and nobody reading.                     *)
LEMMA InitInv == Init => IInv
<1> SUFFICES ASSUME Init PROVE IInv
  OBVIOUS
<1>1. Len(Times) \in Nat /\ 1 <= Len(Times) /\ BSP \in Cpu
  BY RtcAssumption
<1>2. TypeOK
  <2>1. DOMAIN Blank = Regs
    BY DEF Blank, Regs, TimeRegs
  <2> QED
    BY <1>1, <2>1 DEF Init, TypeOK
<1>3. BootOK /\ LockOK
  BY <1>1 DEF Init, BootOK, LockOK, Inside
<1>4. HurryOK /\ ReadingOK /\ TimeIsOne
  BY DEF Init, HurryOK, Reading, ReadingOK, ReadOf, TimeIsOne
<1> QED
  BY <1>2, <1>3, <1>4 DEF IInv

(* What follows of a step of processor c, when it leaves the others, the   *)
(* time and the mode alone.                                                *)
LEMMA OneSteps ==
  ASSUME IInv, NEW c \in Cpu, UNCHANGED <<now, mode>>,
         \A d \in Cpu \ {c} : /\ pc'[d] = pc[d] /\ raw'[d] = raw[d]
                              /\ todo'[d] = todo[d] /\ since'[d] = since[d]
                              /\ ret'[d] = ret[d],
         ReadOf(c)', ReturnOf(c)'
  PROVE  ReadingOK' /\ TimeIsOne'
<1>1. ASSUME NEW d \in Cpu \ {c} PROVE ReadOf(d)' /\ ReturnOf(d)'
  <2>1. ReadOf(d) /\ ReturnOf(d)
    BY DEF IInv, ReadingOK, TimeIsOne, ReturnOf
  <2> QED
    BY <2>1, Same
<1> QED
  BY <1>1 DEF ReadingOK, TimeIsOne, ReturnOf

(* A step of processor c outside the reading, and before it.               *)
LEMMA QuietStep ==
  ASSUME IInv, NEW c \in Cpu, UNCHANGED <<now, mode, uip, hurry, raw, todo, ret>>,
         pc' = [pc EXCEPT ![c] = pc'[c]],
         DOMAIN since' = Cpu, \A d \in Cpu \ {c} : since'[d] = since[d],
         since'[c] \in 1 .. now,
         pc'[c] \in {"init_data", "idle", "lock", "uip", "uip_data"}
  PROVE  TypeOK' /\ HurryOK' /\ ReadingOK' /\ TimeIsOne'
<1>1. \A d \in Cpu \ {c} : /\ pc'[d] = pc[d] /\ raw'[d] = raw[d] /\ todo'[d] = todo[d]
                           /\ since'[d] = since[d] /\ ret'[d] = ret[d]
  BY DEF IInv, TypeOK
<1>2. TypeOK'
  BY <1>1 DEF IInv, TypeOK
<1>3. HurryOK'
  BY <1>1 DEF IInv, HurryOK, Reading
<1>4. ReadOf(c)' /\ ReturnOf(c)'
  BY DEF ReadOf, ReturnOf
<1> QED
  BY <1>1, <1>2, <1>3, <1>4, OneSteps

(* rtc_init's two steps.                                                   *)
LEMMA InitSteps ==
  ASSUME IInv, init_index \/ init_data
  PROVE  IInv'
<1>1. BSP \in Cpu /\ DOMAIN pc = Cpu /\ DOMAIN since = Cpu /\ Len(Times) \in Nat
  BY RtcAssumption DEF IInv, TypeOK
<1>2. boot_time = NoTime /\ \A c \in Cpu : c # BSP => pc[c] = "off"
  BY <1>1 DEF IInv, BootOK, init_index, init_data
<1>3. CASE init_index
  <2>1. TypeOK' /\ HurryOK' /\ ReadingOK' /\ TimeIsOne'
    <3>1. /\ since'[BSP] \in 1 .. now /\ DOMAIN since' = Cpu
          /\ \A d \in Cpu \ {BSP} : since'[d] = since[d]
      BY <1>1, <1>3 DEF IInv, TypeOK, init_index
    <3>2. pc'[BSP] = "init_data" /\ pc' = [pc EXCEPT ![BSP] = pc'[BSP]]
      BY <1>1, <1>3 DEF init_index, Goto
    <3> QED
      BY <1>1, <1>3, <3>1, <3>2, QuietStep DEF init_index, chip_vars
  <2>2. BootOK' /\ LockOK'
    BY <1>1, <1>2, <1>3 DEF init_index, Goto, BootOK, LockOK, Inside, IInv
  <2> QED
    BY <2>1, <2>2 DEF IInv
<1>4. CASE init_data
  <2>1. TypeOK' /\ HurryOK' /\ ReadingOK' /\ TimeIsOne'
    <3>1. /\ since'[BSP] \in 1 .. now /\ DOMAIN since' = Cpu
          /\ \A d \in Cpu \ {BSP} : since'[d] = since[d]
      BY <1>1, <1>4 DEF IInv, TypeOK, init_data
    <3>2. pc'[BSP] = "lock" /\ pc' = [pc EXCEPT ![BSP] = pc'[BSP]]
      BY <1>1, <1>4 DEF init_data, Goto
    <3> QED
      BY <1>1, <1>4, <3>1, <3>2, QuietStep DEF init_data, chip_vars
  <2>2. BootOK' /\ LockOK'
    BY <1>1, <1>2, <1>4 DEF init_data, Goto, BootOK, LockOK, Inside, IInv, chip_vars
  <2> QED
    BY <2>1, <2>2 DEF IInv
<1> QED
  BY <1>3, <1>4

(* The call, the lock, the index of status A, and the caller's return.     *)
LEMMA OuterSteps ==
  ASSUME IInv, NEW c \in Cpu, get_call(c) \/ get_lock(c) \/ uip_index(c) \/ get_done(c)
  PROVE  IInv'
<1>1. /\ BSP \in Cpu /\ DOMAIN pc = Cpu /\ DOMAIN since = Cpu /\ Len(Times) \in Nat
      /\ since[c] \in 1 .. now /\ now \in 1 .. now
  BY RtcAssumption DEF IInv, TypeOK
<1>2. /\ pc'[c] \in {"idle", "lock", "uip", "uip_data"} /\ pc' = [pc EXCEPT ![c] = pc'[c]]
      /\ pc[c] \in {"idle", "lock", "uip", "ret"}
  BY <1>1 DEF get_call, get_lock, uip_index, get_done, Goto
<1>3. /\ since'[c] \in 1 .. now /\ DOMAIN since' = Cpu
      /\ \A d \in Cpu \ {c} : since'[d] = since[d]
  BY <1>1 DEF get_call, get_lock, uip_index, get_done
<1>4. TypeOK' /\ HurryOK' /\ ReadingOK' /\ TimeIsOne'
  BY <1>2, <1>3, QuietStep DEF get_call, get_lock, uip_index, get_done, chip_vars
<1>5. BootOK'
  BY <1>1, <1>2 DEF IInv, BootOK, get_call, get_lock, uip_index, get_done, chip_vars, Goto
<1>6. LockOK'
  <2>1. CASE get_lock(c)
    <3>1. \A d \in Cpu : ~Inside(d)
      BY <2>1 DEF IInv, LockOK, get_lock, k_mutex_lock
    <3> QED
      BY <1>1, <2>1, <3>1 DEF LockOK, Inside, get_lock, k_mutex_lock, Goto
  <2>2. CASE uip_index(c)
    <3>1. \A d \in Cpu : Inside(d) => d = c
      BY <2>2 DEF IInv, LockOK, uip_index, Inside
    <3> QED
      BY <1>1, <2>2, <3>1 DEF IInv, LockOK, Inside, uip_index, Goto
  <2>3. CASE get_call(c) \/ get_done(c)
    BY <1>1, <2>3 DEF IInv, LockOK, Inside, get_call, get_done, Goto
  <2> QED
    BY <2>1, <2>2, <2>3
<1> QED
  BY <1>4, <1>5, <1>6 DEF IInv

(* Inside the lock there is one processor.                                 *)
LEMMA OnlyOne ==
  ASSUME IInv, NEW c \in Cpu, Inside(c)
  PROVE  mutex = 1 /\ \A d \in Cpu : Inside(d) => d = c
  BY DEF IInv, LockOK

(* The flag is seen clear, and reading begins; or it is not.               *)
LEMMA UipStep ==
  ASSUME IInv, NEW c \in Cpu, uip_data(c)
  PROVE  IInv'
<1>1. /\ DOMAIN pc = Cpu /\ DOMAIN todo = Cpu /\ UNCHANGED <<now, mode, uip, hurry>>
      /\ Inside(c) /\ BSP \in Cpu
  BY RtcAssumption DEF IInv, TypeOK, uip_data, Inside, chip_vars
<1>2. /\ pc'[c] \in {"uip", "rd"} /\ pc' = [pc EXCEPT ![c] = pc'[c]]
      /\ \A d \in Cpu \ {c} : pc'[d] = pc[d] /\ todo'[d] = todo[d]
      /\ DOMAIN todo' = Cpu
  BY <1>1 DEF uip_data, Goto
<1>3. pc'[c] = "rd" => uip = "quiet" /\ todo'[c] = Left(0)
  BY <1>1, LeftStep DEF uip_data, Goto
<1>4. TypeOK'
  BY <1>1, <1>2 DEF IInv, TypeOK, uip_data
<1>5. BootOK'
  BY <1>1, <1>2 DEF IInv, BootOK, uip_data
<1>6. LockOK'
  <2>1. \A d \in Cpu : Inside(d) => d = c
    BY <1>1, OnlyOne
  <2>2. \A d \in Cpu : Inside(d)' => d = c
    BY <1>2, <2>1 DEF Inside
  <2>3. mutex' = 1
    BY <1>1, OnlyOne DEF uip_data
  <2>4. \A d \in Cpu : pc'[d] # "rd_data"
    BY <1>2, <2>2 DEF Inside
  <2> QED
    BY <2>2, <2>3, <2>4 DEF LockOK
<1>7. HurryOK'
  BY <1>1, <1>2, <1>3 DEF IInv, HurryOK, Reading
<1>8. ReadOf(c)' /\ ReturnOf(c)'
  <2>1. pc'[c] = "rd" => ReadSoFar(c, 0)'
    BY <1>3 DEF ReadSoFar, SameSecond
  <2> QED
    BY <1>2, <2>1 DEF ReadOf, ReturnOf
<1>9. ReadingOK' /\ TimeIsOne'
  <2>1. UNCHANGED <<raw, since, ret>>
    BY DEF uip_data
  <2> QED
    BY <1>1, <1>2, <1>8, <2>1, OneSteps
<1> QED
  BY <1>4, <1>5, <1>6, <1>7, <1>9 DEF IInv

(* The index of the next register.                                         *)
LEMMA IndexStep ==
  ASSUME IInv, NEW c \in Cpu, rd_index(c)
  PROVE  IInv'
<1>1. /\ DOMAIN pc = Cpu /\ UNCHANGED <<now, mode, uip, hurry, todo, raw, since, ret>>
      /\ Inside(c) /\ BSP \in Cpu /\ pc[c] = "rd" /\ todo[c] # <<>>
  BY RtcAssumption DEF IInv, TypeOK, rd_index, Inside, chip_vars
<1>2. /\ pc'[c] = "rd_data" /\ pc' = [pc EXCEPT ![c] = "rd_data"]
      /\ \A d \in Cpu \ {c} : pc'[d] = pc[d]
  BY <1>1 DEF rd_index, Goto
<1>3. TypeOK'
  BY <1>1, <1>2 DEF IInv, TypeOK
<1>4. BootOK'
  BY <1>1, <1>2 DEF IInv, BootOK, rd_index
<1>5. LockOK'
  <2>1. \A d \in Cpu : Inside(d) => d = c
    BY <1>1, OnlyOne
  <2>2. \A d \in Cpu : Inside(d)' => d = c
    BY <1>2, <2>1 DEF Inside
  <2>3. mutex' = 1
    BY <1>1, OnlyOne DEF rd_index
  <2>4. \A d \in Cpu : pc'[d] = "rd_data" => d = c
    BY <2>2 DEF Inside
  <2>5. index' = Head(todo[c])
    BY DEF rd_index
  <2> QED
    BY <1>1, <2>2, <2>3, <2>4, <2>5 DEF LockOK
<1>6. HurryOK'
  BY <1>1, <1>2 DEF IInv, HurryOK, Reading
<1>7. ReadOf(c)' /\ ReturnOf(c)'
  <2>1. \A t, reg : Register(t, reg)' = Register(t, reg)
    BY <1>1 DEF Register, Stored
  <2>2. PICK i \in 0 .. 6 : ReadSoFar(c, i)
    BY <1>1 DEF IInv, ReadingOK, ReadOf
  <2>3. ReadSoFar(c, i)'
    BY <1>1, <2>1, <2>2 DEF ReadSoFar, SameSecond
  <2> QED
    BY <1>2, <2>3 DEF ReadOf, ReturnOf
<1>8. ReadingOK' /\ TimeIsOne'
  BY <1>1, <1>2, <1>7, OneSteps
<1> QED
  BY <1>3, <1>4, <1>5, <1>6, <1>8 DEF IInv

(* A register is read: the one that was asked for, of the current second.  *)
LEMMA DataStep ==
  ASSUME IInv, NEW c \in Cpu, rd_data(c)
  PROVE  IInv'
<1>1. /\ DOMAIN pc = Cpu /\ DOMAIN todo = Cpu /\ DOMAIN raw = Cpu
      /\ DOMAIN raw[c] = Regs /\ UNCHANGED <<now, mode, uip, since, ret>>
      /\ Inside(c) /\ BSP \in Cpu /\ pc[c] = "rd_data"
  BY RtcAssumption DEF IInv, TypeOK, rd_data, Inside
<1>2. /\ pc'[c] = "rd" /\ pc' = [pc EXCEPT ![c] = "rd"]
      /\ \A d \in Cpu \ {c} : pc'[d] = pc[d] /\ todo'[d] = todo[d] /\ raw'[d] = raw[d]
      /\ DOMAIN todo' = Cpu /\ DOMAIN raw' = Cpu
  BY <1>1 DEF rd_data, Goto
<1>3. todo[c] # <<>> /\ index = Head(todo[c])
  BY <1>1 DEF IInv, LockOK
<1>4. PICK i \in 0 .. 6 : ReadSoFar(c, i)
  BY <1>1 DEF IInv, ReadingOK, ReadOf
<1>5. i \in 0 .. 5 /\ todo[c] = Left(i) /\ SameSecond(c, i, now)
  <2>1. todo[c] = Left(i) /\ (i < 6 => SameSecond(c, i, now))
    BY <1>4 DEF ReadSoFar
  <2>2. i \in 0 .. 5
    BY <1>3, <2>1, LeftEmpty
  <2> QED
    BY <2>1, <2>2
<1>6. /\ Head(todo[c]) = TimeRegs[i + 1] /\ todo'[c] = Left(i + 1)
      /\ Len(todo[c]) = 6 - i /\ i + 1 \in 1 .. 6
  <2>1. todo'[c] = Tail(todo[c])
    BY <1>1 DEF rd_data
  <2>2. /\ Head(Left(i)) = TimeRegs[i + 1] /\ Tail(Left(i)) = Left(i + 1)
        /\ Len(Left(i)) = 6 - i
    BY <1>5, LeftStep
  <2> QED
    BY <1>5, <2>1, <2>2
<1>7. raw'[c] = [raw[c] EXCEPT ![TimeRegs[i + 1]] = Register(Times[now], TimeRegs[i + 1])]
  BY <1>1, <1>3, <1>6 DEF rd_data, CmosReg
<1>8. TimeRegs[i + 1] \in Regs
  BY <1>6 DEF Regs
<1>9. \A d \in Cpu : Inside(d) => d = c
  BY <1>1, OnlyOne
<1>10. TypeOK'
  BY <1>1, <1>2, <1>7 DEF IInv, TypeOK
<1>11. BootOK'
  BY <1>1, <1>2 DEF IInv, BootOK, rd_data
<1>12. LockOK'
  <2>1. \A d \in Cpu : Inside(d)' => d = c
    BY <1>2, <1>9 DEF Inside
  <2>2. mutex' = 1
    BY <1>1, OnlyOne DEF rd_data
  <2>3. \A d \in Cpu : pc'[d] # "rd_data"
    BY <1>2, <1>9 DEF Inside
  <2> QED
    BY <2>1, <2>2, <2>3 DEF LockOK
<1>13. HurryOK'
  <2> SUFFICES ASSUME NEW d \in Reading' PROVE uip # "done" /\ (uip = "announced" => d \in hurry')
    BY <1>1 DEF HurryOK
  <2>1. d = c /\ todo'[c] # <<>>
    BY <1>2, <1>9 DEF Reading, Inside
  <2>2. i # 5
    BY <1>6, <2>1, LeftStep
  <2>3. hurry' = hurry
    BY <1>5, <1>6, <2>2 DEF rd_data
  <2>4. c \in Reading
    BY <1>1, <1>3 DEF Reading
  <2> QED
    BY <2>1, <2>3, <2>4 DEF IInv, HurryOK
<1>14. ReadOf(c)' /\ ReturnOf(c)'
  <2>1. \A t, reg : Register(t, reg)' = Register(t, reg)
    BY <1>1 DEF Register, Stored
  <2>2. \A j \in 1 .. i + 1 : raw'[c][TimeRegs[j]] = Register(Times[now], TimeRegs[j])
    <3> SUFFICES ASSUME NEW j \in 1 .. i + 1
                 PROVE  raw'[c][TimeRegs[j]] = Register(Times[now], TimeRegs[j])
      OBVIOUS
    <3>1. TimeRegs[j] \in Regs
      BY <1>5 DEF Regs
    <3>2. CASE TimeRegs[j] = TimeRegs[i + 1]
      BY <1>1, <1>7, <3>1, <3>2
    <3>3. CASE TimeRegs[j] # TimeRegs[i + 1]
      <4>1. j \in 1 .. i
        BY <1>5, <3>3
      <4>2. raw[c][TimeRegs[j]] = Register(Times[now], TimeRegs[j])
        BY <1>5, <4>1 DEF SameSecond
      <4> QED
        BY <1>1, <1>7, <3>1, <3>3, <4>2
    <3> QED
      BY <3>2, <3>3
  <2>3. SameSecond(c, i + 1, now)'
    BY <1>1, <2>1, <2>2 DEF SameSecond
  <2>4. now \in since[c] .. now
    BY <1>1, RtcAssumption DEF IInv, TypeOK
  <2>5. i + 1 = 6 => \E k \in since'[c] .. now' : SameSecond(c, 6, k)'
    BY <1>1, <2>3, <2>4 DEF SameSecond
  <2>6. ReadSoFar(c, i + 1)'
    BY <1>6, <2>3, <2>5 DEF ReadSoFar
  <2>7. i + 1 \in 0 .. 6
    BY <1>6
  <2> QED
    BY <1>2, <2>6, <2>7 DEF ReadOf, ReturnOf
<1>15. ReadingOK' /\ TimeIsOne'
  BY <1>1, <1>2, <1>14, OneSteps
<1> QED
  BY <1>10, <1>11, <1>12, <1>13, <1>15 DEF IInv

(* The six registers are converted; the first result starts the other      *)
(* processors.                                                             *)
LEMMA ReturnStep ==
  ASSUME IInv, NEW c \in Cpu, get_return(c)
  PROVE  IInv'
<1>1. /\ DOMAIN pc = Cpu /\ DOMAIN ret = Cpu /\ DOMAIN raw[c] = Regs
      /\ UNCHANGED <<now, mode, uip, hurry, mode_flags, todo, raw, since>>
      /\ Inside(c) /\ BSP \in Cpu /\ pc[c] = "rd" /\ todo[c] = <<>>
  BY RtcAssumption DEF IInv, TypeOK, get_return, Inside, chip_vars
<1>2. \A d \in Cpu : Inside(d) => d = c
  BY <1>1, OnlyOne
<1>3. PICK i \in 0 .. 6 : ReadSoFar(c, i)
  BY <1>1 DEF IInv, ReadingOK, ReadOf
<1>4. i = 6
  BY <1>1, <1>3, LeftEmpty DEF ReadSoFar
<1>5. PICK k \in since[c] .. now : SameSecond(c, 6, k)
  BY <1>3, <1>4 DEF ReadSoFar
<1>6. k \in 1 .. Len(Times)
  BY <1>1, RtcAssumption DEF IInv, TypeOK
<1>7. mode_flags = mode
  BY <1>1 DEF IInv, BootOK
<1>8. Converted(raw[c]).year = Times[k].year /\ (Readable(k) => Converted(raw[c]) = Times[k])
  BY <1>1, <1>5, <1>6, <1>7, ConvertsBack DEF SameSecond
<1>9. Converted(raw[c]) # NoTime
  <2>1. Times[k].year # 0
    BY <1>6, YearNotZero
  <2>2. NoTime.year = 0
    BY DEF NoTime
  <2> QED
    BY <1>8, <2>1, <2>2
<1>10. /\ pc'[c] = "ret" /\ DOMAIN pc' = Cpu /\ boot_time' # NoTime
       /\ ret'[c] = Converted(raw[c]) /\ DOMAIN ret' = Cpu
       /\ \A d \in Cpu \ {c} : ret'[d] = ret[d] /\ pc'[d] \in {pc[d], "idle"}
       /\ \A d \in Cpu \ {c} : boot_time # NoTime => pc'[d] = pc[d]
       /\ \A d \in Cpu \ {c} : boot_time = NoTime => pc'[d] = "idle"
  BY <1>1, <1>9 DEF get_return, Goto
<1>11. TypeOK'
  BY <1>1, <1>10 DEF IInv, TypeOK
<1>12. BootOK'
  BY <1>1, <1>7, <1>10 DEF IInv, BootOK
<1>13. LockOK'
  BY <1>2, <1>10 DEF LockOK, Inside
<1>14. HurryOK'
  BY <1>2, <1>10 DEF HurryOK, Reading, Inside
<1>15. ASSUME NEW d \in Cpu PROVE ReadOf(d)' /\ ReturnOf(d)'
  <2>1. CASE d = c
    <3>1. \A m : Readable(m)' <=> Readable(m)
      BY <1>1 DEF Readable
    <3> QED
      BY <1>1, <1>5, <1>8, <1>10, <2>1, <3>1 DEF ReadOf, ReturnOf
  <2>2. CASE d # c /\ pc'[d] = "idle"
    BY <2>2 DEF ReadOf, ReturnOf
  <2>3. CASE d # c /\ pc'[d] = pc[d]
    <3>1. ReadOf(d) /\ ReturnOf(d)
      BY DEF IInv, ReadingOK, TimeIsOne, ReturnOf
    <3> QED
      BY <1>1, <1>10, <2>3, <3>1, Same
  <2> QED
    BY <1>10, <2>1, <2>2, <2>3
<1>16. ReadingOK' /\ TimeIsOne'
  BY <1>15 DEF ReadingOK, TimeIsOne, ReturnOf
<1> QED
  BY <1>11, <1>12, <1>13, <1>14, <1>16 DEF IInv

(* The chip: it counts when nobody is reading.                             *)
LEMMA ChipSteps ==
  ASSUME IInv, announce \/ update \/ finish
  PROVE  IInv'
<1>1. /\ UNCHANGED <<mode, index, mode_flags, boot_time, mutex, pc, todo, raw, ret, since>>
      /\ Len(Times) \in Nat
  BY RtcAssumption DEF announce, update, finish
<1>2. /\ now \in 1 .. Len(Times) /\ now' \in {now, now + 1} /\ now' \in 1 .. Len(Times)
      /\ now' # now => Reading = {}
  <2>1. now \in 1 .. Len(Times)
    BY DEF IInv, TypeOK
  <2>2. CASE announce \/ finish
    BY <2>1, <2>2 DEF announce, finish
  <2>3. CASE update
    <3>1. Reading = {}
      BY <2>3 DEF IInv, HurryOK, update
    <3> QED
      BY <1>1, <2>1, <2>3, <3>1 DEF update, IInv, TypeOK
  <2> QED
    BY <2>1, <2>2, <2>3
<1>3. TypeOK'
  <2>1. \A d \in Cpu : since[d] \in 1 .. now'
    BY <1>2 DEF IInv, TypeOK
  <2>2. uip' \in {"quiet", "announced", "done"} /\ (uip' = "announced" => now' < Len(Times))
    BY DEF announce, update, finish
  <2> QED
    BY <1>1, <1>2, <2>1, <2>2 DEF IInv, TypeOK
<1>4. BootOK' /\ LockOK'
  BY <1>1 DEF IInv, BootOK, LockOK, Inside
<1>5. HurryOK'
  <2>1. Reading' = Reading
    BY <1>1 DEF Reading
  <2>2. CASE announce
    BY <2>1, <2>2 DEF HurryOK, announce
  <2>3. CASE update
    <3>1. Reading = {}
      BY <2>3 DEF IInv, HurryOK, update
    <3> QED
      BY <2>1, <3>1 DEF HurryOK
  <2>4. CASE finish
    BY <2>1, <2>4 DEF IInv, HurryOK, finish
  <2> QED
    BY <2>2, <2>3, <2>4
<1>6. ASSUME NEW d \in Cpu PROVE ReadOf(d)' /\ ReturnOf(d)'
  <2>1. ReadOf(d) /\ ReturnOf(d)
    BY DEF IInv, ReadingOK, TimeIsOne, ReturnOf
  <2>2. CASE now' = now
    BY <1>1, <2>1, <2>2, Same
  <2>3. CASE now' # now
    <3>1. Reading = {} /\ now' = now + 1
      BY <1>2, <2>3
    <3>2. since[d] \in 1 .. now /\ \A k \in since[d] .. now : k \in since[d] .. now'
      BY <1>2, <3>1 DEF IInv, TypeOK
    <3>3. ReturnOf(d)'
      BY <1>1, <2>1, <3>2 DEF ReturnOf, Readable
    <3>4. ASSUME pc[d] \in {"rd", "rd_data"} PROVE ReadSoFar(d, 6)'
      <4>1. PICK i \in 0 .. 6 : ReadSoFar(d, i)
        BY <2>1, <3>4 DEF ReadOf
      <4>2. todo[d] = <<>>
        BY <3>1, <3>4 DEF Reading
      <4>3. i = 6
        BY <4>1, <4>2, LeftEmpty DEF ReadSoFar
      <4>4. PICK k \in since[d] .. now : SameSecond(d, 6, k)
        BY <4>1, <4>3 DEF ReadSoFar
      <4>5. \A t, reg : Register(t, reg)' = Register(t, reg)
        BY <1>1 DEF Register, Stored
      <4>6. SameSecond(d, 6, k)'
        BY <1>1, <4>4, <4>5 DEF SameSecond
      <4>7. todo'[d] = Left(6)
        BY <1>1, <4>1, <4>3 DEF ReadSoFar
      <4> QED
        BY <1>1, <3>2, <4>6, <4>7 DEF ReadSoFar
    <3> QED
      BY <1>1, <3>3, <3>4 DEF ReadOf
  <2> QED
    BY <2>2, <2>3
<1>7. ReadingOK' /\ TimeIsOne'
  BY <1>6 DEF ReadingOK, TimeIsOne, ReturnOf
<1> QED
  BY <1>3, <1>4, <1>5, <1>7 DEF IInv

-----------------------------------------------------------------------------
(* Every step keeps the invariant.                                         *)
LEMMA Invariant == IInv /\ [Next]_vars => IInv'
<1> SUFFICES ASSUME IInv, [Next]_vars PROVE IInv'
  OBVIOUS
<1>1. CASE init_index \/ init_data
  BY <1>1, InitSteps
<1>2. ASSUME NEW c \in Cpu, Step(c) PROVE IInv'
  BY <1>2, OuterSteps, UipStep, IndexStep, DataStep, ReturnStep DEF Step
<1>3. CASE announce \/ update \/ finish
  BY <1>3, ChipSteps
<1>4. CASE UNCHANGED vars
  <2>1. \A d \in Cpu : ReadOf(d)' /\ ReturnOf(d)'
    <3> SUFFICES ASSUME NEW d \in Cpu PROVE ReadOf(d)' /\ ReturnOf(d)'
      OBVIOUS
    <3>1. ReadOf(d) /\ ReturnOf(d)
      BY DEF IInv, ReadingOK, TimeIsOne, ReturnOf
    <3> QED
      BY <1>4, <3>1, Same DEF vars, chip_vars
  <2>2. ReadingOK' /\ TimeIsOne'
    BY <2>1 DEF ReadingOK, TimeIsOne, ReturnOf
  <2>3. TypeOK' /\ BootOK' /\ LockOK' /\ HurryOK'
    BY <1>4 DEF vars, chip_vars, IInv, TypeOK, BootOK, LockOK, Inside, HurryOK, Reading
  <2> QED
    BY <2>2, <2>3 DEF IInv
<1> QED
  BY <1>1, <1>2, <1>3, <1>4 DEF Next

(* Whatever the mode of the chip and the seconds it counts, and however    *)
(* many processors ask for the time: rtc_get_time returns one second of    *)
(* its call, never a mixture of two and never another processor's register *)
(* (rtc.c rtc_get_time, rd_cmos_reg), but for the first hour of each half  *)
(* of a day in 12-hour mode.                                               *)
THEOREM TimeIsOneSecond == Spec => []TimeIsOne
<1>1. Init => IInv
  BY InitInv
<1>2. IInv => TimeIsOne
  BY DEF IInv
<1> QED
  BY <1>1, <1>2, Invariant, PTL DEF Spec
-----------------------------------------------------------------------------
(* The stubs (Isr).                                                        *)
Stubs == {"isr_default", "isr_except", "isr_syscall"}

(* The shape of a stub: n pushes, the arguments, the call, n pops, iretq.  *)
Pushes(stub) ==
  IF stub = "isr_syscall"
  THEN <<"rdx", "rsi", "rdi", "rax", "r11", "r10", "r9", "r8", "rcx", "rdx", "rsi", "rdi", "rax">>
  ELSE PUSH_GEN_REGS
Pops(stub) ==
  IF stub = "isr_syscall"
  THEN <<"rax", "rdi", "rsi", "rdx", "rcx", "r8", "r9", "r10", "r11", "rax", "rdi", "rsi", "rdx">>
  ELSE POP_GEN_REGS
Count(stub) == IF stub = "isr_syscall" THEN 13 ELSE 15
CallAt(stub) == Count(stub) + (IF stub = "isr_except" THEN 3 ELSE 2)
EndAt(stub) == CallAt(stub) + Count(stub) + 1

Kinds ==
  GenRegs \cup {"main", "isr", "lost", "cs", "ss", "rsp", "flags", "e", "pad", "ptr", "junk",
                "sel"}
Words == [w : Kinds, v : Nat]
Saved == [vec : Vectors, code : BOOLEAN, regs : [GenRegs -> Words], stk : Seq(Words),
          rip : Words, cs : Words, ifl : BOOLEAN]

(* Words on the stack before instruction l of a stub, above the frame.     *)
Depth(stub, l) ==
  IF l <= Count(stub) THEN l - 1
  ELSE IF l <= CallAt(stub) THEN Count(stub)
  ELSE EndAt(stub) - l

FrameAt(was) == Len(was.stk) + (Len(was.stk) % 2)
Base(was) == FrameAt(was) + (IF was.code THEN 6 ELSE 5)

(* The stack: what was there, the frame, and d saved registers.            *)
Framed(was, s) ==
  /\ \A j \in 1 .. Len(was.stk) : s[j] = was.stk[j]
  /\ s[FrameAt(was) + 2] = Word("rsp", Len(was.stk))
  /\ s[FrameAt(was) + 3] = Word("flags", IF was.ifl THEN 1 ELSE 0)
  /\ s[FrameAt(was) + 4] = was.cs
  /\ s[FrameAt(was) + 5] = was.rip
  /\ was.code => s[FrameAt(was) + 6] = Word("e", was.vec)
Stacked(was, stub, s, d) ==
  /\ s \in Seq(Words) /\ Len(s) = Base(was) + d
  /\ Framed(was, s)
  /\ \A j \in 1 .. d : s[Base(was) + j] = was.regs[Pushes(stub)[j]]

(* The registers: untouched, with the body's arguments, or clobbered and   *)
(* restored one by one.                                                    *)
Restored(stub, l) ==
  (GenRegs \ CallerSaved) \cup {Pops(stub)[j] : j \in 1 .. l - CallAt(stub) - 1}
RegsAt(was, stub, g, s, l) ==
  /\ g \in [GenRegs -> Words]
  /\ l <= Count(stub) + 1 => g = was.regs
  /\ l \in Count(stub) + 2 .. CallAt(stub) => g["rdi"] = Word("ptr", Len(s))
  /\ l = CallAt(stub) /\ stub = "isr_except" => g["rsi"] = Word("ptr", Len(s) - 15)
  /\ \A r \in Restored(stub, l) : g[r] = was.regs[r]

AtLine(was, stub, r, g, s, l) ==
  /\ r = Word("isr", was.vec * STUB_SIZE + l)
  /\ Stacked(was, stub, s, Depth(stub, l))
  /\ RegsAt(was, stub, g, s, l)

(* Address r, registers g and stack s are those of the stub that was       *)
(* entered from was.                                                       *)
StubOf(was) == idt[was.vec].stub
Within(was, r, g, s) == \E l \in 1 .. EndAt(StubOf(was)) : AtLine(was, StubOf(was), r, g, s, l)

(* Main's registers; system calls come from there.                         *)
Plain(g) == g["rdi"] = Word("rdi", 0) /\ g["rsi"] = Word("rsi", 0)

IdtOK ==
  /\ DOMAIN idt = Vectors
  /\ \A v \in Vectors :
       \/ idt[v] = NULL_ENT
       \/ v < 32 /\ idt[v].stub = "isr_except"
       \/ v >= 32 /\ idt[v].stub = "isr_default"
       \/ v = 128 /\ idt[v].stub = "isr_syscall"

(* What is left to set up when n steps are.                                *)
BootLeft(n) ==
  CASE n = 4 -> <<"gdt_init", "pic_init", "idt_init", "syscall_init">>
    [] n = 3 -> <<"pic_init", "idt_init", "syscall_init">>
    [] n = 2 -> <<"idt_init", "syscall_init">>
    [] n = 1 -> <<"syscall_init">>
    [] n = 0 -> <<>>

(* The controller is remapped and masked before there is an entry.         *)
TablesFirst ==
  \/ (boot = BootLeft(4) \/ boot = BootLeft(3)) /\ \A v \in Vectors : idt[v] = NULL_ENT
  \/ boot = BootLeft(2) /\ pic.masked /\ \A v \in Vectors : idt[v] = NULL_ENT
  \/ (boot = BootLeft(1) \/ boot = BootLeft(0)) /\ pic.masked

NowOK ==
  /\ regs \in [GenRegs -> Words] /\ stk \in Seq(Words) /\ rip \in Words
  /\ cs \in Words /\ cs.w = "cs" /\ ifl \in BOOLEAN
  /\ rip.w \in {"main", "isr", "lost"}
  /\ said \in {<<>>, <<Word("rdi", 0), Word("rsi", 0)>>}

(* What a context is, by itself.                                           *)
CtxOf(was) ==
  /\ idt[was.vec] # NULL_ENT
  /\ was.cs.w = "cs" /\ was.rip.w \in {"main", "isr"}
  /\ StubOf(was) = "isr_except" => (was.code <=> was.vec \in TakesCode)
  /\ StubOf(was) = "isr_syscall" => Plain(was.regs)
  /\ was.rip.w = "main" => Plain(was.regs)
CtxOK == ctx \in Seq(Saved) /\ \A k \in 1 .. Len(ctx) : CtxOf(ctx[k])

(* Every context but the first is inside the stub of the one before it,    *)
(* and the processor inside that of the last.                              *)
Nested ==
  \A k \in 1 .. Len(ctx) :
    IF k = 1 THEN ctx[k].rip.w = "main"
    ELSE ctx[k].rip.w = "isr" /\ Within(ctx[k - 1], ctx[k].rip, ctx[k].regs, ctx[k].stk)
GoesOn ==
  /\ rip.w = "main" => ctx = <<>> /\ Plain(regs)
  /\ rip.w = "isr" => ctx # <<>> /\ Within(ctx[Len(ctx)], rip, regs, stk)

IsrInv == IdtOK /\ TablesFirst /\ NowOK /\ CtxOK /\ Nested /\ GoesOn

-----------------------------------------------------------------------------
(* Two sequences, one after the other.                                     *)
LEMMA Joined ==
  ASSUME NEW T, NEW A \in Seq(T), NEW B \in Seq(T)
  PROVE  /\ A \o B \in Seq(T) /\ Len(A \o B) = Len(A) + Len(B)
         /\ \A k \in 1 .. Len(A) : (A \o B)[k] = A[k]
         /\ \A k \in Len(A) + 1 .. Len(A) + Len(B) : (A \o B)[k] = B[k - Len(A)]
  OBVIOUS

(* Element l of four of them.                                              *)
Element(l, C, A, M, B, E) ==
  /\ l \in 1 .. Len(A) => C[l] = A[l]
  /\ l \in Len(A) + 1 .. Len(A) + Len(M) => C[l] = M[l - Len(A)]
  /\ l \in Len(A) + Len(M) + 1 .. Len(A) + Len(M) + Len(B) => C[l] = B[l - (Len(A) + Len(M))]
  /\ l \in Len(A) + Len(M) + Len(B) + 1 .. Len(A) + Len(M) + Len(B) + Len(E) =>
       C[l] = E[l - (Len(A) + Len(M) + Len(B))]

LEMMA FourJoined ==
  ASSUME NEW T, NEW A \in Seq(T), NEW M \in Seq(T), NEW B \in Seq(T), NEW E \in Seq(T),
         NEW C, C = A \o M \o B \o E, NEW l \in Nat
  PROVE  Element(l, C, A, M, B, E)
<1>1. PICK D : D = A \o M
  OBVIOUS
<1>2. /\ D \in Seq(T) /\ Len(D) = Len(A) + Len(M)
      /\ \A k \in 1 .. Len(A) : D[k] = A[k]
      /\ \A k \in Len(A) + 1 .. Len(A) + Len(M) : D[k] = M[k - Len(A)]
  BY <1>1, Joined, Zenon
<1>3. PICK F : F = D \o B
  OBVIOUS
<1>4. /\ F \in Seq(T) /\ Len(F) = Len(D) + Len(B)
      /\ \A k \in 1 .. Len(D) : F[k] = D[k]
      /\ \A k \in Len(D) + 1 .. Len(D) + Len(B) : F[k] = B[k - Len(D)]
  <2>1. D \in Seq(T)
    BY <1>2
  <2> QED
    BY <1>3, <2>1, Joined, Zenon
<1>5. PICK G : G = F \o E
  OBVIOUS
<1>6. /\ \A k \in 1 .. Len(F) : G[k] = F[k]
      /\ \A k \in Len(F) + 1 .. Len(F) + Len(E) : G[k] = E[k - Len(F)]
  <2>1. F \in Seq(T)
    BY <1>4
  <2> QED
    BY <1>5, <2>1, Joined, Zenon
<1>7. Len(A) \in Nat /\ Len(M) \in Nat /\ Len(B) \in Nat /\ Len(E) \in Nat
  OBVIOUS
<1>8. /\ l \in 1 .. Len(A) => G[l] = A[l]
      /\ l \in Len(A) + 1 .. Len(A) + Len(M) => G[l] = M[l - Len(A)]
  BY <1>2, <1>4, <1>6, <1>7
<1>9. l \in Len(A) + Len(M) + 1 .. Len(A) + Len(M) + Len(B) => G[l] = B[l - (Len(A) + Len(M))]
  BY <1>2, <1>4, <1>6, <1>7
<1>10. l \in Len(A) + Len(M) + Len(B) + 1 .. Len(A) + Len(M) + Len(B) + Len(E) =>
        G[l] = E[l - (Len(A) + Len(M) + Len(B))]
  BY <1>2, <1>4, <1>6, <1>7
<1> QED
  BY <1>1, <1>3, <1>5, <1>8, <1>9, <1>10 DEF Element

(* The instruction at each line of a stub.                                 *)
StubCodeAt(P, M, Q, n, m, l) ==
  /\ l \in 1 .. n => Stub(P, M, Q)[l] = [op |-> "push", reg |-> P[l]]
  /\ l \in n + 1 .. n + m => Stub(P, M, Q)[l] = M[l - n]
  /\ l \in n + m + 1 .. n + m + n =>
       Stub(P, M, Q)[l] = [op |-> "pop", reg |-> Q[l - (n + m)]]
  /\ l = n + m + n + 1 => Stub(P, M, Q)[l] = Insn("iretq")

LEMMA StubCode ==
  ASSUME NEW P, NEW Q, NEW n \in Nat, NEW M, NEW m \in Nat, NEW O, NEW U,
         P \in Seq(U), Q \in Seq(U), Len(P) = n, Len(Q) = n,
         M \in Seq([op : O, reg : U]), Len(M) = m,
         {"push", "pop", "iretq"} \subseteq O, "-" \in U, NEW l \in Nat
  PROVE  StubCodeAt(P, M, Q, n, m, l)
<1>1. PICK A : A = Each("push", P)
  OBVIOUS
<1>2. PICK B : B = Each("pop", Q)
  OBVIOUS
<1>3. PICK E : E = <<Insn("iretq")>>
  OBVIOUS
<1>4. PICK T : T = [op : O, reg : U]
  OBVIOUS
<1>5. A \in Seq(T) /\ Len(A) = n /\ \A k \in 1 .. n : A[k] = [op |-> "push", reg |-> P[k]]
  <2>1. "push" \in O
    OBVIOUS
  <2>2. /\ A \in Seq(T) /\ Len(A) = Len(P)
        /\ \A k \in 1 .. Len(P) : A[k] = [op |-> "push", reg |-> P[k]]
    BY <1>1, <1>4, <2>1 DEF Each
  <2> QED
    BY <2>2
<1>6. B \in Seq(T) /\ Len(B) = n /\ \A k \in 1 .. n : B[k] = [op |-> "pop", reg |-> Q[k]]
  <2>1. "pop" \in O
    OBVIOUS
  <2>2. /\ B \in Seq(T) /\ Len(B) = Len(Q)
        /\ \A k \in 1 .. Len(Q) : B[k] = [op |-> "pop", reg |-> Q[k]]
    BY <1>2, <1>4, <2>1 DEF Each
  <2> QED
    BY <2>2
<1>7. E \in Seq(T) /\ Len(E) = 1 /\ E[1] = Insn("iretq")
  BY <1>3, <1>4 DEF Insn
<1>8. M \in Seq(T)
  BY <1>4
<1>9. Stub(P, M, Q) = A \o M \o B \o E
  BY <1>1, <1>2, <1>3 DEF Stub
<1>11. PICK C : C = Stub(P, M, Q)
  OBVIOUS
<1>10. Element(l, C, A, M, B, E)
  <2>1. A \in Seq(T) /\ B \in Seq(T) /\ E \in Seq(T) /\ C = A \o M \o B \o E
    BY <1>5, <1>6, <1>7, <1>9, <1>11
  <2> QED
    BY <1>8, <2>1, FourJoined, Zenon
<1> QED
  BY <1>5, <1>6, <1>7, <1>10, <1>11 DEF Element, StubCodeAt

(* The registers by name.                                                  *)
LEMMA RegNames ==
  GenRegs = {"rax", "rbx", "rcx", "rdx", "rsi", "rdi", "rbp",
             "r8", "r9", "r10", "r11", "r12", "r13", "r14", "r15"}
  BY DEF GenRegs, Range, cpu_gen_regs

(* The shape of each stub, in numbers.                                     *)
LEMMA LinesAre ==
  ASSUME NEW stub \in Stubs
  PROVE  /\ Count(stub) \in Nat /\ CallAt(stub) \in Nat /\ EndAt(stub) \in 1 .. 63
         /\ Count(stub) + 1 < CallAt(stub) /\ CallAt(stub) <= Count(stub) + 3
         /\ EndAt(stub) = CallAt(stub) + Count(stub) + 1
         /\ stub = "isr_except" => Count(stub) = 15 /\ CallAt(stub) = 18
         /\ stub = "isr_default" => Count(stub) = 15 /\ CallAt(stub) = 17
         /\ stub = "isr_syscall" => Count(stub) = 13 /\ CallAt(stub) = 15
  BY DEF EndAt, CallAt, Count, Stubs

(* The pops take the pushes back in the opposite order, and restore what a *)
(* body may clobber.                                                       *)
LEMMA Mirror ==
  ASSUME NEW stub \in Stubs
  PROVE  /\ Pushes(stub) \in Seq(GenRegs) /\ Len(Pushes(stub)) = Count(stub)
         /\ Pops(stub) \in Seq(GenRegs) /\ Len(Pops(stub)) = Count(stub)
         /\ \A j \in 1 .. Count(stub) : Pops(stub)[j] = Pushes(stub)[Count(stub) + 1 - j]
         /\ CallerSaved \subseteq {Pops(stub)[j] : j \in 1 .. Count(stub)}
<1>1. CASE stub = "isr_syscall"
  <2>1. Pushes(stub) \in Seq(GenRegs) /\ Len(Pushes(stub)) = Count(stub)
    BY <1>1, RegNames DEF Pushes, Count
  <2>2. Pops(stub) \in Seq(GenRegs) /\ Len(Pops(stub)) = Count(stub)
    BY <1>1, RegNames DEF Pops, Count
  <2>3. \A j \in 1 .. Count(stub) : Pops(stub)[j] = Pushes(stub)[Count(stub) + 1 - j]
    BY <1>1 DEF Pops, Pushes, Count
  <2>4. CallerSaved \subseteq {Pops(stub)[j] : j \in 1 .. Count(stub)}
    BY <1>1 DEF Pops, Count, CallerSaved
  <2> QED
    BY <2>1, <2>2, <2>3, <2>4
<1>2. CASE stub # "isr_syscall"
  <2>1. Pushes(stub) \in Seq(GenRegs) /\ Len(Pushes(stub)) = Count(stub)
    BY <1>2, RegNames DEF Pushes, Count, PUSH_GEN_REGS
  <2>2. Pops(stub) \in Seq(GenRegs) /\ Len(Pops(stub)) = Count(stub)
    BY <1>2, RegNames DEF Pops, Count, POP_GEN_REGS
  <2>3. \A j \in 1 .. Count(stub) : Pops(stub)[j] = Pushes(stub)[Count(stub) + 1 - j]
    BY <1>2 DEF Pops, Pushes, Count, PUSH_GEN_REGS, POP_GEN_REGS
  <2>4. CallerSaved \subseteq {Pops(stub)[j] : j \in 1 .. Count(stub)}
    BY <1>2 DEF Pops, Count, CallerSaved, POP_GEN_REGS
  <2> QED
    BY <2>1, <2>2, <2>3, <2>4
<1> QED
  BY <1>1, <1>2

(* The instruction at line l of a stub.                                    *)
InsnAt(stub, l) ==
  IF l <= Count(stub) THEN [op |-> "push", reg |-> Pushes(stub)[l]]
  ELSE IF l = Count(stub) + 1 THEN Insn("mov rdi, rsp")
  ELSE IF l < CallAt(stub) THEN Insn("lea rsi, [rsp + 0x78]")
  ELSE IF l = CallAt(stub) THEN Insn("call")
  ELSE IF l < EndAt(stub) THEN [op |-> "pop", reg |-> Pops(stub)[l - CallAt(stub)]]
  ELSE Insn("iretq")

(* Instructions, with no look inside.                                      *)
Ops == {"push", "pop", "iretq", "mov rdi, rsp", "lea rsi, [rsp + 0x78]", "call"}
InsnRegs == GenRegs \cup {"-"}
Insns == [op : Ops, reg : InsnRegs]

LEMMA InsnsAre ==
  /\ Insn("mov rdi, rsp") \in Insns /\ Insn("lea rsi, [rsp + 0x78]") \in Insns
  /\ Insn("call") \in Insns
<1>1. "-" \in InsnRegs
  BY DEF InsnRegs
<1>2. ASSUME NEW op \in Ops
      PROVE  Insn(op) \in Insns
  BY <1>1 DEF Insn, Insns
<1>3. {"mov rdi, rsp", "lea rsi, [rsp + 0x78]", "call"} \subseteq Ops
  BY DEF Ops
<1> QED
  BY <1>2, <1>3

(* The instructions between the pushes and the pops.                       *)
Args(stub) ==
  IF stub = "isr_except"
  THEN <<Insn("mov rdi, rsp"), Insn("lea rsi, [rsp + 0x78]"), Insn("call")>>
  ELSE <<Insn("mov rdi, rsp"), Insn("call")>>

LEMMA ArgsAre ==
  ASSUME NEW stub \in Stubs
  PROVE  /\ Args(stub) \in Seq(Insns) /\ Len(Args(stub)) = CallAt(stub) - Count(stub)
         /\ Args(stub)[1] = Insn("mov rdi, rsp")
         /\ Args(stub)[CallAt(stub) - Count(stub)] = Insn("call")
         /\ stub = "isr_except" => Args(stub)[2] = Insn("lea rsi, [rsp + 0x78]")
<1>1. PICK a \in Insns : a = Insn("mov rdi, rsp")
  BY InsnsAre
<1>2. PICK b \in Insns : b = Insn("lea rsi, [rsp + 0x78]")
  BY InsnsAre
<1>3. PICK c \in Insns : c = Insn("call")
  BY InsnsAre
<1>4. CASE stub = "isr_except"
  <2>1. Args(stub) = <<a, b, c>>
    BY <1>1, <1>2, <1>3, <1>4 DEF Args
  <2>2. CallAt(stub) - Count(stub) = 3
    BY <1>4 DEF CallAt, Count
  <2>3. /\ <<a, b, c>> \in Seq(Insns) /\ Len(<<a, b, c>>) = 3
        /\ <<a, b, c>>[1] = a /\ <<a, b, c>>[2] = b /\ <<a, b, c>>[3] = c
    OBVIOUS
  <2> QED
    BY <1>1, <1>2, <1>3, <2>1, <2>2, <2>3, Zenon
<1>5. CASE stub # "isr_except"
  <2>1. Args(stub) = <<a, c>>
    BY <1>1, <1>3, <1>5 DEF Args
  <2>2. CallAt(stub) - Count(stub) = 2
    BY <1>5 DEF CallAt, Count
  <2>3. /\ <<a, c>> \in Seq(Insns) /\ Len(<<a, c>>) = 2
        /\ <<a, c>>[1] = a /\ <<a, c>>[2] = c
    OBVIOUS
  <2> QED
    BY <1>1, <1>3, <1>5, <2>1, <2>2, <2>3, Zenon
<1> QED
  BY <1>4, <1>5

LEMMA CodeIs ==
  ASSUME NEW stub \in Stubs
  PROVE  Code(stub) = Stub(Pushes(stub), Args(stub), Pops(stub))
<1>1. CASE stub = "isr_default"
  BY <1>1 DEF Code, ISR_DEF_HEAD, Pushes, Pops, Args
<1>2. CASE stub = "isr_except"
  BY <1>2 DEF Code, ISR_EXCEPT_DEF_HEAD, Pushes, Pops, Args
<1>3. CASE stub = "isr_syscall"
  BY <1>3 DEF Code, ISR_SYSCALL_DEF_HEAD, Pushes, Pops, Args
<1> QED
  BY <1>1, <1>2, <1>3 DEF Stubs

LEMMA CodeAt ==
  ASSUME NEW stub \in Stubs, NEW l \in 1 .. EndAt(stub)
  PROVE  Code(stub)[l] = InsnAt(stub, l)
<1>1. PICK m \in Nat : m = CallAt(stub) - Count(stub)
  BY LinesAre
<1>2. PICK n \in Nat : n = Count(stub)
  BY LinesAre
<1>3. PICK P : P = Pushes(stub)
  OBVIOUS
<1>4. PICK Q : Q = Pops(stub)
  OBVIOUS
<1>5. PICK M : M = Args(stub)
  OBVIOUS
<1>6. PICK C : C = Code(stub)
  OBVIOUS
<1>7. C = Stub(P, M, Q)
  BY <1>3, <1>4, <1>5, <1>6, CodeIs
<1>8. GenRegs \subseteq InsnRegs /\ "-" \in InsnRegs
  BY DEF InsnRegs
<1>9. P \in Seq(InsnRegs) /\ Len(P) = n
  <2>1. P \in Seq(GenRegs) /\ Len(P) = n
    BY <1>2, <1>3, Mirror, Zenon
  <2> QED
    BY <2>1, <1>8
<1>10. Q \in Seq(InsnRegs) /\ Len(Q) = n
  <2>1. Q \in Seq(GenRegs) /\ Len(Q) = n
    BY <1>2, <1>4, Mirror, Zenon
  <2> QED
    BY <2>1, <1>8
<1>11. M \in Seq(Insns) /\ Len(M) = m
  BY <1>1, <1>5, ArgsAre, Zenon
<1>12. {"push", "pop", "iretq"} \subseteq Ops
  BY DEF Ops
<1>13. M \in Seq([op : Ops, reg : InsnRegs])
  BY <1>11 DEF Insns
<1>14. l \in Nat
  BY LinesAre
<1>15. StubCodeAt(P, M, Q, n, m, l)
  BY <1>8, <1>9, <1>10, <1>11, <1>12, <1>13, <1>14, StubCode, Zenon
<1>16. /\ l \in 1 .. n => C[l] = [op |-> "push", reg |-> P[l]]
       /\ l \in n + 1 .. n + m => C[l] = M[l - n]
       /\ l \in n + m + 1 .. n + m + n => C[l] = [op |-> "pop", reg |-> Q[l - (n + m)]]
       /\ l = n + m + n + 1 => C[l] = Insn("iretq")
  BY <1>7, <1>15, Zenon DEF StubCodeAt
<1>17. /\ n \in Nat /\ l \in Nat /\ n + m = CallAt(stub) /\ EndAt(stub) = n + m + n + 1
       /\ m \in {2, 3} /\ (m = 3 <=> stub = "isr_except")
  BY <1>1, <1>2, LinesAre DEF Stubs
<1>18. PICK I : I = InsnAt(stub, l)
  OBVIOUS
<1>19. I = IF l <= n THEN [op |-> "push", reg |-> P[l]]
           ELSE IF l = n + 1 THEN Insn("mov rdi, rsp")
           ELSE IF l < n + m THEN Insn("lea rsi, [rsp + 0x78]")
           ELSE IF l = n + m THEN Insn("call")
           ELSE IF l < n + m + n + 1 THEN [op |-> "pop", reg |-> Q[l - (n + m)]]
           ELSE Insn("iretq")
  BY <1>2, <1>3, <1>4, <1>17, <1>18 DEF InsnAt
<1>20. l \in 1 .. n + m + n + 1
  BY <1>17
<1>21. /\ M[1] = Insn("mov rdi, rsp") /\ M[m] = Insn("call")
       /\ m = 3 => M[2] = Insn("lea rsi, [rsp + 0x78]")
  BY <1>1, <1>5, <1>17, ArgsAre
<1>22. C[l] = I
  <2>1. CASE l <= n
    BY <1>16, <1>17, <1>19, <1>20, <2>1
  <2>2. CASE l = n + 1
    <3>1. l - n = 1 /\ l \in n + 1 .. n + m /\ ~(l <= n)
      BY <1>17, <2>2
    <3> QED
      BY <1>16, <1>19, <1>21, <2>2, <3>1, Zenon
  <2>3. CASE l = n + 2 /\ m = 3
    <3>1. l - n = 2 /\ l \in n + 1 .. n + m /\ ~(l <= n) /\ l # n + 1 /\ l < n + m
      BY <1>17, <2>3
    <3> QED
      BY <1>16, <1>19, <1>21, <2>3, <3>1, Zenon
  <2>4. CASE l = n + m
    <3>1. l - n = m /\ l \in n + 1 .. n + m /\ ~(l <= n) /\ l # n + 1 /\ ~(l < n + m)
      BY <1>17, <2>4
    <3> QED
      BY <1>16, <1>19, <1>21, <2>4, <3>1, Zenon
  <2>5. CASE l \in n + m + 1 .. n + m + n
    <3>1. /\ ~(l <= n) /\ l # n + 1 /\ ~(l < n + m) /\ l # n + m
          /\ l < n + m + n + 1
      BY <1>17, <2>5
    <3> QED
      BY <1>16, <1>19, <2>5, <3>1, Zenon
  <2>6. CASE l = n + m + n + 1
    <3>1. /\ ~(l <= n) /\ l # n + 1 /\ ~(l < n + m) /\ l # n + m
          /\ ~(l < n + m + n + 1)
      BY <1>17, <2>6
    <3> QED
      BY <1>16, <1>19, <2>6, <3>1, Zenon
  <2> QED
    BY <1>17, <1>20, <2>1, <2>2, <2>3, <2>4, <2>5, <2>6
<1> QED
  BY <1>6, <1>18, <1>22

(* Where the processor is, when it is in a stub.                           *)
Here(was, stub, l) ==
  /\ ctx \in Seq(Saved) /\ Len(ctx) \in Nat \ {0}
  /\ was = ctx[Len(ctx)] /\ was \in Saved /\ CtxOf(was)
  /\ stub = StubOf(was) /\ stub \in Stubs
  /\ l \in 1 .. EndAt(stub) /\ rip = Word("isr", was.vec * STUB_SIZE + l)
  /\ Vec = was.vec /\ CurInsn = InsnAt(stub, l)
  /\ Stacked(was, stub, stk, Depth(stub, l))
  /\ RegsAt(was, stub, regs, stk, l)

LEMMA VecLine ==
  ASSUME NEW v \in Nat, NEW l \in 1 .. 63
  PROVE  (v * STUB_SIZE + l) \div STUB_SIZE = v /\ (v * STUB_SIZE + l) % STUB_SIZE = l
  BY DEF STUB_SIZE

LEMMA StubOfOK ==
  ASSUME IdtOK, NEW was \in Saved, CtxOf(was)
  PROVE  StubOf(was) \in Stubs /\ idt[was.vec].stub \in Stubs
<1>1. was.vec \in Vectors /\ idt[was.vec] # NULL_ENT
  BY DEF Saved, CtxOf
<1> QED
  BY <1>1 DEF IdtOK, StubOf, Stubs

LEMMA WhereItIs ==
  ASSUME IsrInv, InStub
  PROVE  \E was, stub, l : Here(was, stub, l)
<1>1. ctx \in Seq(Saved) /\ ctx # <<>> /\ Within(ctx[Len(ctx)], rip, regs, stk)
  BY DEF IsrInv, CtxOK, GoesOn, InStub
<1>2. Len(ctx) \in Nat \ {0}
  BY <1>1
<1>3. PICK was : was = ctx[Len(ctx)]
  OBVIOUS
<1>4. was \in Saved /\ CtxOf(was)
  BY <1>1, <1>2, <1>3 DEF IsrInv, CtxOK
<1>5. PICK stub : stub = StubOf(was)
  OBVIOUS
<1>6. stub \in Stubs /\ idt[was.vec].stub = stub
  <2>1. IdtOK
    BY DEF IsrInv
  <2> QED
    BY <1>4, <1>5, <2>1, StubOfOK DEF StubOf
<1>7. PICK l \in 1 .. EndAt(stub) : AtLine(was, stub, rip, regs, stk, l)
  BY <1>1, <1>3, <1>5 DEF Within
<1>8. rip = Word("isr", was.vec * STUB_SIZE + l)
  BY <1>7 DEF AtLine
<1>9. rip.v = was.vec * STUB_SIZE + l
  BY <1>8 DEF Word
<1>10. was.vec \in Nat /\ l \in 1 .. 63
  <2>1. was.vec \in Nat
    <3>1. was.vec \in Vectors
      BY <1>4 DEF Saved
    <3>2. Vectors \subseteq Nat
      BY IsrAssumption
    <3> QED
      BY <3>1, <3>2
  <2>2. EndAt(stub) \in 1 .. 63
    BY <1>6, LinesAre
  <2> QED
    BY <2>1, <2>2
<1>11. Vec = was.vec /\ Line = l
  BY <1>9, <1>10, VecLine DEF Vec, Line
<1>12. CurInsn = InsnAt(stub, l)
  BY <1>6, <1>7, <1>11, CodeAt DEF CurInsn
<1>13. Stacked(was, stub, stk, Depth(stub, l)) /\ RegsAt(was, stub, regs, stk, l)
  BY <1>7 DEF AtLine
<1>14. Here(was, stub, l)
  BY <1>1, <1>2, <1>3, <1>4, <1>5, <1>6, <1>7, <1>8, <1>11, <1>12, <1>13, Zenon DEF Here
<1> QED
  BY <1>14

(* How many registers are saved, before and after each instruction.        *)
LEMMA Depths ==
  ASSUME NEW stub \in Stubs, NEW l \in 1 .. EndAt(stub)
  PROVE  /\ l <= Count(stub) => Depth(stub, l) = l - 1 /\ Depth(stub, l + 1) = l
         /\ l \in Count(stub) + 1 .. CallAt(stub) =>
              Depth(stub, l) = Count(stub) /\ Depth(stub, l + 1) = Count(stub)
         /\ l > CallAt(stub) => Depth(stub, l) = EndAt(stub) - l
         /\ l > CallAt(stub) /\ l < EndAt(stub) => Depth(stub, l + 1) = EndAt(stub) - l - 1
         /\ Depth(stub, l) \in Nat
  BY LinesAre DEF Depth

(* What the instruction at a line says of the line.                        *)
LEMMA LineOf ==
  ASSUME NEW stub \in Stubs, NEW l \in 1 .. EndAt(stub)
  PROVE  /\ InsnAt(stub, l).op = "push" =>
              l <= Count(stub) /\ InsnAt(stub, l).reg = Pushes(stub)[l]
         /\ InsnAt(stub, l).op = "mov rdi, rsp" => l = Count(stub) + 1
         /\ InsnAt(stub, l).op = "lea rsi, [rsp + 0x78]" =>
              l = Count(stub) + 2 /\ stub = "isr_except"
         /\ InsnAt(stub, l).op = "call" => l = CallAt(stub)
         /\ InsnAt(stub, l).op = "pop" =>
              /\ l > CallAt(stub) /\ l < EndAt(stub)
              /\ InsnAt(stub, l).reg = Pops(stub)[l - CallAt(stub)]
         /\ InsnAt(stub, l).op = "iretq" => l = EndAt(stub)
<1>1. /\ Insn("mov rdi, rsp").op = "mov rdi, rsp" /\ Insn("call").op = "call"
      /\ Insn("lea rsi, [rsp + 0x78]").op = "lea rsi, [rsp + 0x78]"
      /\ Insn("iretq").op = "iretq"
  BY DEF Insn
<1>2. /\ Count(stub) \in Nat /\ CallAt(stub) \in Nat /\ EndAt(stub) \in Nat
      /\ Count(stub) + 1 < CallAt(stub) /\ CallAt(stub) < EndAt(stub)
      /\ CallAt(stub) <= Count(stub) + (IF stub = "isr_except" THEN 3 ELSE 2)
  BY LinesAre DEF CallAt, EndAt
<1>3. PICK I : I = InsnAt(stub, l)
  OBVIOUS
<1>4. CASE l <= Count(stub)
  <2>1. I = [op |-> "push", reg |-> Pushes(stub)[l]]
    BY <1>3, <1>4, Zenon DEF InsnAt
  <2> QED
    BY <1>3, <1>4, <2>1
<1>5. CASE l = Count(stub) + 1
  <2>1. ~(l <= Count(stub))
    BY <1>2, <1>5
  <2>2. I = Insn("mov rdi, rsp")
    BY <1>3, <1>5, <2>1, Zenon DEF InsnAt
  <2> QED
    BY <1>1, <1>3, <1>5, <2>2
<1>6. CASE l > Count(stub) + 1 /\ l < CallAt(stub)
  <2>1. /\ ~(l <= Count(stub)) /\ l # Count(stub) + 1
        /\ l = Count(stub) + 2 /\ stub = "isr_except"
    BY <1>2, <1>6
  <2>2. I = Insn("lea rsi, [rsp + 0x78]")
    BY <1>3, <1>6, <2>1, Zenon DEF InsnAt
  <2> QED
    BY <1>1, <1>3, <2>1, <2>2
<1>7. CASE l = CallAt(stub)
  <2>1. ~(l <= Count(stub)) /\ l # Count(stub) + 1 /\ ~(l < CallAt(stub))
    BY <1>2, <1>7
  <2>2. I = Insn("call")
    BY <1>3, <1>7, <2>1, Zenon DEF InsnAt
  <2> QED
    BY <1>1, <1>3, <1>7, <2>2
<1>8. CASE l > CallAt(stub) /\ l < EndAt(stub)
  <2>1. /\ ~(l <= Count(stub)) /\ l # Count(stub) + 1 /\ ~(l < CallAt(stub))
        /\ l # CallAt(stub)
    BY <1>2, <1>8
  <2>2. I = [op |-> "pop", reg |-> Pops(stub)[l - CallAt(stub)]]
    BY <1>3, <1>8, <2>1, Zenon DEF InsnAt
  <2> QED
    BY <1>3, <1>8, <2>2
<1>9. CASE l = EndAt(stub)
  <2>1. /\ ~(l <= Count(stub)) /\ l # Count(stub) + 1 /\ ~(l < CallAt(stub))
        /\ l # CallAt(stub) /\ ~(l < EndAt(stub))
    BY <1>2, <1>9
  <2>2. I = Insn("iretq")
    BY <1>3, <2>1, Zenon DEF InsnAt
  <2> QED
    BY <1>1, <1>3, <1>9, <2>2
<1>10. l \in Nat /\ l >= 1 /\ l <= EndAt(stub)
  BY <1>2
<1> QED
  <2>1. \/ l <= Count(stub) \/ l = Count(stub) + 1
        \/ l > Count(stub) + 1 /\ l < CallAt(stub)
        \/ l = CallAt(stub) \/ (l > CallAt(stub) /\ l < EndAt(stub)) \/ l = EndAt(stub)
    BY <1>2, <1>10
  <2> QED
    BY <2>1, <1>4, <1>5, <1>6, <1>7, <1>8, <1>9

(* A word of a kind.                                                       *)
LEMMA WordIs ==
  ASSUME NEW w \in Kinds, NEW v \in Nat
  PROVE  Word(w, v) \in Words /\ Word(w, v).w = w /\ Word(w, v).v = v
  BY DEF Word, Words

LEMMA KindsAre ==
  GenRegs \subseteq Kinds
    /\ {"main", "isr", "lost", "cs", "ss", "rsp", "flags", "e", "pad", "ptr", "junk", "sel"}
          \subseteq Kinds
  BY DEF Kinds

(* A word pushed.                                                          *)
LEMMA Pushed ==
  ASSUME NEW T, NEW s \in Seq(T), NEW e \in T
  PROVE  /\ Append(s, e) \in Seq(T) /\ Len(Append(s, e)) = Len(s) + 1
         /\ \A k \in 1 .. Len(s) : Append(s, e)[k] = s[k]
         /\ Append(s, e)[Len(s) + 1] = e
  OBVIOUS

(* The padding that aligns a stack.                                        *)
LEMMA Even ==
  ASSUME NEW n \in Nat
  PROVE  n % 2 \in {0, 1} /\ n + (n % 2) \in Nat /\ n + (n % 2) >= n /\ (n + (n % 2)) % 2 = 0
  OBVIOUS

(* Where the registers begin.                                              *)
LEMMA BaseIs ==
  ASSUME NEW was \in Saved
  PROVE  Base(was) \in Nat /\ FrameAt(was) \in Nat
<1>1. Len(was.stk) \in Nat
  BY DEF Saved
<1>3. FrameAt(was) \in Nat
  BY <1>1, Even, Zenon DEF FrameAt
<1>4. FrameAt(was) + 6 \in Nat /\ FrameAt(was) + 5 \in Nat
  BY <1>3
<1>5. Base(was) \in Nat
  BY <1>4 DEF Base
<1> QED
  BY <1>3, <1>5

(* The frame does not depend on what is above it.                          *)
LEMMA FrameKept ==
  ASSUME NEW was \in Saved, NEW s, NEW t, Framed(was, s),
         \A k \in 1 .. Base(was) : t[k] = s[k]
  PROVE  Framed(was, t)
<1>1. Len(was.stk) \in Nat
  BY DEF Saved
<1>2. /\ Base(was) \in Nat /\ FrameAt(was) \in Nat /\ FrameAt(was) >= Len(was.stk)
      /\ Base(was) >= FrameAt(was) + 5 /\ (was.code => Base(was) >= FrameAt(was) + 6)
  <2>3. FrameAt(was) >= Len(was.stk)
    BY <1>1, Even, Zenon DEF FrameAt
  <2>4. FrameAt(was) \in Nat
    BY BaseIs
  <2>5. FrameAt(was) + 6 >= FrameAt(was) + 5
    BY <2>4
  <2>6. Base(was) >= FrameAt(was) + 5 /\ (was.code => Base(was) >= FrameAt(was) + 6)
    BY <2>4, <2>5 DEF Base
  <2> QED
    BY <2>3, <2>6, BaseIs
<1>3. /\ FrameAt(was) + 2 \in 1 .. Base(was) /\ FrameAt(was) + 3 \in 1 .. Base(was)
      /\ FrameAt(was) + 4 \in 1 .. Base(was) /\ FrameAt(was) + 5 \in 1 .. Base(was)
      /\ was.code => FrameAt(was) + 6 \in 1 .. Base(was)
      /\ 1 .. Len(was.stk) \subseteq 1 .. Base(was)
  BY <1>1, <1>2
<1> QED
  BY <1>3, Zenon DEF Framed

(* The processor goes on in the stub it is in.                             *)
LEMMA Onward ==
  ASSUME IsrInv, NEW was, NEW stub, NEW l, Here(was, stub, l), l < EndAt(stub),
         UNCHANGED <<boot, pic, idt, cs, ifl, ctx>>, rip' = Next_rip,
         said' \in {<<>>, <<Word("rdi", 0), Word("rsi", 0)>>},
         regs' \in [GenRegs -> Words], Stacked(was, stub, stk', Depth(stub, l + 1)),
         RegsAt(was, stub, regs', stk', l + 1)
  PROVE  IsrInv'
<1>1. IdtOK' /\ TablesFirst' /\ CtxOK' /\ Nested'
  <2>1. IdtOK'
    BY DEF IsrInv, IdtOK
  <2>2. TablesFirst'
    BY DEF IsrInv, TablesFirst
  <2>3. ASSUME NEW w
        PROVE  CtxOf(w)' <=> CtxOf(w)
    BY DEF CtxOf, StubOf
  <2>4. CtxOK'
    BY <2>3 DEF IsrInv, CtxOK
  <2>5. ASSUME NEW w, NEW r, NEW g, NEW s
        PROVE  Within(w, r, g, s)' <=> Within(w, r, g, s)
    BY DEF Within, StubOf
  <2>6. Nested'
    BY <2>5 DEF IsrInv, Nested
  <2> QED
    BY <2>1, <2>2, <2>4, <2>6
<1>2. was.vec \in Nat /\ l \in Nat /\ l + 1 \in 1 .. EndAt(stub)
  <2>1. was.vec \in Vectors
    BY DEF Here, Saved
  <2>2. Vectors \subseteq Nat
    BY IsrAssumption
  <2>3. stub \in Stubs /\ l \in 1 .. EndAt(stub)
    BY DEF Here
  <2>4. EndAt(stub) \in Nat
    BY <2>3, LinesAre
  <2>5. was.vec \in Nat
    BY <2>1, <2>2
  <2>6. l \in Nat /\ l + 1 \in 1 .. EndAt(stub)
    BY <2>3, <2>4
  <2> QED
    BY <2>5, <2>6
<1>3. rip' = Word("isr", was.vec * STUB_SIZE + (l + 1))
  <2>1. rip = Word("isr", was.vec * STUB_SIZE + l)
    BY DEF Here
  <2>2. rip.v = was.vec * STUB_SIZE + l
    BY <2>1 DEF Word
  <2>3. rip.v + 1 = was.vec * STUB_SIZE + (l + 1)
    BY <1>2, <2>2 DEF STUB_SIZE
  <2> QED
    BY <2>3 DEF Next_rip
<1>4. rip' \in Words /\ rip'.w = "isr"
  <2>1. was.vec * STUB_SIZE + (l + 1) \in Nat
    BY <1>2 DEF STUB_SIZE
  <2>2. "isr" \in Kinds
    BY KindsAre
  <2> QED
    <3> DEFINE v == was.vec * STUB_SIZE + (l + 1)
    <3>1. Word("isr", v) \in Words /\ Word("isr", v).w = "isr"
      BY <2>1, <2>2, WordIs, Zenon
    <3> QED
      BY <1>3, <3>1
<1>5. AtLine(was, stub, rip', regs', stk', l + 1)
  BY <1>3, Zenon DEF AtLine
<1>6. ctx # <<>> /\ was = ctx[Len(ctx)] /\ stub = StubOf(was)
  BY DEF Here
<1>7. Within(was, rip, regs, stk)'
  <2>1. stub = StubOf(was)'
    BY <1>6 DEF StubOf
  <2> QED
    BY <1>2, <1>5, <2>1, Zenon DEF Within
<1>8. GoesOn'
  <2>1. ctx' # <<>> /\ was = ctx'[Len(ctx')]
    BY <1>6
  <2> QED
    BY <1>4, <1>7, <2>1 DEF GoesOn
<1>9. NowOK'
  <2>1. stk' \in Seq(Words)
    BY DEF Stacked
  <2> QED
    BY <1>4, <2>1 DEF IsrInv, NowOK
<1> QED
  BY <1>1, <1>8, <1>9 DEF IsrInv

LEMMA PushStep ==
  ASSUME IsrInv, push
  PROVE  IsrInv'
<1>1. PICK was, stub, l : Here(was, stub, l)
  BY WhereItIs DEF push
<1>2. stub \in Stubs /\ l \in 1 .. EndAt(stub) /\ CurInsn = InsnAt(stub, l) /\ was \in Saved
  BY <1>1 DEF Here
<1>3. l <= Count(stub) /\ CurInsn.reg = Pushes(stub)[l]
  BY <1>2, LineOf DEF push
<1>4. PICK x : x = Pushes(stub)[l]
  OBVIOUS
<1>5. /\ Count(stub) \in Nat /\ Count(stub) < EndAt(stub) /\ Count(stub) + 1 < CallAt(stub)
      /\ CallAt(stub) \in Nat /\ EndAt(stub) \in Nat /\ l \in 1 .. Count(stub)
  BY <1>2, <1>3, LinesAre
<1>6. x \in GenRegs
  BY <1>2, <1>4, <1>5, Mirror
<1>7. /\ regs = was.regs /\ \A r \in Restored(stub, l + 1) : regs[r] = was.regs[r]
      /\ regs \in [GenRegs -> Words]
  BY <1>1, <1>5 DEF Here, RegsAt
<1>8. stk' = Append(stk, was.regs[x]) /\ was.regs[x] \in Words
  BY <1>3, <1>4, <1>6, <1>7 DEF push
<1>9. Stacked(was, stub, stk', Depth(stub, l + 1))
  <2>1. Depth(stub, l) = l - 1 /\ Depth(stub, l + 1) = l
    BY <1>2, <1>3, Depths
  <2>2. Stacked(was, stub, stk, l - 1)
    BY <1>1, <2>1 DEF Here
  <2> HIDE DEF Stacked
  <2>3. Base(was) \in Nat
    BY <1>2, BaseIs
  <2>4. Len(stk) = Base(was) + (l - 1) /\ stk \in Seq(Words)
    BY <2>2 DEF Stacked
  <2>5. /\ Len(stk') = Base(was) + l /\ stk' \in Seq(Words)
        /\ \A k \in 1 .. Base(was) + (l - 1) : stk'[k] = stk[k]
        /\ stk'[Base(was) + l] = was.regs[x]
    <3>1. /\ stk' \in Seq(Words) /\ Len(stk') = Len(stk) + 1
          /\ \A k \in 1 .. Len(stk) : stk'[k] = stk[k]
          /\ stk'[Len(stk) + 1] = was.regs[x]
      <4>1. stk \in Seq(Words) /\ was.regs[x] \in Words /\ stk' = Append(stk, was.regs[x])
        BY <1>8, <2>4
      <4>2. PICK e \in Words : e = was.regs[x]
        BY <4>1
      <4>3. /\ Append(stk, e) \in Seq(Words) /\ Len(Append(stk, e)) = Len(stk) + 1
            /\ \A k \in 1 .. Len(stk) : Append(stk, e)[k] = stk[k]
            /\ Append(stk, e)[Len(stk) + 1] = e
        <5>1. stk \in Seq(Words) /\ e \in Words
          BY <2>4, <4>2
        <5> QED
          BY <5>1
      <4> QED
        BY <4>1, <4>2, <4>3
    <3>2. Len(stk) + 1 = Base(was) + l
      BY <1>5, <2>3, <2>4
    <3> QED
      BY <2>4, <3>1, <3>2
  <2>6. Framed(was, stk')
    <3>1. \A k \in 1 .. Base(was) : stk'[k] = stk[k]
      BY <1>5, <2>3, <2>5
    <3>2. Framed(was, stk)
      BY <2>2 DEF Stacked
    <3> QED
      BY <1>2, <3>1, <3>2, FrameKept
  <2>7. \A j \in 1 .. l : stk'[Base(was) + j] = was.regs[Pushes(stub)[j]]
    <3> TAKE j \in 1 .. l
    <3>1. CASE j = l
      BY <1>4, <2>5, <3>1
    <3>2. CASE j # l
      <4>1. j \in 1 .. l - 1 /\ Base(was) + j \in 1 .. Base(was) + (l - 1)
        BY <1>5, <2>3, <3>2
      <4> QED
        BY <2>2, <2>5, <4>1 DEF Stacked
    <3> QED
      BY <3>1, <3>2
  <2> QED
    BY <2>1, <2>5, <2>6, <2>7 DEF Stacked
<1>10. RegsAt(was, stub, regs', stk', l + 1)
  <2>1. regs' = regs
    BY DEF push
  <2>2. ~(l + 1 \in Count(stub) + 2 .. CallAt(stub)) /\ l + 1 # CallAt(stub)
    BY <1>5
  <2> QED
    BY <1>7, <2>1, <2>2 DEF RegsAt
<1> QED
  <2>1. /\ UNCHANGED <<boot, pic, idt, cs, ifl, ctx>> /\ rip' = Next_rip
        /\ said' \in {<<>>, <<Word("rdi", 0), Word("rsi", 0)>>}
        /\ regs' \in [GenRegs -> Words]
    BY DEF push, table_vars, IsrInv, NowOK
  <2>2. l < EndAt(stub)
    BY <1>5
  <2> QED
    BY <1>1, <1>9, <1>10, <2>1, <2>2, Onward

(* The same stack, further in the middle of the stub.                      *)
LEMMA SameStack ==
  ASSUME NEW was, NEW stub, NEW l, Here(was, stub, l),
         l \in Count(stub) + 1 .. CallAt(stub), stk' = stk
  PROVE  /\ Stacked(was, stub, stk', Depth(stub, l + 1)) /\ l < EndAt(stub)
         /\ Stacked(was, stub, stk, Count(stub))
<1>1. stub \in Stubs /\ l \in 1 .. EndAt(stub) /\ Stacked(was, stub, stk, Depth(stub, l))
  BY DEF Here
<1>2. Depth(stub, l) = Count(stub) /\ Depth(stub, l + 1) = Count(stub)
  BY <1>1, Depths
<1>3. l < EndAt(stub)
  BY <1>1, LinesAre
<1> QED
  BY <1>1, <1>2, <1>3, Zenon

LEMMA PtrIs ==
  ASSUME NEW s \in Seq(Words)
  PROVE  Word("ptr", Len(s)) \in Words
<1>1. "ptr" \in Kinds /\ Len(s) \in Nat
  BY KindsAre
<1> QED
  BY <1>1, WordIs, Zenon

LEMMA MovStep ==
  ASSUME IsrInv, mov
  PROVE  IsrInv'
<1>1. PICK was, stub, l : Here(was, stub, l)
  BY WhereItIs DEF mov
<1>2. stub \in Stubs /\ l \in 1 .. EndAt(stub) /\ CurInsn = InsnAt(stub, l)
  BY <1>1 DEF Here
<1>3. l = Count(stub) + 1
  BY <1>2, LineOf DEF mov
<1>4. /\ Count(stub) \in Nat /\ CallAt(stub) \in Nat /\ Count(stub) + 1 < CallAt(stub)
      /\ stub = "isr_except" => CallAt(stub) = Count(stub) + 3
  BY <1>2, LinesAre
<1>5. /\ UNCHANGED <<boot, pic, idt, cs, ifl, ctx>> /\ rip' = Next_rip
      /\ said' \in {<<>>, <<Word("rdi", 0), Word("rsi", 0)>>} /\ stk' = stk
      /\ regs \in [GenRegs -> Words] /\ stk \in Seq(Words)
      /\ regs' = [regs EXCEPT !["rdi"] = Word("ptr", Len(stk))]
  BY DEF mov, table_vars, IsrInv, NowOK
<1>6. l \in Count(stub) + 1 .. CallAt(stub)
  BY <1>3, <1>4
<1>7. Stacked(was, stub, stk', Depth(stub, l + 1)) /\ l < EndAt(stub)
  BY <1>1, <1>5, <1>6, SameStack, Zenon
<1>8. regs' \in [GenRegs -> Words]
  BY <1>5, PtrIs
<1>9. RegsAt(was, stub, regs', stk', l + 1)
  <2>1. ~(l + 1 <= Count(stub) + 1) /\ ~(l + 1 = CallAt(stub) /\ stub = "isr_except")
    BY <1>3, <1>4
  <2>2. "rdi" \in GenRegs
    BY RegNames
  <2>3. regs'["rdi"] = Word("ptr", Len(stk'))
    BY <1>5, <2>2
  <2>4. Restored(stub, l + 1) = GenRegs \ CallerSaved /\ GenRegs \ CallerSaved \subseteq Restored(stub, l)
    <3>1. 1 .. (l + 1) - CallAt(stub) - 1 = {}
      BY <1>3, <1>4
    <3> QED
      BY <3>1 DEF Restored
  <2>5. \A r \in Restored(stub, l) : regs[r] = was.regs[r]
    BY <1>1 DEF Here, RegsAt
  <2>6. \A r \in Restored(stub, l + 1) : regs'[r] = was.regs[r]
    BY <1>5, <2>4, <2>5 DEF CallerSaved
  <2> QED
    BY <1>8, <2>1, <2>3, <2>6 DEF RegsAt
<1> QED
  BY <1>1, <1>5, <1>7, <1>8, <1>9, Onward

LEMMA LeaStep ==
  ASSUME IsrInv, lea
  PROVE  IsrInv'
<1>1. PICK was, stub, l : Here(was, stub, l)
  BY WhereItIs DEF lea
<1>2. stub \in Stubs /\ l \in 1 .. EndAt(stub) /\ CurInsn = InsnAt(stub, l) /\ was \in Saved
  BY <1>1 DEF Here
<1>3. l = Count(stub) + 2 /\ stub = "isr_except"
  BY <1>2, LineOf DEF lea
<1>4. Count(stub) = 15 /\ CallAt(stub) = 18
  BY <1>3 DEF Count, CallAt
<1>5. /\ UNCHANGED <<boot, pic, idt, cs, ifl, ctx>> /\ rip' = Next_rip
      /\ said' \in {<<>>, <<Word("rdi", 0), Word("rsi", 0)>>} /\ stk' = stk
      /\ regs \in [GenRegs -> Words] /\ stk \in Seq(Words)
      /\ regs' = [regs EXCEPT !["rsi"] = Word("ptr", Len(stk) - 15)]
  BY DEF lea, table_vars, IsrInv, NowOK
<1>6. l \in Count(stub) + 1 .. CallAt(stub)
  BY <1>3, <1>4
<1>7. /\ Stacked(was, stub, stk', Depth(stub, l + 1)) /\ l < EndAt(stub)
      /\ Stacked(was, stub, stk, Count(stub))
  BY <1>1, <1>5, <1>6, SameStack, Zenon
<1>8. regs' \in [GenRegs -> Words]
  <2>1. Len(stk) - 15 \in Nat
    <3>1. Len(stk) = Base(was) + 15 /\ Base(was) \in Nat
      BY <1>2, <1>4, <1>7, BaseIs DEF Stacked
    <3> QED
      BY <3>1
  <2>2. Word("ptr", Len(stk) - 15) \in Words
    <3>1. "ptr" \in Kinds
      BY KindsAre
    <3> QED
      BY <2>1, <3>1, WordIs, Zenon
  <2> QED
    BY <1>5, <2>2
<1>9. RegsAt(was, stub, regs', stk', l + 1)
  <2>1. ~(l + 1 <= Count(stub) + 1) /\ l \in Count(stub) + 2 .. CallAt(stub)
    BY <1>3, <1>4
  <2>2. "rdi" \in GenRegs /\ "rsi" \in GenRegs
    BY RegNames
  <2>3. regs["rdi"] = Word("ptr", Len(stk))
    BY <1>1, <2>1 DEF Here, RegsAt
  <2>4. regs'["rdi"] = Word("ptr", Len(stk')) /\ regs'["rsi"] = Word("ptr", Len(stk') - 15)
    BY <1>5, <2>2, <2>3
  <2>5. Restored(stub, l + 1) = GenRegs \ CallerSaved /\ GenRegs \ CallerSaved \subseteq Restored(stub, l)
    <3>1. 1 .. (l + 1) - CallAt(stub) - 1 = {}
      BY <1>3, <1>4
    <3> QED
      BY <3>1 DEF Restored
  <2>6. \A r \in Restored(stub, l) : regs[r] = was.regs[r]
    BY <1>1 DEF Here, RegsAt
  <2>7. \A r \in Restored(stub, l + 1) : regs'[r] = was.regs[r]
    BY <1>5, <2>5, <2>6 DEF CallerSaved
  <2> QED
    BY <1>8, <2>1, <2>4, <2>7 DEF RegsAt
<1> QED
  BY <1>1, <1>5, <1>7, <1>8, <1>9, Onward

(* A body returns.                                                         *)
LEMMA BodyStep ==
  ASSUME IsrInv, NEW s, Body(s), said' \in {<<>>, <<Word("rdi", 0), Word("rsi", 0)>>}
  PROVE  IsrInv'
<1>1. PICK was, stub, l : Here(was, stub, l)
  BY WhereItIs DEF Body
<1>2. stub \in Stubs /\ l \in 1 .. EndAt(stub) /\ CurInsn = InsnAt(stub, l)
  BY <1>1 DEF Here
<1>3. l = CallAt(stub)
  BY <1>2, LineOf DEF Body
<1>4. Count(stub) \in Nat /\ CallAt(stub) \in Nat /\ Count(stub) + 1 < CallAt(stub)
  BY <1>2, LinesAre
<1>5. /\ UNCHANGED <<boot, pic, idt, cs, ifl, ctx>> /\ rip' = Next_rip /\ stk' = stk
      /\ regs \in [GenRegs -> Words]
      /\ regs' = [r \in GenRegs |-> IF r \in CallerSaved THEN Word("junk", 0) ELSE regs[r]]
  BY DEF Body, table_vars, IsrInv, NowOK
<1>6. l \in Count(stub) + 1 .. CallAt(stub)
  BY <1>3, <1>4
<1>7. Stacked(was, stub, stk', Depth(stub, l + 1)) /\ l < EndAt(stub)
  BY <1>1, <1>5, <1>6, SameStack, Zenon
<1>8. regs' \in [GenRegs -> Words]
  <2>1. Word("junk", 0) \in Words
    <3>1. "junk" \in Kinds
      BY KindsAre
    <3>2. 0 \in Nat
      OBVIOUS
    <3> QED
      BY <3>1, <3>2, WordIs, Zenon
  <2> QED
    BY <1>5, <2>1
<1>9. RegsAt(was, stub, regs', stk', l + 1)
  <2>1. ~(l + 1 <= Count(stub) + 1) /\ ~(l + 1 <= CallAt(stub)) /\ l + 1 # CallAt(stub)
    BY <1>3, <1>4
  <2>2. ~(l + 1 \in Count(stub) + 2 .. CallAt(stub))
    BY <1>3, <1>4
  <2>3. Restored(stub, l + 1) = GenRegs \ CallerSaved /\ GenRegs \ CallerSaved \subseteq Restored(stub, l)
    <3>1. 1 .. (l + 1) - CallAt(stub) - 1 = {}
      BY <1>3, <1>4
    <3> QED
      BY <3>1 DEF Restored
  <2>4. \A r \in Restored(stub, l) : regs[r] = was.regs[r]
    BY <1>1 DEF Here, RegsAt
  <2>5. \A r \in Restored(stub, l + 1) : regs'[r] = was.regs[r]
    BY <1>5, <2>3, <2>4
  <2> QED
    BY <1>8, <2>1, <2>2, <2>5 DEF RegsAt
<1> QED
  BY <1>1, <1>5, <1>7, <1>8, <1>9, Onward

(* A word popped.                                                          *)
LEMMA Popped ==
  ASSUME NEW T, NEW s \in Seq(T), Len(s) # 0
  PROVE  /\ Front(s) \in Seq(T) /\ Len(Front(s)) = Len(s) - 1
         /\ \A k \in 1 .. Len(s) - 1 : Front(s)[k] = s[k]
<1>1. PICK n \in Nat : n = Len(s) - 1
  OBVIOUS
<1>2. n <= Len(s)
  BY <1>1
<1>3. /\ SubSeq(s, 1, n) \in Seq(T) /\ Len(SubSeq(s, 1, n)) = n
      /\ \A k \in 1 .. n : SubSeq(s, 1, n)[k] = s[k]
  BY <1>2
<1> QED
  BY <1>1, <1>3 DEF Front

LEMMA PopStep ==
  ASSUME IsrInv, pop
  PROVE  IsrInv'
<1>1. PICK was, stub, l : Here(was, stub, l)
  BY WhereItIs DEF pop
<1>2. stub \in Stubs /\ l \in 1 .. EndAt(stub) /\ CurInsn = InsnAt(stub, l) /\ was \in Saved
  BY <1>1 DEF Here
<1>3. l > CallAt(stub) /\ l < EndAt(stub) /\ CurInsn.reg = Pops(stub)[l - CallAt(stub)]
  BY <1>2, LineOf DEF pop
<1>4. /\ Count(stub) \in Nat /\ CallAt(stub) \in Nat /\ Count(stub) + 1 < CallAt(stub)
      /\ EndAt(stub) = CallAt(stub) + Count(stub) + 1 /\ l \in Nat
  BY <1>2, LinesAre
<1>5. PICK d : d = EndAt(stub) - l
  OBVIOUS
<1>6. d \in 1 .. Count(stub) /\ l - CallAt(stub) = Count(stub) + 1 - d /\ d \in Nat
  BY <1>3, <1>4, <1>5
<1>7. PICK x : x = Pushes(stub)[d]
  OBVIOUS
<1>8. CurInsn.reg = x /\ x \in GenRegs
  <2>1. /\ Pushes(stub) \in Seq(GenRegs) /\ Len(Pushes(stub)) = Count(stub)
        /\ \A j \in 1 .. Count(stub) : Pops(stub)[j] = Pushes(stub)[Count(stub) + 1 - j]
    BY <1>2, Mirror
  <2>2. Count(stub) + 1 - d \in 1 .. Count(stub) /\ Count(stub) + 1 - (Count(stub) + 1 - d) = d
    BY <1>4, <1>6
  <2>3. Pops(stub)[Count(stub) + 1 - d] = Pushes(stub)[d]
    BY <2>1, <2>2
  <2>4. x \in GenRegs
    BY <1>6, <1>7, <2>1
  <2> QED
    BY <1>3, <1>6, <1>7, <2>3, <2>4
<1>9. Stacked(was, stub, stk, d) /\ Depth(stub, l + 1) = d - 1
  BY <1>1, <1>2, <1>3, <1>5, Depths DEF Here
<1>10. Base(was) \in Nat /\ stk \in Seq(Words) /\ Len(stk) = Base(was) + d
  BY <1>2, <1>9, BaseIs DEF Stacked
<1>11. regs' = [regs EXCEPT ![x] = was.regs[x]] /\ was.regs[x] \in Words
  <2>1. Top(0) = stk[Base(was) + d]
    BY <1>6, <1>10 DEF Top
  <2>2. Top(0) = was.regs[x]
    BY <1>6, <1>7, <1>9, <2>1 DEF Stacked
  <2>3. was.regs \in [GenRegs -> Words]
    BY <1>2 DEF Saved
  <2> QED
    BY <1>8, <2>2, <2>3 DEF pop
<1>12. stk' \in Seq(Words) /\ Len(stk') = Base(was) + (d - 1)
       /\ \A k \in 1 .. Base(was) + (d - 1) : stk'[k] = stk[k]
  <2>1. Len(stk) # 0 /\ Len(stk) - 1 = Base(was) + (d - 1)
    BY <1>6, <1>10
  <2>2. stk' = Front(stk)
    BY DEF pop
  <2>3. /\ stk' \in Seq(Words) /\ Len(stk') = Len(stk) - 1
        /\ \A k \in 1 .. Len(stk) - 1 : stk'[k] = stk[k]
    BY <1>10, <2>1, <2>2, Popped, Zenon
  <2> QED
    BY <2>1, <2>3
<1>13. Stacked(was, stub, stk', Depth(stub, l + 1))
  <2>1. Framed(was, stk')
    <3>1. \A k \in 1 .. Base(was) : stk'[k] = stk[k]
      BY <1>6, <1>10, <1>12
    <3>2. Framed(was, stk)
      BY <1>9 DEF Stacked
    <3> QED
      BY <1>2, <3>1, <3>2, FrameKept
  <2>2. ASSUME NEW j \in 1 .. d - 1
        PROVE  stk'[Base(was) + j] = was.regs[Pushes(stub)[j]]
    <3>1. Base(was) + j \in 1 .. Base(was) + (d - 1) /\ j \in 1 .. d
      BY <1>6, <1>10
    <3> QED
      BY <1>9, <1>12, <3>1 DEF Stacked
  <2> QED
    BY <1>9, <1>12, <2>1, <2>2 DEF Stacked
<1>14. regs \in [GenRegs -> Words] /\ regs' \in [GenRegs -> Words]
  BY <1>8, <1>11 DEF IsrInv, NowOK
<1>15. RegsAt(was, stub, regs', stk', l + 1)
  <2>1. /\ ~(l + 1 <= Count(stub) + 1) /\ l + 1 # CallAt(stub)
        /\ ~(l + 1 \in Count(stub) + 2 .. CallAt(stub))
    BY <1>3, <1>4
  <2>2. \A r \in Restored(stub, l) : regs[r] = was.regs[r]
    BY <1>1 DEF Here, RegsAt
  <2>3. Restored(stub, l + 1) \subseteq Restored(stub, l) \cup {x}
    <3>1. \A j \in 1 .. (l + 1) - CallAt(stub) - 1 :
            j \in 1 .. l - CallAt(stub) - 1 \/ j = l - CallAt(stub)
      BY <1>3, <1>4
    <3>2. Pops(stub)[l - CallAt(stub)] = x
      BY <1>3, <1>8
    <3> QED
      BY <3>1, <3>2 DEF Restored
  <2>4. Restored(stub, l + 1) \subseteq GenRegs
    <3>1. \A j \in 1 .. (l + 1) - CallAt(stub) - 1 : j \in 1 .. Count(stub)
      BY <1>3, <1>4
    <3>2. \A j \in 1 .. Count(stub) : Pops(stub)[j] \in GenRegs
      <4>1. Pops(stub) \in Seq(GenRegs) /\ Len(Pops(stub)) = Count(stub)
        BY <1>2, Mirror
      <4> QED
        BY <1>4, <4>1
    <3> QED
      BY <3>1, <3>2 DEF Restored
  <2>5. \A r \in Restored(stub, l + 1) : regs'[r] = was.regs[r]
    BY <1>11, <1>14, <2>2, <2>3, <2>4
  <2> QED
    BY <1>14, <2>1, <2>5 DEF RegsAt
<1> QED
  <2>1. /\ UNCHANGED <<boot, pic, idt, cs, ifl, ctx>> /\ rip' = Next_rip
        /\ said' \in {<<>>, <<Word("rdi", 0), Word("rsi", 0)>>}
    BY DEF pop, table_vars, IsrInv, NowOK
  <2> QED
    BY <1>1, <1>3, <1>13, <1>14, <1>15, <2>1, Onward

(* AtLine the end of a stub: what it returns to.                               *)
LEMMA AtEnd ==
  ASSUME IsrInv, InStub, CurInsn.op = "iretq"
  PROVE  LET was == Last(ctx) IN
         /\ was = ctx[Len(ctx)] /\ was \in Saved /\ CtxOf(was) /\ Len(ctx) \in Nat \ {0}
         /\ regs = was.regs
         /\ ~was.code =>
              /\ Top(0) = was.rip /\ Top(1) = was.cs
              /\ Top(2) = Word("flags", IF was.ifl THEN 1 ELSE 0)
              /\ Top(3) = Word("rsp", Len(was.stk)) /\ SubSeq(stk, 1, Len(was.stk)) = was.stk
         /\ was.code => Top(1) = was.rip
<1>1. PICK was, stub, l : Here(was, stub, l)
  BY WhereItIs
<1>2. /\ stub \in Stubs /\ l \in 1 .. EndAt(stub) /\ CurInsn = InsnAt(stub, l) /\ was \in Saved
      /\ was = ctx[Len(ctx)] /\ CtxOf(was) /\ ctx \in Seq(Saved) /\ Len(ctx) \in Nat \ {0}
  BY <1>1 DEF Here
<1>3. Last(ctx) = was
  BY <1>2 DEF Last
<1>4. l = EndAt(stub)
  BY <1>2, LineOf
<1>5. /\ Count(stub) \in Nat /\ CallAt(stub) \in Nat /\ Count(stub) + 1 < CallAt(stub)
      /\ EndAt(stub) = CallAt(stub) + Count(stub) + 1
  BY <1>2, LinesAre
<1>6. regs = was.regs
  <2>1. EndAt(stub) - CallAt(stub) - 1 = Count(stub)
    BY <1>5
  <2>2. GenRegs \subseteq Restored(stub, EndAt(stub))
    BY <1>2, <2>1, Mirror DEF Restored
  <2>3. \A r \in GenRegs : regs[r] = was.regs[r]
    BY <1>1, <1>4, <2>2 DEF Here, RegsAt
  <2>4. regs \in [GenRegs -> Words] /\ was.regs \in [GenRegs -> Words]
    BY <1>2 DEF IsrInv, NowOK, Saved
  <2> QED
    BY <2>3, <2>4
<1>7. Stacked(was, stub, stk, 0)
  <2>1. Depth(stub, l) = 0
    <3>1. l > CallAt(stub)
      BY <1>4, <1>5
    <3>2. Depth(stub, l) = EndAt(stub) - l
      BY <1>2, <3>1, Depths
    <3> QED
      BY <1>4, <1>5, <3>2
  <2> QED
    BY <1>1, <2>1 DEF Here
<1>8. /\ Base(was) \in Nat /\ FrameAt(was) \in Nat /\ stk \in Seq(Words)
      /\ Len(stk) = Base(was) /\ Framed(was, stk) /\ Len(was.stk) \in Nat /\ was.stk \in Seq(Words)
  BY <1>2, <1>7, BaseIs DEF Stacked, Saved
<1>9. CASE was.code
  <2>1. Base(was) - 1 = FrameAt(was) + 5
    BY <1>8, <1>9 DEF Base
  <2>2. Top(1) = was.rip
    BY <1>8, <2>1 DEF Top, Framed
  <2> QED
    BY <1>2, <1>3, <1>6, <1>9, <2>2
<1>10. CASE ~was.code
  <2>1. Base(was) = FrameAt(was) + 5
    BY <1>8, <1>10 DEF Base
  <2>2. /\ Len(stk) - 0 = FrameAt(was) + 5 /\ Len(stk) - 1 = FrameAt(was) + 4
        /\ Len(stk) - 2 = FrameAt(was) + 3 /\ Len(stk) - 3 = FrameAt(was) + 2
    BY <1>8, <2>1
  <2>3. /\ Top(0) = was.rip /\ Top(1) = was.cs
        /\ Top(2) = Word("flags", IF was.ifl THEN 1 ELSE 0) /\ Top(3) = Word("rsp", Len(was.stk))
    BY <1>8, <2>2 DEF Top, Framed
  <2>4. Len(was.stk) <= Len(stk)
    <3>1. FrameAt(was) >= Len(was.stk)
      BY <1>8, Even, Zenon DEF FrameAt
    <3> QED
      BY <1>8, <2>1, <3>1
  <2>5. PICK t : t = SubSeq(stk, 1, Len(was.stk))
    OBVIOUS
  <2>6. /\ t \in Seq(Words) /\ Len(t) = Len(was.stk)
        /\ \A k \in 1 .. Len(was.stk) : t[k] = stk[k]
    BY <1>8, <2>4, <2>5
  <2>7. t = was.stk
    BY <1>8, <2>6, SeqEqual DEF Framed
  <2> QED
    BY <1>2, <1>3, <1>6, <1>10, <2>3, <2>5, <2>7
<1> QED
  BY <1>9, <1>10

(* What the invariant says of the contexts, when the table stays.          *)
LEMMA SameTable ==
  ASSUME idt' = idt
  PROVE  /\ \A w : CtxOf(w)' <=> CtxOf(w)
         /\ \A w, r, g, s : Within(w, r, g, s)' <=> Within(w, r, g, s)
  BY DEF CtxOf, Within, StubOf

LEMMA IretqStep ==
  ASSUME IsrInv, iretq
  PROVE  IsrInv'
<1>1. PICK was : was = Last(ctx)
  OBVIOUS
<1>2. /\ was = ctx[Len(ctx)] /\ was \in Saved /\ CtxOf(was) /\ Len(ctx) \in Nat \ {0}
      /\ regs = was.regs
      /\ ~was.code =>
           /\ Top(0) = was.rip /\ Top(1) = was.cs
           /\ Top(2) = Word("flags", IF was.ifl THEN 1 ELSE 0)
           /\ Top(3) = Word("rsp", Len(was.stk)) /\ SubSeq(stk, 1, Len(was.stk)) = was.stk
      /\ was.code => Top(1) = was.rip
  BY <1>1, AtEnd DEF iretq
<1>3. ~was.code
  BY <1>2 DEF iretq, CtxOf
<1>4. /\ rip' = was.rip /\ cs' = was.cs /\ regs' = was.regs /\ ifl' \in BOOLEAN
      /\ ctx' = Front(ctx) /\ UNCHANGED <<boot, pic, idt, said>>
  BY <1>2, <1>3 DEF iretq, table_vars
<1>5. stk' = was.stk
  <2>1. Top(3).v = Len(was.stk)
    BY <1>2, <1>3 DEF Word
  <2> QED
    BY <1>2, <1>3, <2>1 DEF iretq
<1>6. /\ was.rip \in Words /\ was.cs \in Words /\ was.regs \in [GenRegs -> Words]
      /\ was.stk \in Seq(Words) /\ was.cs.w = "cs" /\ was.rip.w \in {"main", "isr"}
  BY <1>2 DEF Saved, CtxOf
<1>7. NowOK'
  BY <1>4, <1>5, <1>6 DEF IsrInv, NowOK
<1>8. IdtOK' /\ TablesFirst'
  BY <1>4 DEF IsrInv, IdtOK, TablesFirst
<1>9. PICK n \in Nat : n = Len(ctx) - 1
  BY <1>2
<1>10. /\ ctx' \in Seq(Saved) /\ Len(ctx') = n /\ \A k \in 1 .. n : ctx'[k] = ctx[k]
  <2>1. Len(ctx) # 0 /\ ctx \in Seq(Saved)
    BY <1>2 DEF IsrInv, CtxOK
  <2>2. /\ Front(ctx) \in Seq(Saved) /\ Len(Front(ctx)) = Len(ctx) - 1
        /\ \A k \in 1 .. Len(ctx) - 1 : Front(ctx)[k] = ctx[k]
    BY <2>1, Popped, Zenon
  <2> QED
    BY <1>4, <1>9, <2>2
<1>11. CtxOK'
  <2>1. \A k \in 1 .. n : CtxOf(ctx[k])
    BY <1>9 DEF IsrInv, CtxOK
  <2>2. \A k \in 1 .. n : CtxOf(ctx[k])'
    BY <1>4, <1>10, <2>1 DEF CtxOf, StubOf
  <2> QED
    BY <1>10, <2>2 DEF CtxOK
<1>12. Nested'
  <2> SUFFICES ASSUME NEW k \in 1 .. n
               PROVE  IF k = 1 THEN ctx'[k].rip.w = "main"
                      ELSE /\ ctx'[k].rip.w = "isr"
                           /\ Within(ctx[k - 1], ctx[k].rip, ctx[k].regs, ctx[k].stk)'
    BY <1>10 DEF Nested
  <2>1. k \in 1 .. Len(ctx) /\ ctx'[k] = ctx[k]
    BY <1>9, <1>10
  <2>2. CASE k = 1
    BY <2>1, <2>2 DEF IsrInv, Nested
  <2>3. CASE k # 1
    <3>1. ctx'[k - 1] = ctx[k - 1]
      BY <1>9, <1>10, <2>3
    <3>2. /\ ctx[k].rip.w = "isr"
          /\ Within(ctx[k - 1], ctx[k].rip, ctx[k].regs, ctx[k].stk)
      BY <2>1, <2>3 DEF IsrInv, Nested
    <3> QED
      BY <1>4, <2>1, <2>3, <3>1, <3>2 DEF Within, StubOf
  <2> QED
    BY <2>2, <2>3
<1>13. GoesOn'
  <2>1. CASE n = 0
    <3>1. ctx' = <<>>
      BY <1>10, <2>1
    <3>2. was.rip.w = "main"
      <4>1. Len(ctx) = 1 /\ 1 \in 1 .. Len(ctx)
        <5>1. Len(ctx) \in Nat \ {0}
          BY <1>2
        <5> QED
          BY <1>9, <2>1, <5>1
      <4> QED
        BY <1>2, <4>1 DEF IsrInv, Nested
    <3>3. Plain(regs')
      BY <1>2, <1>4, <3>2 DEF CtxOf
    <3> QED
      BY <1>4, <3>1, <3>2, <3>3 DEF GoesOn, Plain
  <2>2. CASE n # 0
    <3>1. n \in 1 .. Len(ctx) /\ Len(ctx) \in 1 .. Len(ctx) /\ Len(ctx) # 1 /\ Len(ctx) - 1 = n
      BY <1>2, <1>9, <2>2
    <3>2. was.rip.w = "isr" /\ Within(ctx[n], was.rip, was.regs, was.stk)
      BY <1>2, <3>1 DEF IsrInv, Nested
    <3>3. ctx' # <<>> /\ ctx'[Len(ctx')] = ctx[n]
      BY <1>9, <1>10, <2>2
    <3>4. Within(ctx[n], rip', regs', stk')
      BY <1>4, <1>5, <3>2
    <3>5. StubOf(ctx[n]) = idt'[ctx[n].vec].stub
      BY <1>4 DEF StubOf
    <3>6. \E l \in 1 .. EndAt(idt'[ctx[n].vec].stub) :
             AtLine(ctx[n], idt'[ctx[n].vec].stub, rip', regs', stk', l)
      BY <3>4, <3>5 DEF Within
    <3>7. rip'.w = "isr"
      BY <1>4, <3>2
    <3> QED
      BY <3>3, <3>6, <3>7 DEF GoesOn, Within, StubOf
  <2> QED
    BY <2>1, <2>2
<1> QED
  BY <1>7, <1>8, <1>11, <1>12, <1>13 DEF IsrInv

LEMMA LostStep ==
  ASSUME IsrInv, iretq_lost
  PROVE  IsrInv'
<1>1. /\ UNCHANGED <<boot, pic, idt, cs, ifl, regs, stk, said, ctx>>
      /\ rip' = Word("lost", 0)
  BY DEF iretq_lost, table_vars
<1>2. rip' \in Words /\ rip'.w = "lost"
  <2>1. "lost" \in Kinds /\ 0 \in Nat
    BY KindsAre
  <2> QED
    BY <1>1, <2>1, WordIs
<1>3. IdtOK' /\ TablesFirst'
  BY <1>1 DEF IsrInv, IdtOK, TablesFirst
<1>4. NowOK'
  BY <1>1, <1>2 DEF IsrInv, NowOK
<1>5. CtxOK'
  BY <1>1, SameTable DEF IsrInv, CtxOK
<1>6. Nested'
  BY <1>1 DEF IsrInv, Nested, Within, StubOf
<1>7. GoesOn'
  BY <1>2 DEF GoesOn
<1> QED
  BY <1>3, <1>4, <1>5, <1>6, <1>7 DEF IsrInv

(* The stack that the processor builds when it enters a stub.              *)
PadWords(was) == IF Len(was.stk) % 2 = 1 THEN <<Word("pad", 0)>> ELSE <<>>
FrameWords(was) ==
  << Word("ss", 16), Word("rsp", Len(was.stk)), Word("flags", IF was.ifl THEN 1 ELSE 0),
     was.cs, was.rip >>
CodeWord(was) == IF was.code THEN <<Word("e", was.vec)>> ELSE <<>>

LEMMA FrameBuilt ==
  ASSUME NEW was \in Saved, NEW stub, NEW s,
         s = was.stk \o PadWords(was) \o FrameWords(was) \o CodeWord(was)
  PROVE  Stacked(was, stub, s, 0)
<1>1. PICK pad : pad = PadWords(was)
  OBVIOUS
<1>2. PICK f2 : f2 = Word("rsp", Len(was.stk))
  OBVIOUS
<1>3. PICK f3 : f3 = Word("flags", IF was.ifl THEN 1 ELSE 0)
  OBVIOUS
<1>4. PICK f1 : f1 = Word("ss", 16)
  OBVIOUS
<1>5. PICK frame : frame = FrameWords(was)
  OBVIOUS
<1>6. PICK tail : tail = CodeWord(was)
  OBVIOUS
<1>7. PICK st : st = was.stk
  OBVIOUS
<1>8. s = st \o pad \o frame \o tail
  BY <1>1, <1>5, <1>6, <1>7
<1>9. st \in Seq(Words) /\ Len(st) \in Nat /\ was.vec \in Nat /\ was.cs \in Words /\ was.rip \in Words
  <2>1. was.vec \in Vectors
    BY DEF Saved
  <2>2. Vectors \subseteq Nat
    BY IsrAssumption
  <2>3. was.vec \in Nat
    BY <2>1, <2>2
  <2> QED
    BY <1>7, <2>3 DEF Saved
<1>10. f1 \in Words /\ f2 \in Words /\ f3 \in Words
  <2>1. "ss" \in Kinds /\ "rsp" \in Kinds /\ "flags" \in Kinds /\ 16 \in Nat /\ 0 \in Nat /\ 1 \in Nat
    BY KindsAre
  <2>2. f1 \in Words
    BY <1>4, <2>1, WordIs
  <2>3. Len(was.stk) \in Nat
    BY <1>7, <1>9
  <2>4. f2 \in Words
    BY <1>2, <2>1, <2>3, WordIs, Zenon
  <2>5. Word("flags", 0) \in Words /\ Word("flags", 1) \in Words
    BY <2>1, WordIs, Zenon
  <2> QED
    BY <1>3, <2>2, <2>4, <2>5
<1>11. pad \in Seq(Words) /\ Len(pad) = Len(st) % 2
  <2>1. Len(st) % 2 \in {0, 1}
    BY <1>9, Even
  <2>2. Word("pad", 0) \in Words
    <3>1. "pad" \in Kinds /\ 0 \in Nat
      BY KindsAre
    <3> QED
      BY <3>1, WordIs, Zenon
  <2>3. PICK x \in Words : x = Word("pad", 0)
    BY <2>2
  <2>4. <<x>> \in Seq(Words) /\ Len(<<x>>) = 1 /\ <<>> \in Seq(Words) /\ Len(<<>>) = 0
    OBVIOUS
  <2> QED
    BY <1>1, <1>7, <2>1, <2>3, <2>4 DEF PadWords
<1>12. frame \in Seq(Words) /\ Len(frame) = 5
  <2>1. frame = <<f1, f2, f3, was.cs, was.rip>>
    BY <1>2, <1>3, <1>4, <1>5 DEF FrameWords
  <2> QED
    BY <2>1, <1>9, <1>10
<1>13. frame[2] = f2 /\ frame[3] = f3 /\ frame[4] = was.cs /\ frame[5] = was.rip
  <2>1. frame = <<f1, f2, f3, was.cs, was.rip>>
    BY <1>2, <1>3, <1>4, <1>5 DEF FrameWords
  <2> QED
    BY <2>1
<1>14. /\ tail \in Seq(Words) /\ Len(tail) = (IF was.code THEN 1 ELSE 0)
       /\ was.code => tail[1] = Word("e", was.vec)
  <2>1. Word("e", was.vec) \in Words
    <3>1. "e" \in Kinds
      BY KindsAre
    <3> QED
      BY <1>9, <3>1, WordIs, Zenon
  <2>2. PICK x \in Words : x = Word("e", was.vec)
    BY <2>1
  <2>3. /\ <<x>> \in Seq(Words) /\ Len(<<x>>) = 1 /\ <<x>>[1] = x
        /\ <<>> \in Seq(Words) /\ Len(<<>>) = 0
    OBVIOUS
  <2> QED
    BY <1>6, <2>2, <2>3 DEF CodeWord
<1>15. ASSUME NEW l \in Nat
       PROVE  Element(l, s, st, pad, frame, tail)
  BY <1>8, <1>9, <1>11, <1>12, <1>14, FourJoined, Zenon
<1>16. PICK F \in Nat : F = FrameAt(was)
  BY BaseIs
<1>17. F = Len(st) + Len(pad) /\ F >= Len(st)
  <2>1. F = Len(st) + Len(pad)
    BY <1>7, <1>11, <1>16, Zenon DEF FrameAt
  <2>2. Len(st) + (Len(st) % 2) >= Len(st)
    BY <1>9, Even, Zenon
  <2> QED
    BY <1>11, <2>1, <2>2, Zenon
<1>18. PICK B \in Nat : B = Base(was)
  BY BaseIs
<1>19. B = F + 5 + Len(tail) /\ (was.code => B = F + 6)
  BY <1>14, <1>16, <1>18 DEF Base
<1>20. s \in Seq(Words) /\ Len(s) = B
  <2>1. PICK u : u = st \o pad
    OBVIOUS
  <2>2. u \in Seq(Words) /\ Len(u) = Len(st) + Len(pad)
    BY <1>9, <1>11, <2>1, Joined, Zenon
  <2>3. PICK w : w = u \o frame
    OBVIOUS
  <2>4. w \in Seq(Words) /\ Len(w) = Len(u) + Len(frame)
    BY <1>12, <2>2, <2>3, Joined, Zenon
  <2>5. s = w \o tail
    BY <1>8, <2>1, <2>3
  <2>6. s \in Seq(Words) /\ Len(s) = Len(w) + Len(tail)
    <3>1. tail \in Seq(Words) /\ w \in Seq(Words)
      BY <1>14, <2>4
    <3>2. w \o tail \in Seq(Words) /\ Len(w \o tail) = Len(w) + Len(tail)
      BY <3>1, Joined, Zenon
    <3> QED
      BY <2>5, <3>2, Zenon
  <2> QED
    BY <1>12, <1>17, <1>19, <2>2, <2>4, <2>6
<1>21. \A j \in 1 .. Len(st) : s[j] = st[j]
  <2> TAKE j \in 1 .. Len(st)
  <2>1. j \in Nat
    BY <1>9
  <2>2. Element(j, s, st, pad, frame, tail)
    BY <1>15, <2>1
  <2> QED
    BY <2>2 DEF Element
<1>22. /\ s[F + 2] = frame[2] /\ s[F + 3] = frame[3] /\ s[F + 4] = frame[4]
       /\ s[F + 5] = frame[5]
  <2>1. ASSUME NEW k \in 1 .. 5
        PROVE  s[F + k] = frame[k]
    <3>1. /\ F + k \in Nat /\ (F + k) - F = k
          /\ F + k \in F + 1 .. F + 5
      OBVIOUS
    <3>2. Element(F + k, s, st, pad, frame, tail)
      BY <1>15, <3>1
    <3>3. /\ Len(st) + Len(pad) = F /\ Len(frame) = 5
      BY <1>12, <1>17
    <3>4. F + k \in Len(st) + Len(pad) + 1 .. Len(st) + Len(pad) + Len(frame) =>
            s[F + k] = frame[(F + k) - (Len(st) + Len(pad))]
      BY <3>2 DEF Element
    <3>5. /\ (F + k) - (Len(st) + Len(pad)) = k
          /\ F + k \in Len(st) + Len(pad) + 1 .. Len(st) + Len(pad) + Len(frame)
      BY <3>1, <3>3
    <3> QED
      BY <3>4, <3>5, Zenon
  <2>2. 2 \in 1 .. 5 /\ 3 \in 1 .. 5 /\ 4 \in 1 .. 5 /\ 5 \in 1 .. 5
    OBVIOUS
  <2> QED
    BY <2>1, <2>2, Zenon
<1>23. was.code => s[F + 6] = tail[1]
  <2> SUFFICES ASSUME was.code
               PROVE  s[F + 6] = tail[1]
    OBVIOUS
  <2>1. /\ F + 6 \in Nat /\ (F + 6) - (F + 5) = 1 /\ F + 6 \in F + 5 + 1 .. F + 5 + 1
    OBVIOUS
  <2>2. Element(F + 6, s, st, pad, frame, tail)
    BY <1>15, <2>1
  <2>3. Len(st) + Len(pad) = F /\ Len(frame) = 5 /\ Len(tail) = 1
    BY <1>12, <1>14, <1>17
  <2>4. F + 6 \in Len(st) + Len(pad) + Len(frame) + 1
                    .. Len(st) + Len(pad) + Len(frame) + Len(tail) =>
          s[F + 6] = tail[(F + 6) - (Len(st) + Len(pad) + Len(frame))]
    BY <2>2 DEF Element
  <2>5. /\ (F + 6) - (Len(st) + Len(pad) + Len(frame)) = 1
        /\ F + 6 \in Len(st) + Len(pad) + Len(frame) + 1
                    .. Len(st) + Len(pad) + Len(frame) + Len(tail)
    BY <2>1, <2>3
  <2> QED
    BY <2>4, <2>5, Zenon
<1>24. Framed(was, s)
  BY <1>2, <1>3, <1>7, <1>13, <1>14, <1>16, <1>21, <1>22, <1>23 DEF Framed
<1> QED
  <2>1. Base(was) + 0 = B /\ \A j \in 1 .. 0 : s[Base(was) + j] = was.regs[Pushes(stub)[j]]
    BY <1>18
  <2> QED
    BY <1>18, <1>20, <1>24, <2>1 DEF Stacked

(* The processor enters a stub, from main or from another stub.            *)
LEMMA EnterStep ==
  ASSUME IsrInv, NEW v \in Vectors, NEW r \in [GenRegs -> Words], NEW code \in BOOLEAN,
         Enter(v, r, code), rip.w \in {"main", "isr"},
         rip.w = "isr" => r = regs, rip.w = "main" => Plain(r),
         idt[v].stub = "isr_except" => (code <=> v \in TakesCode),
         idt[v].stub = "isr_syscall" => Plain(r)
  PROVE  IsrInv'
<1>1. PICK was : was = [vec |-> v, code |-> code, regs |-> r, stk |-> stk,
                        rip |-> rip, cs |-> cs, ifl |-> ifl]
  OBVIOUS
<1>2. /\ was.vec = v /\ was.code = code /\ was.regs = r /\ was.stk = stk
      /\ was.rip = rip /\ was.cs = cs /\ was.ifl = ifl
  BY <1>1
<1>3. was \in Saved
  BY <1>1 DEF IsrInv, NowOK, Saved
<1>4. /\ idt[v] # NULL_ENT /\ UNCHANGED <<boot, pic, idt, said>>
      /\ regs' = r /\ cs' = Word("cs", 8) /\ rip' = Word("isr", v * STUB_SIZE + 1)
      /\ ctx' = Append(ctx, was) /\ ifl' \in BOOLEAN
  <2>1. ifl \in BOOLEAN
    BY DEF IsrInv, NowOK
  <2> QED
    BY <1>1, <2>1 DEF Enter, table_vars
<1>5. stk' = was.stk \o PadWords(was) \o FrameWords(was) \o CodeWord(was)
  BY <1>2 DEF Enter, PadWords, FrameWords, CodeWord
<1>6. CtxOf(was)
  <2>1. StubOf(was) = idt[v].stub
    BY <1>2 DEF StubOf
  <2>2. cs.w = "cs"
    BY DEF IsrInv, NowOK
  <2> QED
    BY <1>2, <1>4, <2>1, <2>2 DEF CtxOf
<1>7. PICK stub \in Stubs : stub = StubOf(was)
  <2>1. IdtOK
    BY DEF IsrInv
  <2> QED
    BY <1>3, <1>6, <2>1, StubOfOK
<1>8. /\ Count(stub) \in Nat /\ CallAt(stub) \in Nat /\ EndAt(stub) \in 1 .. 63
      /\ Count(stub) + 1 < CallAt(stub)
      /\ (Count(stub) = 13 \/ Count(stub) = 15)
  BY <1>7, LinesAre DEF Count
<1>9. v \in Nat
  BY IsrAssumption
<1>10. AtLine(was, stub, rip', regs', stk', 1)
  <2>1. 1 <= Count(stub) /\ 1 \in 1 .. EndAt(stub)
    BY <1>8
  <2>2. Depth(stub, 1) = 0
    BY <2>1 DEF Depth
  <2>3. Stacked(was, stub, stk', 0)
    BY <1>3, <1>5, FrameBuilt
  <2>4. ~(1 \in Count(stub) + 2 .. CallAt(stub)) /\ 1 # CallAt(stub)
    BY <1>8
  <2>5. RegsAt(was, stub, regs', stk', 1)
    BY <1>2, <1>4, <2>4 DEF RegsAt
  <2> QED
    BY <1>2, <1>4, <2>2, <2>3, <2>5 DEF AtLine
<1>11. rip' \in Words /\ rip'.w = "isr" /\ cs' \in Words /\ cs'.w = "cs" /\ stk' \in Seq(Words)
  <2>1. "isr" \in Kinds /\ "cs" \in Kinds /\ 8 \in Nat
    BY KindsAre
  <2>2. v * STUB_SIZE + 1 \in Nat
    BY <1>9 DEF STUB_SIZE
  <2>3. rip' \in Words /\ rip'.w = "isr"
    BY <1>4, <2>1, <2>2, WordIs
  <2>4. cs' \in Words /\ cs'.w = "cs"
    BY <1>4, <2>1, WordIs
  <2>5. stk' \in Seq(Words)
    BY <1>10 DEF AtLine, Stacked
  <2> QED
    BY <2>3, <2>4, <2>5
<1>12. NowOK'
  BY <1>4, <1>11 DEF IsrInv, NowOK
<1>13. IdtOK' /\ TablesFirst'
  BY <1>4 DEF IsrInv, IdtOK, TablesFirst
<1>14. PICK n \in Nat : n = Len(ctx)
  BY DEF IsrInv, CtxOK
<1>15. /\ ctx' \in Seq(Saved) /\ Len(ctx') = n + 1 /\ ctx'[n + 1] = was
       /\ \A k \in 1 .. n : ctx'[k] = ctx[k]
  <2>1. ctx \in Seq(Saved)
    BY DEF IsrInv, CtxOK
  <2>2. /\ Append(ctx, was) \in Seq(Saved) /\ Len(Append(ctx, was)) = Len(ctx) + 1
        /\ \A k \in 1 .. Len(ctx) : Append(ctx, was)[k] = ctx[k]
        /\ Append(ctx, was)[Len(ctx) + 1] = was
    BY <1>3, <2>1, Pushed, Zenon
  <2> QED
    BY <1>4, <1>14, <2>2, Zenon
<1>16. CtxOK'
  <2>1. \A k \in 1 .. n : CtxOf(ctx[k])
    BY <1>14 DEF IsrInv, CtxOK
  <2>2. ASSUME NEW k \in 1 .. n + 1
        PROVE  CtxOf(ctx[k])'
    <3>1. CASE k \in 1 .. n
      <4>1. ctx'[k] = ctx[k] /\ CtxOf(ctx[k])
        BY <1>15, <2>1, <3>1
      <4> QED
        BY <1>4, <4>1 DEF CtxOf, StubOf
    <3>2. CASE k = n + 1
      <4>1. ctx'[k] = was
        BY <1>15, <3>2
      <4> QED
        BY <1>4, <1>6, <4>1 DEF CtxOf, StubOf
    <3> QED
      BY <3>1, <3>2
  <2> QED
    BY <1>15, <2>2 DEF CtxOK
<1>17. Nested'
  <2> SUFFICES ASSUME NEW k \in 1 .. n + 1
               PROVE  IF k = 1 THEN ctx'[k].rip.w = "main"
                      ELSE /\ ctx'[k].rip.w = "isr"
                           /\ Within(ctx[k - 1], ctx[k].rip, ctx[k].regs, ctx[k].stk)'
    BY <1>15 DEF Nested
  <2>1. CASE k \in 1 .. n /\ k = 1
    <3>1. ctx'[k] = ctx[k] /\ k \in 1 .. Len(ctx)
      BY <1>14, <1>15, <2>1
    <3> QED
      BY <2>1, <3>1 DEF IsrInv, Nested
  <2>2. CASE k \in 1 .. n /\ k # 1
    <3>1. k - 1 \in 1 .. n
      BY <2>2
    <3>2. ctx'[k] = ctx[k] /\ ctx'[k - 1] = ctx[k - 1] /\ k \in 1 .. Len(ctx)
      BY <1>14, <1>15, <2>2, <3>1
    <3>3. ctx[k].rip.w = "isr" /\ Within(ctx[k - 1], ctx[k].rip, ctx[k].regs, ctx[k].stk)
      BY <2>2, <3>2 DEF IsrInv, Nested
    <3> QED
      BY <1>4, <2>2, <3>2, <3>3 DEF Within, StubOf
  <2>3. CASE k = n + 1 /\ n = 0
    <3>1. ctx'[k] = was /\ k = 1
      BY <1>15, <2>3
    <3>2. ctx = <<>>
      <4>1. ctx \in Seq(Saved) /\ Len(ctx) = 0
        BY <1>14, <2>3 DEF IsrInv, CtxOK
      <4> QED
        BY <4>1
    <3>3. rip.w = "main"
      BY <3>2 DEF IsrInv, GoesOn
    <3> QED
      BY <1>2, <3>1, <3>3
  <2>4. CASE k = n + 1 /\ n # 0
    <3>1. ctx'[k] = was /\ k # 1 /\ k - 1 = n /\ n \in 1 .. n
      BY <1>15, <2>4
    <3>2. ctx'[k - 1] = ctx[n]
      BY <1>15, <3>1
    <3>3. ctx # <<>>
      BY <1>14, <2>4
    <3>4. rip.w = "isr"
      BY <3>3 DEF IsrInv, GoesOn
    <3>5. Within(ctx[n], rip, regs, stk) /\ r = regs
      BY <1>14, <3>4 DEF IsrInv, GoesOn
    <3>6. Within(ctx[n], was.rip, was.regs, was.stk) /\ was.rip.w = "isr"
      BY <1>2, <3>4, <3>5
    <3> QED
      BY <1>4, <3>1, <3>2, <3>6 DEF Within, StubOf
  <2>5. k \in 1 .. n \/ k = n + 1
    OBVIOUS
  <2> QED
    BY <2>1, <2>2, <2>3, <2>4, <2>5
<1>18. GoesOn'
  <2>1. ctx' # <<>> /\ ctx'[Len(ctx')] = was
    BY <1>15
  <2>2. StubOf(was)' = stub
    BY <1>4, <1>7 DEF StubOf
  <2>3. 1 \in 1 .. EndAt(stub)
    BY <1>8
  <2>4. \E l \in 1 .. EndAt(stub) : AtLine(was, stub, rip', regs', stk', l)
    BY <1>10, <2>3
  <2>5. Within(was, rip, regs, stk)'
    BY <2>2, <2>4, Zenon DEF Within
  <2> QED
    BY <1>11, <2>1, <2>5 DEF GoesOn
<1> QED
  BY <1>12, <1>13, <1>16, <1>17, <1>18 DEF IsrInv

LEMMA ExceptionStep ==
  ASSUME IsrInv, NEW v \in Vectors, exception(v)
  PROVE  IsrInv'
<1>1. rip.w = "main" /\ v < 32 /\ Enter(v, regs, HasCode(v)) /\ v \in Nat
  BY IsrAssumption DEF exception
<1>2. HasCode(v) \in BOOLEAN /\ (HasCode(v) <=> v \in TakesCode)
  BY DEF HasCode, TakesCode
<1>3. regs \in [GenRegs -> Words] /\ Plain(regs)
  BY <1>1 DEF IsrInv, NowOK, GoesOn
<1> QED
  BY <1>1, <1>2, <1>3, EnterStep

(* A device's interrupt: the table has entries, so the controller is       *)
(* masked, and the vector is not one of the processor's own.               *)
LEMMA InterruptStep ==
  ASSUME IsrInv, NEW v \in Vectors, interrupt(v)
  PROVE  IsrInv'
<1>1. ifl /\ rip.w # "lost" /\ v \in Deliverable /\ Enter(v, regs, FALSE)
  BY DEF interrupt
<1>2. idt[v] # NULL_ENT
  BY <1>1 DEF Enter
<1>3. pic.masked
  BY <1>2 DEF IsrInv, TablesFirst
<1>4. v \in Stray
  BY <1>1, <1>3 DEF Deliverable
<1>5. v \in 32 .. 255 /\ v # 128
  BY <1>4, IsrAssumption
<1>6. idt[v].stub = "isr_default"
  BY <1>2, <1>5 DEF IsrInv, IdtOK
<1>7. rip.w \in {"main", "isr"} /\ regs \in [GenRegs -> Words]
  BY <1>1 DEF IsrInv, NowOK
<1>8. rip.w = "main" => Plain(regs)
  BY DEF IsrInv, GoesOn
<1> QED
  BY <1>1, <1>6, <1>7, <1>8, EnterStep

LEMMA SyscallStep ==
  ASSUME IsrInv, NEW sel \in Selectors, syscall(sel)
  PROVE  IsrInv'
<1>1. PICK r : r = [regs EXCEPT !["rax"] = Word("sel", sel)]
  OBVIOUS
<1>2. rip.w = "main" /\ Enter(128, r, FALSE) /\ 128 \in Vectors
  BY <1>1, IsrAssumption DEF syscall
<1>3. regs \in [GenRegs -> Words] /\ Plain(regs)
  BY <1>2 DEF IsrInv, NowOK, GoesOn
<1>4. r \in [GenRegs -> Words]
  <2>1. "sel" \in Kinds /\ sel \in Nat
    BY KindsAre, IsrAssumption
  <2>2. Word("sel", sel) \in Words
    BY <2>1, WordIs
  <2> QED
    BY <1>1, <1>3, <2>2
<1>5. Plain(r)
  BY <1>1, <1>3 DEF Plain
<1>6. idt[128].stub # "isr_except"
  <2>1. idt[128] # NULL_ENT
    BY <1>2 DEF Enter
  <2>2. \/ 128 < 32 /\ idt[128].stub = "isr_except"
        \/ 128 >= 32 /\ idt[128].stub = "isr_default"
        \/ 128 = 128 /\ idt[128].stub = "isr_syscall"
    BY <1>2, <2>1 DEF IsrInv, IdtOK
  <2> QED
    BY <2>2
<1>7. FALSE \in BOOLEAN
  OBVIOUS
<1> QED
  BY <1>2, <1>4, <1>5, <1>6, <1>7, EnterStep

(* Three and one are four.                                                 *)
LEMMA FourLong ==
  ASSUME NEW a, NEW b, NEW c, NEW d
  PROVE  <<a, b, c>> \o <<d>> = <<a, b, c, d>>
<1>1. PICK T : T = {a, b, c, d}
  OBVIOUS
<1>2. PICK s : s = <<a, b, c>> \o <<d>>
  OBVIOUS
<1>3. PICK t : t = <<a, b, c, d>>
  OBVIOUS
<1>4. /\ <<a, b, c>> \in Seq(T) /\ <<d>> \in Seq(T)
      /\ Len(<<a, b, c>>) = 3 /\ Len(<<d>>) = 1
  BY <1>1
<1>5. s \in Seq(T) /\ Len(s) = 4 /\ s[1] = a /\ s[2] = b /\ s[3] = c /\ s[4] = d
  BY <1>2, <1>4
<1>6. t \in Seq(T) /\ Len(t) = 4 /\ t[1] = a /\ t[2] = b /\ t[3] = c /\ t[4] = d
  BY <1>1, <1>3
<1>7. \A i \in 1 .. 4 : s[i] = t[i]
  BY <1>5, <1>6
<1>8. s = t
  BY <1>5, <1>6, <1>7, SeqEqual
<1> QED
  BY <1>2, <1>3, <1>8

(* The order of setting up, from its end.                                  *)
LEMMA Order ==
  /\ Head(BootLeft(4)) = "gdt_init" /\ Tail(BootLeft(4)) = BootLeft(3)
  /\ Head(BootLeft(3)) = "pic_init" /\ Tail(BootLeft(3)) = BootLeft(2)
  /\ Head(BootLeft(2)) = "idt_init" /\ Tail(BootLeft(2)) = BootLeft(1)
  /\ Head(BootLeft(1)) = "syscall_init" /\ Tail(BootLeft(1)) = BootLeft(0) /\ BootLeft(0) = <<>>
<1>1. BootLeft(4) = <<"gdt_init", "pic_init", "idt_init", "syscall_init">>
  BY DEF BootLeft
<1>2. BootLeft(3) = <<"pic_init", "idt_init", "syscall_init">>
  BY DEF BootLeft
<1>3. BootLeft(2) = <<"idt_init", "syscall_init">>
  BY DEF BootLeft
<1>4. BootLeft(1) = <<"syscall_init">>
  BY DEF BootLeft
<1>5. BootLeft(0) = <<>>
  BY DEF BootLeft
<1>6. Head(BootLeft(4)) = "gdt_init" /\ Tail(BootLeft(4)) = BootLeft(3)
  <2>1. ASSUME NEW a, NEW b, NEW c, NEW d
        PROVE  Head(<<a, b, c, d>>) = a /\ Tail(<<a, b, c, d>>) = <<b, c, d>>
    OBVIOUS
  <2> QED
    <3>1. /\ Head(<<"gdt_init", "pic_init", "idt_init", "syscall_init">>) = "gdt_init"
          /\ Tail(<<"gdt_init", "pic_init", "idt_init", "syscall_init">>) =
               <<"pic_init", "idt_init", "syscall_init">>
      BY <2>1
    <3> QED
      BY <1>1, <1>2, <3>1, Zenon
<1>7. Head(BootLeft(3)) = "pic_init" /\ Tail(BootLeft(3)) = BootLeft(2)
  <2>1. ASSUME NEW b, NEW c, NEW d
        PROVE  Head(<<b, c, d>>) = b /\ Tail(<<b, c, d>>) = <<c, d>>
    OBVIOUS
  <2> QED
    BY <1>2, <1>3, <2>1, Zenon
<1>8. Head(BootLeft(2)) = "idt_init" /\ Tail(BootLeft(2)) = BootLeft(1)
  <2>1. ASSUME NEW c, NEW d
        PROVE  Head(<<c, d>>) = c /\ Tail(<<c, d>>) = <<d>>
    OBVIOUS
  <2> QED
    BY <1>3, <1>4, <2>1, Zenon
<1>9. Head(BootLeft(1)) = "syscall_init" /\ Tail(BootLeft(1)) = BootLeft(0)
  <2>1. ASSUME NEW d
        PROVE  Head(<<d>>) = d /\ Tail(<<d>>) = <<>>
    OBVIOUS
  <2> QED
    BY <1>4, <1>5, <2>1, Zenon
<1> QED
  BY <1>5, <1>6, <1>7, <1>8, <1>9

(* While something is left to set up, main has not been interrupted for    *)
(* good: nothing but the tables changes.                                   *)
LEMMA BootSteps ==
  ASSUME IsrInv, \/ gdt_init \/ pic_init \/ idt_init \/ syscall_init
  PROVE  IsrInv'
<1>1. /\ rip.w = "main" /\ ctx = <<>> /\ boot # <<>> /\ boot' = Tail(boot)
      /\ UNCHANGED <<regs, stk, rip, said, ctx>>
  BY DEF gdt_init, pic_init, idt_init, syscall_init, Boots, IsrInv, GoesOn
<1>2. cs' \in Words /\ cs'.w = "cs" /\ ifl' \in BOOLEAN
  <2>1. "cs" \in Kinds /\ 8 \in Nat
    BY KindsAre
  <2>2. Word("cs", 8) \in Words /\ Word("cs", 8).w = "cs"
    BY <2>1, WordIs
  <2> QED
    BY <2>2 DEF gdt_init, pic_init, idt_init, syscall_init, IsrInv, NowOK
<1>3. NowOK'
  BY <1>1, <1>2 DEF IsrInv, NowOK
<1>4. Len(ctx) = 0 /\ Len(ctx') = 0
  BY <1>1
<1>5. CtxOK' /\ Nested' /\ GoesOn'
  <2>1. CtxOK'
    BY <1>1, <1>4 DEF IsrInv, CtxOK
  <2>2. Nested'
    BY <1>4 DEF Nested
  <2>3. GoesOn'
    BY <1>1 DEF IsrInv, GoesOn, Plain
  <2> QED
    BY <2>1, <2>2, <2>3
<1>6. IdtOK'
  <2>1. CASE gdt_init \/ pic_init
    BY <2>1 DEF gdt_init, pic_init, IsrInv, IdtOK
  <2>2. CASE idt_init
    <3>1. ASSUME NEW v \in Vectors
          PROVE  \/ idt'[v] = NULL_ENT
                 \/ v < 32 /\ idt'[v].stub = "isr_except"
                 \/ v >= 32 /\ idt'[v].stub = "isr_default"
      <4>1. v \in Nat
        BY IsrAssumption
      <4>2. CASE v < 32
        <5>1. idt'[v] = isr_except_spec_tab(v)
          BY <2>2, <4>2 DEF idt_init
        <5> QED
          BY <4>2, <5>1 DEF isr_except_spec_tab, Gate
      <4>3. CASE ~(v < 32)
        <5>1. idt'[v] = Gate("isr_default", "IGT_INT")
          BY <2>2, <4>3 DEF idt_init
        <5> QED
          BY <4>1, <4>3, <5>1 DEF Gate
      <4> QED
        BY <4>2, <4>3
    <3>2. DOMAIN idt' = Vectors
      BY <2>2 DEF idt_init
    <3> QED
      BY <3>1, <3>2 DEF IdtOK
  <2>3. CASE syscall_init
    <3>1. idt' = [idt EXCEPT ![128] = Gate("isr_syscall", "IGT_INT")]
      BY <2>3 DEF syscall_init
    <3>2. Gate("isr_syscall", "IGT_INT").stub = "isr_syscall"
      BY DEF Gate
    <3>3. DOMAIN idt = Vectors /\ 128 \in Vectors
      BY IsrAssumption DEF IsrInv, IdtOK
    <3>4. DOMAIN idt' = Vectors /\ idt'[128].stub = "isr_syscall"
      BY <3>1, <3>2, <3>3
    <3>5. \A v \in Vectors : v # 128 => idt'[v] = idt[v]
      BY <3>1, <3>3
    <3> QED
      BY <3>4, <3>5 DEF IsrInv, IdtOK
  <2> QED
    BY <2>1, <2>2, <2>3
<1>7. TablesFirst'
  <2>1. CASE gdt_init
    <3>1. boot' = BootLeft(3) /\ idt' = idt /\ \A v \in Vectors : idt[v] = NULL_ENT
      BY <2>1, Order, Zenon DEF gdt_init, Boots, IsrInv, TablesFirst
    <3> QED
      BY <3>1, Zenon DEF TablesFirst
  <2>2. CASE pic_init
    <3>1. boot' = BootLeft(2) /\ idt' = idt /\ \A v \in Vectors : idt[v] = NULL_ENT
      BY <2>2, Order, Zenon DEF pic_init, Boots, IsrInv, TablesFirst
    <3>2. pic'.masked
      BY <2>2 DEF pic_init
    <3> QED
      BY <3>1, <3>2, Zenon DEF TablesFirst
  <2>3. CASE idt_init
    <3>1. boot' = BootLeft(1) /\ pic' = pic /\ pic.masked
      BY <2>3, Order, Zenon DEF idt_init, Boots, IsrInv, TablesFirst
    <3> QED
      BY <3>1, Zenon DEF TablesFirst
  <2>4. CASE syscall_init
    <3>1. boot' = BootLeft(0) /\ pic' = pic /\ pic.masked
      BY <2>4, Order, Zenon DEF syscall_init, Boots, IsrInv, TablesFirst
    <3> QED
      BY <3>1, Zenon DEF TablesFirst
  <2> QED
    BY <2>1, <2>2, <2>3, <2>4
<1> QED
  BY <1>3, <1>5, <1>6, <1>7 DEF IsrInv

LEMMA IsrStart ==
  ASSUME IsrInit
  PROVE  IsrInv
<1>1. ASSUME NEW w \in Kinds
      PROVE  Word(w, 0) \in Words /\ Word(w, 1) \in Words /\ Word(w, 40) \in Words
  BY <1>1, WordIs
<1>2. regs \in [GenRegs -> Words]
  BY <1>1, KindsAre DEF IsrInit
<1>3. stk \in Seq(Words)
  <2>1. PICK x \in Words : x = Word("main", 1)
    BY <1>1, KindsAre
  <2>2. <<x>> \in Seq(Words) /\ <<>> \in Seq(Words)
    OBVIOUS
  <2> QED
    BY <2>1, <2>2 DEF IsrInit
<1>4. rip \in Words /\ rip.w = "main" /\ cs \in Words /\ cs.w = "cs"
  BY <1>1, KindsAre, WordIs DEF IsrInit
<1>5. NowOK
  BY <1>2, <1>3, <1>4 DEF IsrInit, NowOK
<1>6. IdtOK
  BY DEF IsrInit, IdtOK
<1>7. TablesFirst
  <2>1. boot = BootLeft(4)
    <3>1. boot = <<"gdt_init", "pic_init", "idt_init">> \o <<"syscall_init">>
      BY DEF IsrInit, arch_master_init
    <3>2. <<"gdt_init", "pic_init", "idt_init">> \o <<"syscall_init">> =
            <<"gdt_init", "pic_init", "idt_init", "syscall_init">>
      BY FourLong
    <3> QED
      BY <3>1, <3>2 DEF BootLeft
  <2> QED
    BY <2>1 DEF IsrInit, TablesFirst
<1>8. ctx = <<>> /\ Len(ctx) = 0
  BY DEF IsrInit
<1>9. CtxOK /\ Nested
  BY <1>8 DEF CtxOK, Nested
<1>10. Plain(regs)
  BY RegNames DEF IsrInit, Plain
<1>11. GoesOn
  BY <1>4, <1>8, <1>10 DEF GoesOn
<1> QED
  BY <1>5, <1>6, <1>7, <1>9, <1>11 DEF IsrInv

(* Where the fields of a structure at the pointer of a body are.           *)
LEMMA AtCall ==
  ASSUME IsrInv, InStub, CurInsn.op = "call"
  PROVE  LET was == Last(ctx)
             stub == idt[Vec].stub
             n == Count(stub)
         IN  /\ was \in Saved /\ CtxOf(was) /\ Vec = was.vec /\ stub \in Stubs
             /\ stub = StubOf(was) /\ Stacked(was, stub, stk, n)
             /\ \A i \in 1 .. n : Field(regs["rdi"].v, i - 1) = was.regs[Pops(stub)[i]]
             /\ stub = "isr_except" => regs["rsi"].v = Base(was)
<1>1. PICK was, stub, l : Here(was, stub, l)
  BY WhereItIs
<1>2. /\ was = ctx[Len(ctx)] /\ was \in Saved /\ CtxOf(was) /\ Vec = was.vec
      /\ stub \in Stubs /\ stub = StubOf(was) /\ stub = idt[Vec].stub
      /\ l \in 1 .. EndAt(stub) /\ CurInsn = InsnAt(stub, l)
  BY <1>1 DEF Here, StubOf
<1>3. Last(ctx) = was
  BY <1>2 DEF Last
<1>4. l = CallAt(stub)
  BY <1>2, LineOf
<1>5. Count(stub) \in Nat /\ CallAt(stub) \in Nat /\ Count(stub) + 1 < CallAt(stub)
  BY <1>2, LinesAre
<1>6. Stacked(was, stub, stk, Count(stub))
  <2>1. Depth(stub, l) = Count(stub)
    <3>1. l \in Count(stub) + 1 .. CallAt(stub)
      BY <1>4, <1>5
    <3> QED
      BY <1>2, <3>1, Depths
  <2> QED
    BY <1>1, <2>1 DEF Here
<1>7. /\ regs["rdi"] = Word("ptr", Len(stk))
      /\ stub = "isr_except" => regs["rsi"] = Word("ptr", Len(stk) - 15)
  <2>1. l \in Count(stub) + 2 .. CallAt(stub) /\ l = CallAt(stub)
    BY <1>4, <1>5
  <2> QED
    BY <1>1, <2>1 DEF Here, RegsAt
<1>8. Base(was) \in Nat /\ Len(stk) = Base(was) + Count(stub)
  BY <1>2, <1>6, BaseIs DEF Stacked
<1>9. regs["rdi"].v = Base(was) + Count(stub)
  BY <1>7, <1>8 DEF Word
<1>10. stub = "isr_except" => regs["rsi"].v = Base(was)
  <2> SUFFICES ASSUME stub = "isr_except"
               PROVE  regs["rsi"].v = Base(was)
    OBVIOUS
  <2>1. regs["rsi"].v = Len(stk) - 15
    BY <1>7 DEF Word
  <2>2. Count(stub) = 15
    BY DEF Count
  <2> QED
    BY <1>8, <2>1, <2>2
<1>11. \A i \in 1 .. Count(stub) : Field(regs["rdi"].v, i - 1) = was.regs[Pops(stub)[i]]
  <2> TAKE i \in 1 .. Count(stub)
  <2>1. PICK j : j = Count(stub) + 1 - i
    OBVIOUS
  <2>2. j \in 1 .. Count(stub) /\ regs["rdi"].v - (i - 1) = Base(was) + j
    BY <1>5, <1>8, <1>9, <2>1
  <2>3. Pops(stub)[i] = Pushes(stub)[j]
    BY <1>2, <2>1, Mirror
  <2>4. stk[Base(was) + j] = was.regs[Pushes(stub)[j]]
    BY <1>6, <2>2 DEF Stacked
  <2> QED
    BY <2>2, <2>3, <2>4 DEF Field
<1> QED
  BY <1>2, <1>3, <1>6, <1>10, <1>11

(* What DBG_PRINTLN passes on.                                             *)
LEMMA SaidRight ==
  ASSUME IsrInv, sc_dbg_println
  PROVE  said' = <<Word("rdi", 0), Word("rsi", 0)>>
<1>1. InStub /\ CurInsn.op = "call" /\ idt[Vec].stub = "isr_syscall"
  BY DEF sc_dbg_println, Body
<1>2. PICK was : was = Last(ctx)
  OBVIOUS
<1>3. Count("isr_syscall") = 13
  BY DEF Count
<1>4. /\ CtxOf(was) /\ StubOf(was) = "isr_syscall"
      /\ \A i \in 1 .. 13 : Field(regs["rdi"].v, i - 1) = was.regs[Pops("isr_syscall")[i]]
  BY <1>1, <1>2, <1>3, AtCall
<1>5. Plain(was.regs)
  BY <1>4 DEF CtxOf
<1>6. Pops("isr_syscall")[2] = "rdi" /\ Pops("isr_syscall")[3] = "rsi"
  BY DEF Pops
<1>7. 2 \in 1 .. 13 /\ 3 \in 1 .. 13 /\ 2 - 1 = 1 /\ 3 - 1 = 2
  OBVIOUS
<1>8. Field(regs["rdi"].v, 1) = Word("rdi", 0) /\ Field(regs["rdi"].v, 2) = Word("rsi", 0)
  BY <1>4, <1>5, <1>6, <1>7 DEF Plain
<1> QED
  BY <1>8 DEF sc_dbg_println

(* No step breaks the invariant.                                           *)
LEMMA IsrStep ==
  ASSUME IsrInv, [IsrNext]_isr_vars
  PROVE  IsrInv'
<1>1. CASE gdt_init \/ pic_init \/ idt_init \/ syscall_init
  BY <1>1, BootSteps
<1>2. CASE \E v \in Vectors : exception(v) \/ interrupt(v)
  BY <1>2, ExceptionStep, InterruptStep
<1>3. CASE \E sel \in Selectors : syscall(sel)
  BY <1>3, SyscallStep
<1>4. CASE push
  BY <1>4, PushStep
<1>5. CASE pop
  BY <1>5, PopStep
<1>6. CASE mov
  BY <1>6, MovStep
<1>7. CASE lea
  BY <1>7, LeaStep
<1>8. said \in {<<>>, <<Word("rdi", 0), Word("rsi", 0)>>}
  BY DEF IsrInv, NowOK
<1>9. CASE isr_except_body
  BY <1>8, <1>9, BodyStep DEF isr_except_body
<1>10. CASE isr_default_body
  BY <1>8, <1>10, BodyStep DEF isr_default_body
<1>11. CASE sc_dbg_println
  <2>1. Body("isr_syscall")
    BY <1>11 DEF sc_dbg_println
  <2> QED
    BY <1>11, <2>1, SaidRight, BodyStep
<1>12. CASE sc_other
  BY <1>8, <1>12, BodyStep DEF sc_other
<1>13. CASE iretq
  BY <1>13, IretqStep
<1>14. CASE iretq_lost
  BY <1>14, LostStep
<1>15. CASE UNCHANGED isr_vars
  <2>1. UNCHANGED <<boot, pic, idt, cs, ifl, regs, stk, rip, said, ctx>>
    BY <1>15 DEF isr_vars
  <2>2. IdtOK' /\ TablesFirst' /\ NowOK'
    BY <2>1 DEF IsrInv, IdtOK, TablesFirst, NowOK
  <2>3. CtxOK'
    BY <2>1 DEF IsrInv, CtxOK, CtxOf, StubOf
  <2>4. Nested'
    BY <2>1 DEF IsrInv, Nested, Within, StubOf
  <2>5. GoesOn'
    BY <2>1 DEF IsrInv, GoesOn, Plain, Within, StubOf
  <2> QED
    BY <2>2, <2>3, <2>4, <2>5 DEF IsrInv
<1>16. CASE Lost
  BY <1>15, <1>16 DEF Lost
<1> QED
  BY <1>1, <1>2, <1>3, <1>4, <1>5, <1>6, <1>7, <1>9, <1>10, <1>11, <1>12, <1>13, <1>14, <1>15,
     <1>16 DEF IsrNext

(* Every reachable state of the stubs satisfies the inductive invariant:   *)
(* each of them, the interrupted ones too, is at a line whose saved words  *)
(* are on the stack where its pops look for them (the ISR macros).         *)
THEOREM IsrSafe == IsrSpec => []IsrInv
<1>1. IsrInit => IsrInv
  BY IsrStart
<1>2. IsrInv /\ [IsrNext]_isr_vars => IsrInv'
  BY IsrStep
<1> QED
  BY <1>1, <1>2, PTL DEF IsrSpec

(* Both structures by the pops of their stubs.                             *)
LEMMA StructsAre ==
  /\ DOMAIN cpu_gen_regs = 1 .. 15 /\ DOMAIN sc_args = 1 .. 13
  /\ sc_args = Pops("isr_syscall")
  /\ \A stub \in {"isr_default", "isr_except"} : cpu_gen_regs = Pops(stub)
  /\ Count("isr_syscall") = 13
  /\ \A stub \in {"isr_default", "isr_except"} : Count(stub) = 15
<1>1. DOMAIN cpu_gen_regs = 1 .. 15
  BY DEF cpu_gen_regs
<1>2. DOMAIN sc_args = 1 .. 13
  BY DEF sc_args
<1>3. sc_args = Pops("isr_syscall")
  BY DEF sc_args, Pops
<1>4. \A stub \in {"isr_default", "isr_except"} : cpu_gen_regs = Pops(stub)
  BY DEF Pops, cpu_gen_regs, POP_GEN_REGS
<1>5. Count("isr_syscall") = 13
  BY DEF Count
<1>6. \A stub \in {"isr_default", "isr_except"} : Count(stub) = 15
  BY DEF Count
<1> QED
  BY <1>1, <1>2, <1>3, <1>4, <1>5, <1>6

LEMMA CallRight ==
  ASSUME IsrInv
  PROVE  ArgsRight
<1>1. said \in {<<>>, <<Word("rdi", 0), Word("rsi", 0)>>}
  BY DEF IsrInv, NowOK
<1> SUFFICES ASSUME InStub, CurInsn.op = "call"
             PROVE  LET was == Last(ctx)
                        stub == idt[Vec].stub
                        p == regs["rdi"].v
                    IN  /\ Vec = was.vec
                        /\ stub # "isr_syscall" =>
                             \A i \in DOMAIN cpu_gen_regs :
                               Field(p, i - 1) = was.regs[cpu_gen_regs[i]]
                        /\ stub = "isr_except" => IsFrame(regs["rsi"].v, was, Vec \in TakesCode)
                        /\ stub = "isr_syscall" =>
                             \A i \in DOMAIN sc_args : Field(p, i - 1) = was.regs[sc_args[i]]
                        /\ ~was.code => Len(stk) % 2 = 0
  BY <1>1 DEF ArgsRight
<1>2. PICK was : was = Last(ctx)
  OBVIOUS
<1>3. PICK stub : stub = idt[Vec].stub
  OBVIOUS
<1>4. /\ was \in Saved /\ CtxOf(was) /\ Vec = was.vec /\ stub \in Stubs
      /\ stub = StubOf(was) /\ Stacked(was, stub, stk, Count(stub))
      /\ \A i \in 1 .. Count(stub) :
           Field(regs["rdi"].v, i - 1) = was.regs[Pops(stub)[i]]
      /\ stub = "isr_except" => regs["rsi"].v = Base(was)
  BY <1>2, <1>3, AtCall
<1>5. stub # "isr_syscall" =>
        \A i \in DOMAIN cpu_gen_regs :
          Field(regs["rdi"].v, i - 1) = was.regs[cpu_gen_regs[i]]
  BY <1>4, StructsAre DEF Stubs
<1>6. stub = "isr_syscall" =>
        \A i \in DOMAIN sc_args : Field(regs["rdi"].v, i - 1) = was.regs[sc_args[i]]
  BY <1>4, StructsAre
<1>7. Base(was) \in Nat /\ FrameAt(was) \in Nat /\ Len(was.stk) \in Nat
  BY <1>4, BaseIs DEF Saved
<1>8. stub = "isr_except" => IsFrame(regs["rsi"].v, was, Vec \in TakesCode)
  <2> SUFFICES ASSUME stub = "isr_except"
               PROVE  IsFrame(Base(was), was, was.vec \in TakesCode)
    BY <1>4
  <2>1. was.code <=> was.vec \in TakesCode
    BY <1>4 DEF CtxOf
  <2>2. Framed(was, stk)
    BY <1>4 DEF Stacked
  <2>3. CASE was.code
    <3>1. /\ Base(was) - 0 = FrameAt(was) + 6 /\ Base(was) - 1 = FrameAt(was) + 5
          /\ Base(was) - (1 + 1) = FrameAt(was) + 4 /\ Base(was) - (1 + 2) = FrameAt(was) + 3
          /\ Base(was) - (1 + 3) = FrameAt(was) + 2
      BY <1>7, <2>3 DEF Base
    <3>2. /\ stk[Base(was) - 0] = Word("e", was.vec) /\ stk[Base(was) - 1] = was.rip
          /\ stk[Base(was) - (1 + 1)] = was.cs
          /\ stk[Base(was) - (1 + 2)] = Word("flags", IF was.ifl THEN 1 ELSE 0)
          /\ stk[Base(was) - (1 + 3)] = Word("rsp", Len(was.stk))
      BY <2>2, <2>3, <3>1, Zenon DEF Framed
    <3> QED
      BY <2>1, <2>3, <3>2, Zenon DEF IsFrame, Field
  <2>4. CASE ~was.code
    <3>1. /\ Base(was) - 0 = FrameAt(was) + 5
          /\ Base(was) - (0 + 1) = FrameAt(was) + 4 /\ Base(was) - (0 + 2) = FrameAt(was) + 3
          /\ Base(was) - (0 + 3) = FrameAt(was) + 2
      BY <1>7, <2>4 DEF Base
    <3>2. /\ stk[Base(was) - 0] = was.rip
          /\ stk[Base(was) - (0 + 1)] = was.cs
          /\ stk[Base(was) - (0 + 2)] = Word("flags", IF was.ifl THEN 1 ELSE 0)
          /\ stk[Base(was) - (0 + 3)] = Word("rsp", Len(was.stk))
      BY <2>2, <3>1, Zenon DEF Framed
    <3> QED
      BY <2>1, <2>4, <3>2, Zenon DEF IsFrame, Field
  <2> QED
    BY <2>3, <2>4
<1>9. ~was.code => Len(stk) % 2 = 0
  <2> SUFFICES ASSUME ~was.code
               PROVE  Len(stk) % 2 = 0
    OBVIOUS
  <2>1. FrameAt(was) % 2 = 0
    BY <1>7, Even, Zenon DEF FrameAt
  <2>2. Len(stk) = Base(was) + Count(stub) /\ Base(was) = FrameAt(was) + 5
    BY <1>4 DEF Stacked, Base
  <2>3. Count(stub) = 13 \/ Count(stub) = 15
    BY DEF Count
  <2>4. Len(stk) = FrameAt(was) + 18 \/ Len(stk) = FrameAt(was) + 20
    BY <1>7, <2>2, <2>3
  <2>5. ASSUME NEW n \in Nat, n % 2 = 0
        PROVE  (n + 18) % 2 = 0 /\ (n + 20) % 2 = 0
    BY <2>5
  <2> QED
    BY <1>7, <2>1, <2>4, <2>5
<1> QED
  BY <1>2, <1>3, <1>4, <1>5, <1>6, <1>8, <1>9

(* Whatever is set up, interrupted, faults or is called, a body finds at   *)
(* its pointers what its C declaration says, for every set of vectors,     *)
(* lines and spurious interrupts (the ISR macros, pic_init, idt_init).     *)
THEOREM BodiesGetTheirArguments == IsrSpec => []ArgsRight
  BY IsrSafe, CallRight, PTL

(* And what was interrupted goes on as if nothing had been: at iretq the   *)
(* stack, the address, the segment and the interrupt flag are back, when   *)
(* the processor pushed no error code, and so are all registers, or after  *)
(* a system call those that docs/syscalls.md says something of.            *)
THEOREM NothingIsLost == IsrSpec => Transparent
<1>1. ASSUME IsrInv, iretq \/ iretq_lost, ~Last(ctx).code
      PROVE  LET was == Last(ctx) IN
             /\ rip' = was.rip /\ cs' = was.cs /\ ifl' = was.ifl /\ stk' = was.stk
             /\ \A r \in IF was.vec = 128 THEN OR ELSE GenRegs : regs'[r] = was.regs[r]
  <2>1. PICK was : was = Last(ctx)
    OBVIOUS
  <2>2. InStub /\ CurInsn.op = "iretq"
    BY <1>1 DEF iretq, iretq_lost
  <2>3. /\ was \in Saved /\ CtxOf(was) /\ regs = was.regs
        /\ Top(0) = was.rip /\ Top(1) = was.cs
        /\ Top(2) = Word("flags", IF was.ifl THEN 1 ELSE 0)
        /\ Top(3) = Word("rsp", Len(was.stk)) /\ SubSeq(stk, 1, Len(was.stk)) = was.stk
    BY <1>1, <2>1, <2>2, AtEnd
  <2>4. iretq
    BY <1>1, <2>3 DEF CtxOf, iretq_lost
  <2>5. Top(3).v = Len(was.stk)
    BY <2>3 DEF Word
  <2>6. (Top(2) = Word("flags", 1)) = was.ifl
    <3>1. was.ifl \in BOOLEAN
      BY <2>3 DEF Saved
    <3>2. Word("flags", 0) # Word("flags", 1)
      BY DEF Word
    <3> QED
      BY <2>3, <3>1, <3>2
  <2>7. /\ rip' = was.rip /\ cs' = was.cs /\ ifl' = was.ifl
        /\ regs' = was.regs /\ stk' = was.stk
    BY <2>1, <2>3, <2>4, <2>5, <2>6 DEF iretq
  <2> QED
    BY <2>1, <2>7
<1>2. IsrInv /\ [IsrNext]_isr_vars =>
        [(iretq \/ iretq_lost) /\ ~Last(ctx).code =>
           LET was == Last(ctx) IN
           /\ rip' = was.rip /\ cs' = was.cs /\ ifl' = was.ifl /\ stk' = was.stk
           /\ \A r \in IF was.vec = 128 THEN OR ELSE GenRegs :
                regs'[r] = was.regs[r]]_isr_vars
  BY <1>1
<1> QED
  BY <1>2, IsrSafe, PTL DEF IsrSpec, Transparent
================================================================================
