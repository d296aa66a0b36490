--------------------------------- MODULE Kutil ---------------------------------
(***************************************************************************)
(* Kernel messages (kernel/src/kutil.c, arch/autil.c), the serial port     *)
(* they go to (kernel/src/serial_port.c) and the processors that print     *)
(* them while the kernel boots (kernel/src/main.c).                        *)
(*                                                                         *)
(* ku_print_v holds one lock for a whole message and the serial port's     *)
(* lock for each piece of it.  ku_println sends the newline after it has   *)
(* given the message's lock back.                                          *)
(*                                                                         *)
(* A format is a sequence of items, each what one round of ku_print_v's    *)
(* loop takes from the string: a plain character, or a conversion with its *)
(* modifier and argument.  Characters are their codes; the codes from 256  *)
(* on stand for the kernel's fixed words.  Numbers have the 64 bits of the *)
(* code; the ones TLC is given are below 2^31, its own largest.            *)
(***************************************************************************)
EXTENDS Naturals, Sequences, Functions, Katomic

CONSTANTS
  Cpu,        \* processors
  BSP,        \* the one that boots the kernel
  Item,       \* what formats are made of
  Calls,      \* what each processor calls before it stops, see Script
  MAX_INPUT   \* bound: characters that arrive on the serial line

VARIABLES
  mutex,      \* ku_print_v's lock
  sp_mutex,   \* the serial port's lock
  prog,       \* per processor: the operations it still has to do
  pc,         \* per processor: where it is in the first of them
  fmt,        \* per processor: what is left of the format
  out,        \* per processor: what is left of the piece being sent
  uart,       \* "reset", "loop"ed back on itself, or "on"
  thr, rx,    \* transmit and receive registers, empty or one character
  line,       \* what has left on the serial line
  input       \* characters received so far

cpu_vars == <<prog, pc, fmt, out>>
dev_vars == <<uart, thr, rx, line, input>>
vars == <<mutex, sp_mutex, cpu_vars, dev_vars>>

NL == 10
TEST == 174        \* 0xae
ARCH == 256        \* "x86_64: "
HANGING == 257     \* "hanging..."
KEY == 107         \* what arrives on the line

(* The words in front of a message, by its log type: "[info] " and so on.  *)
Prefix(type) ==
  CASE type = "LT_INFO" -> <<258>> [] type = "LT_WARN" -> <<259>>
    [] type = "LT_ERR" -> <<260>> [] type = "LT_DEBUG" -> <<261>> [] OTHER -> <<>>

-----------------------------------------------------------------------------
(* Formatting.                                                             *)

(* n shifted right by k digits of the base.                                *)
Shr(n, base, k) ==
  LET s[j \in 0 .. k] == IF j = 0 THEN n ELSE s[j - 1] \div base IN s[k]

(* The number of digits of n, at most limit.                               *)
nch(n, base, limit) ==
  CHOOSE k \in 0 .. limit :
    /\ k = limit \/ Shr(n, base, k) = 0
    /\ \A j \in 0 .. k - 1 : Shr(n, base, j) # 0

hex_lut(d) == IF d < 10 THEN 48 + d ELSE 87 + d

Digits(n, base, cnt) == [p \in 1 .. cnt |-> hex_lut(Shr(n, base, cnt - p) % base)]

(* Bits that a modifier asks for; without one as many digits as needed.    *)
FM == [Q |-> 64, D |-> 32, W |-> 16, B |-> 8]
NONE == "-"

print_fmt_x(n, mod) ==
  IF mod # NONE THEN Digits(n, 16, FM[mod] \div 4)
  ELSE IF n = 0 THEN <<48>> ELSE Digits(n, 16, nch(n, 16, 16))

print_fmt_b(n, mod) ==
  IF mod # NONE THEN Digits(n, 2, FM[mod])
  ELSE IF n = 0 THEN <<48>> ELSE Digits(n, 2, nch(n, 2, 64))

print_fmt_u(n) == IF n = 0 THEN <<48>> ELSE Digits(n, 10, nch(n, 10, 20))

print_fmt_s(s) == s

print_fmt_c(ch) == <<ch % 256>>

(* What one round of the loop sends: a plain character or %% as it is, the *)
(* argument converted, nothing for a conversion that does not exist.       *)
Piece(item) ==
  CASE item.conv = "lit" -> <<item.arg>>
    [] item.conv = "x" -> print_fmt_x(item.arg, item.mod)
    [] item.conv = "b" -> print_fmt_b(item.arg, item.mod)
    [] item.conv = "u" -> print_fmt_u(item.arg)
    [] item.conv = "s" -> print_fmt_s(item.arg)
    [] item.conv = "c" -> print_fmt_c(item.arg)
    [] OTHER -> <<>>

Sends(item) == item.conv \in {"lit", "x", "b", "u", "s", "c"}

-----------------------------------------------------------------------------
(* A processor's operations.                                               *)

Lit(ch) == [conv |-> "lit", mod |-> NONE, arg |-> ch]

sp_write_ch(ch) == <<[op |-> "write", ch |-> ch]>>
sp_read_ch == <<[op |-> "read"]>>
ku_print(type, msg) == <<[op |-> "print", type |-> type, msg |-> msg]>>
ku_println(type, msg) == ku_print(type, msg) \o sp_write_ch(NL)
au_println(type, msg) ==
  ku_print(type, <<Lit(ARCH)>>) \o ku_print("LT_NONE", msg) \o sp_write_ch(NL)
ku_hang == ku_println("LT_INFO", <<Lit(HANGING)>>) \o <<[op |-> "au_hang"]>>
start_cpus == <<[op |-> "smp"]>>

(* _start on the boot processor, init_other_cpu on the others; Calls names *)
(* the operations in between.                                              *)
Script(c) ==
  (IF c = BSP THEN <<[op |-> "sp_init"]>> ELSE <<>>) \o Calls[c] \o ku_hang

(* An argument has the type its conversion takes it for.  Other code sends *)
(* characters of its own only to end a line.                               *)
ItemOK(item) ==
  /\ item.conv \in {"lit", "c"} => item.arg \in Nat
  /\ item.conv = "s" => item.arg \in Seq(Nat)
  /\ item.conv \in {"x", "b", "u"} =>
       item.mod \in DOMAIN FM \cup {NONE} /\ item.arg \in Nat /\ Shr(item.arg, 2, 64) = 0

LogTypes == {"LT_NONE", "LT_INFO", "LT_WARN", "LT_ERR", "LT_DEBUG"}
Operation ==
  [op : {"print"}, type : LogTypes, msg : Seq(Item)] \cup [op : {"write"}, ch : {NL}]
    \cup [op : {"read", "smp"}]

ASSUME KutilAssumption ==
  /\ BSP \in Cpu /\ MAX_INPUT \in Nat
  /\ Lit(HANGING) \in Item /\ \A item \in Item : ItemOK(item)
  /\ \A c \in Cpu : Calls[c] \in Seq(Operation)

At(c, where, op) == pc[c] = where /\ prog[c] # <<>> /\ Head(prog[c]).op = op

Goto(c, where) == pc' = [pc EXCEPT ![c] = where]

(* Done with the first operation.                                          *)
Finish(c) == prog' = [prog EXCEPT ![c] = Tail(@)] /\ Goto(c, "run")

Init ==
  /\ mutex = 0 /\ sp_mutex = 0
  /\ prog = [c \in Cpu |-> Script(c)]
  /\ pc = [c \in Cpu |-> IF c = BSP THEN "run" ELSE "parked"]
  /\ fmt = [c \in Cpu |-> <<>>] /\ out = [c \in Cpu |-> <<>>]
  /\ uart = "reset" /\ thr = <<>> /\ rx = <<>> /\ line = <<>> /\ input = 0

-----------------------------------------------------------------------------
(* sp_init: set the port up, looped back on itself, send the test byte ... *)
sp_init_test(c) ==
  /\ At(c, "run", "sp_init")
  /\ uart' = "loop" /\ thr' = <<TEST>>
  /\ Goto(c, "test")
  /\ UNCHANGED <<mutex, sp_mutex, prog, fmt, out, rx, line, input>>

(* ... and read it back at once.  When it is there the port goes on line.  *)
sp_init_ok(c) ==
  /\ At(c, "test", "sp_init")
  /\ rx = <<TEST>>
  /\ rx' = <<>> /\ uart' = "on"
  /\ Finish(c)
  /\ UNCHANGED <<mutex, sp_mutex, fmt, out, thr, line, input>>

(* When it is not, _start stops the kernel.                                *)
sp_init_fail(c) ==
  /\ At(c, "test", "sp_init")
  /\ rx # <<TEST>>
  /\ rx' = <<>>
  /\ prog' = [prog EXCEPT ![c] = ku_hang]
  /\ Goto(c, "run")
  /\ UNCHANGED <<mutex, sp_mutex, fmt, out, uart, thr, line, input>>

(* ku_print_v: take the lock, send the prefix.                             *)
print_lock_dropped(c) ==
  /\ At(c, "run", "print")
  /\ mutex' = 1
  /\ LET m == Head(prog[c]) IN
     /\ fmt' = [fmt EXCEPT ![c] = m.msg]
     /\ out' = [out EXCEPT ![c] = Prefix(m.type)]
     /\ Goto(c, IF Prefix(m.type) # <<>> THEN "sp_lock" ELSE "loop")
  /\ UNCHANGED <<sp_mutex, prog, dev_vars>>
print_lock(c) ==
  /\ At(c, "run", "print")
  /\ k_mutex_lock(mutex)
  /\ LET m == Head(prog[c]) IN
     /\ fmt' = [fmt EXCEPT ![c] = m.msg]
     /\ out' = [out EXCEPT ![c] = Prefix(m.type)]
     /\ Goto(c, IF Prefix(m.type) # <<>> THEN "sp_lock" ELSE "loop")
  /\ UNCHANGED <<sp_mutex, prog, dev_vars>>

(* One round of the loop over the format.                                  *)
print_item(c) ==
  /\ pc[c] = "loop" /\ fmt[c] # <<>>
  /\ LET item == Head(fmt[c]) IN
     /\ out' = [out EXCEPT ![c] = Piece(item)]
     /\ Goto(c, IF Sends(item) THEN "sp_lock" ELSE "loop")
  /\ fmt' = [fmt EXCEPT ![c] = Tail(@)]
  /\ UNCHANGED <<mutex, sp_mutex, prog, dev_vars>>

print_unlock(c) ==
  /\ pc[c] = "loop" /\ fmt[c] = <<>>
  /\ k_mutex_unlock(mutex)
  /\ Finish(c)
  /\ UNCHANGED <<sp_mutex, fmt, out, dev_vars>>

(* sp_write_ch called by itself: the newline.                              *)
write_ch(c) ==
  /\ At(c, "run", "write")
  /\ out' = [out EXCEPT ![c] = <<Head(prog[c]).ch>>]
  /\ Goto(c, "sp_lock")
  /\ UNCHANGED <<mutex, sp_mutex, prog, fmt, dev_vars>>

(* sp_write_str and sp_write_ch: under the port's lock, each character as  *)
(* soon as the transmit register is empty.                                 *)
sp_lock(c) ==
  /\ pc[c] = "sp_lock"
  /\ k_mutex_lock(sp_mutex)
  /\ Goto(c, "put")
  /\ UNCHANGED <<mutex, prog, fmt, out, dev_vars>>

sp_put(c) ==
  /\ pc[c] = "put" /\ out[c] # <<>>
  /\ thr = <<>>
  /\ thr' = <<Head(out[c])>>
  /\ out' = [out EXCEPT ![c] = Tail(@)]
  /\ UNCHANGED <<mutex, sp_mutex, prog, pc, fmt, uart, rx, line, input>>

(* Back to the loop of ku_print_v, or to the caller of sp_write_ch.        *)
sp_unlock(c) ==
  /\ pc[c] = "put" /\ out[c] = <<>>
  /\ k_mutex_unlock(sp_mutex)
  /\ IF Head(prog[c]).op = "print" THEN Goto(c, "loop") /\ UNCHANGED prog ELSE Finish(c)
  /\ UNCHANGED <<mutex, fmt, out, dev_vars>>

(* sp_read_ch: wait for input with the port's lock held.                   *)
read_lock(c) ==
  /\ At(c, "run", "read")
  /\ k_mutex_lock(sp_mutex)
  /\ Goto(c, "read")
  /\ UNCHANGED <<mutex, prog, fmt, out, dev_vars>>

read_ch_locked(c) ==
  /\ At(c, "read", "read")
  /\ rx # <<>>
  /\ rx' = <<>>
  /\ Finish(c)
  /\ UNCHANGED <<mutex, sp_mutex, fmt, out, uart, thr, line, input>>
read_ch(c) ==
  /\ At(c, "read", "read")
  /\ rx # <<>>
  /\ rx' = <<>>
  /\ k_mutex_unlock(sp_mutex)
  /\ Finish(c)
  /\ UNCHANGED <<mutex, fmt, out, uart, thr, line, input>>

(* _start gives the other processors their goto_address.                   *)
smp_start(c) ==
  /\ At(c, "run", "smp")
  /\ prog' = [prog EXCEPT ![c] = Tail(@)]
  /\ pc' = [d \in Cpu |-> IF pc[d] = "parked" THEN "run" ELSE pc[d]]
  /\ UNCHANGED <<mutex, sp_mutex, fmt, out, dev_vars>>

(* au_hang: stop for ever.                                                 *)
hang(c) ==
  /\ At(c, "run", "au_hang")
  /\ Goto(c, "hung")
  /\ UNCHANGED <<mutex, sp_mutex, prog, fmt, out, dev_vars>>

Step(c) ==
  \/ sp_init_test(c) \/ sp_init_ok(c) \/ sp_init_fail(c)
  \/ print_lock(c) \/ print_item(c) \/ print_unlock(c) \/ write_ch(c)
  \/ sp_lock(c) \/ sp_put(c) \/ sp_unlock(c)
  \/ read_lock(c) \/ read_ch(c) \/ smp_start(c) \/ hang(c)

(* The port sends the character in its register, or receives it itself.    *)
transmit ==
  /\ thr # <<>>
  /\ thr' = <<>>
  /\ IF uart = "loop" THEN rx' = thr /\ UNCHANGED line
                      ELSE line' = line \o thr /\ UNCHANGED rx
  /\ UNCHANGED <<mutex, sp_mutex, cpu_vars, uart, input>>

(* A character arrives and replaces one that was not read.                 *)
receive ==
  /\ uart = "on" /\ input < MAX_INPUT
  /\ rx' = <<KEY>> /\ input' = input + 1
  /\ UNCHANGED <<mutex, sp_mutex, cpu_vars, uart, thr, line>>

Stopped == (\A c \in Cpu : pc[c] \in {"hung", "parked"}) /\ UNCHANGED vars

Next == (\E c \in Cpu : Step(c)) \/ transmit \/ receive \/ Stopped

Spec == Init /\ [][Next]_vars

(* Processors keep executing and the port keeps sending.  Nobody has to    *)
(* type.                                                                   *)
FairSpec == Spec /\ (\A c \in Cpu : WF_vars(Step(c))) /\ WF_vars(transmit)

-----------------------------------------------------------------------------
(* What a message should read, defined without the loops of the code: the  *)
(* numeral of n, and its last digits for a fixed width.                    *)
Numeral(n, base) ==
  LET num[k \in 0 .. n] ==
        IF k < base THEN <<hex_lut(k)>> ELSE Append(num[k \div base], hex_lut(k % base))
  IN  num[n]

Fixed(s, w) ==
  [p \in 1 .. w |-> IF p + Len(s) > w THEN s[p + Len(s) - w] ELSE hex_lut(0)]

Meaning(item) ==
  CASE item.conv = "x" /\ item.mod = NONE -> Numeral(item.arg, 16)
    [] item.conv = "x" /\ item.mod # NONE -> Fixed(Numeral(item.arg, 16), FM[item.mod] \div 4)
    [] item.conv = "b" /\ item.mod = NONE -> Numeral(item.arg, 2)
    [] item.conv = "b" /\ item.mod # NONE -> Fixed(Numeral(item.arg, 2), FM[item.mod])
    [] item.conv = "u" -> Numeral(item.arg, 10)
    [] item.conv = "lit" -> <<item.arg>>
    [] item.conv = "s" -> item.arg
    [] item.conv = "c" -> <<item.arg % 256>>
    [] OTHER -> <<>>

Meanings(msg) == [k \in 1 .. Len(msg) |-> Meaning(msg[k])]

(* Processors that are inside ku_print_v.                                  *)
Printing == {c \in Cpu : pc[c] \in {"loop", "sp_lock", "put"} /\ Head(prog[c]).op = "print"}

Texts ==
  {[prefix |-> Prefix(o.type), words |-> Meanings(o.msg)] :
     o \in {p \in UNION {Range(Script(c)) : c \in Cpu} : p.op = "print"}}

(* Once the port is on line, messages come out whole, in the right words   *)
(* and one after the other, whichever processors print them.  Newlines are *)
(* left out of it: ku_println sends its own after unlocking, and it may    *)
(* come out inside another processor's message.                            *)
Speaking == uart = "on" /\ Printing # {}
Speaker == CHOOSE c \in Printing : TRUE
Log == INSTANCE LogSpec WITH
         Messages <- Texts,
         wire <- IF uart = "on" THEN line \o thr ELSE <<>>,
         word <- IF Speaking THEN out[Speaker] ELSE <<>>,
         rest <- IF Speaking THEN Meanings(fmt[Speaker]) ELSE <<>>
LogPromise == Log!Spec

(* Every processor that prints gets through its messages and stops, unless *)
(* another one waits in sp_read_ch for input that never comes: no lock is  *)
(* left behind, and the two locks are never waited for in a circle.        *)
AllPrinted ==
  \/ <>[](\A c \in Cpu : pc[c] \in {"hung", "parked"})
  \/ <>[](\E c \in Cpu : pc[c] = "read" /\ rx = <<>>)
=============================================================================
