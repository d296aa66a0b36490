---------------------------------- MODULE Isr ----------------------------------
(***************************************************************************)
(* Interrupts, exceptions and system calls on one processor: the order in  *)
(* which the kernel sets their tables up (arch/arch_master.c, gdt.c,       *)
(* pic.c, idt.c, kernel/src/syscall.c), the assembly stubs that save the   *)
(* registers and call a C body (arch/isr_common.S, adef.S), and what the   *)
(* bodies rely on.                                                         *)
(*                                                                         *)
(* One step is one instruction of a stub, or the call of its body.  A word *)
(* of a register or of the stack is [w, v]: what it is, and which.  The    *)
(* stack is a sequence that grows at its end, and an address on it is the  *)
(* length the stack has when the word there is on top.                     *)
(***************************************************************************)
EXTENDS Naturals, SequencesExt

CONSTANTS
  Vectors,   \* the vectors of the interrupt descriptor table
  Stray,     \* vectors of interrupts that do not come through the PIC
  Lines,     \* interrupt lines of the PIC
  Selectors  \* what callers of system calls put into ARSEL

(* Vector 128 is the system call's: nothing else is set up to raise it.    *)
ASSUME IsrAssumption ==
  /\ Vectors \subseteq 0 .. 255 /\ 128 \in Vectors
  /\ Stray \subseteq (Vectors \cap 32 .. 255) \ {128}
  /\ Lines \subseteq 0 .. 7
  /\ Selectors \subseteq Nat

VARIABLES
  boot,   \* what is left to set up
  pic,    \* the interrupt controller: its first vector, whether it is masked
  idt,    \* the table, as it is loaded: [stub, gate] per vector
  cs,     \* the code segment
  ifl,    \* the interrupt flag
  regs,   \* the general registers
  stk,    \* the stack
  rip,    \* the next instruction
  said,   \* what the last DBG_PRINTLN passed to ku_println
  ctx     \* history: what was interrupted, innermost last

isr_vars == <<boot, pic, idt, cs, ifl, regs, stk, rip, said, ctx>>
table_vars == <<boot, pic, idt>>

Word(w, v) == [w |-> w, v |-> v]

-----------------------------------------------------------------------------
(* The stubs.                                                              *)
PUSH_GEN_REGS ==
  <<"r15", "r14", "r13", "r12", "r11", "r10", "r9", "r8",
    "rbp", "rdi", "rsi", "rdx", "rcx", "rbx", "rax">>
POP_GEN_REGS_SWAPPED ==
  <<"rax", "rbx", "rcx", "rdx", "rdi", "rsi", "rbp",
    "r8", "r9", "r10", "r11", "r12", "r13", "r14", "r15">>
POP_GEN_REGS ==
  <<"rax", "rbx", "rcx", "rdx", "rsi", "rdi", "rbp",
    "r8", "r9", "r10", "r11", "r12", "r13", "r14", "r15">>

Insn(op) == [op |-> op, reg |-> "-"]
Each(op, rs) == [k \in 1 .. Len(rs) |-> [op |-> op, reg |-> rs[k]]]

Stub(pushes, args, pops) ==
  Each("push", pushes) \o args \o Each("pop", pops) \o <<Insn("iretq")>>

ISR_DEF_HEAD ==
  Stub(PUSH_GEN_REGS, <<Insn("mov rdi, rsp"), Insn("call")>>, POP_GEN_REGS)

ISR_EXCEPT_DEF_HEAD ==
  Stub(PUSH_GEN_REGS,
       <<Insn("mov rdi, rsp"), Insn("lea rsi, [rsp + 0x78]"), Insn("call")>>, POP_GEN_REGS)

ISR_SYSCALL_DEF_HEAD ==
  Stub(<<"rdx", "rsi", "rdi", "rax",
         "r11", "r10", "r9", "r8", "rcx", "rdx", "rsi", "rdi", "rax">>,
       <<Insn("mov rdi, rsp"), Insn("call")>>,
       <<"rax", "rdi", "rsi", "rdx", "rcx", "r8", "r9", "r10", "r11",
         "rax", "rdi", "rsi", "rdx">>)

Code(stub) ==
  CASE stub = "isr_default" -> ISR_DEF_HEAD
    [] stub = "isr_except" -> ISR_EXCEPT_DEF_HEAD
    [] stub = "isr_syscall" -> ISR_SYSCALL_DEF_HEAD

(* The exceptions' entries; some vectors have none.                        *)
Gate(stub, gate) == [stub |-> stub, gate |-> gate]
NULL_ENT == Gate("none", "none")
isr_except_spec_tab(v) ==
  IF v \in {15, 31} \cup 22 .. 27 THEN NULL_ENT
  ELSE Gate("isr_except", IF v \in {1, 3, 4} THEN "IGT_TRAP" ELSE "IGT_INT")

(* Exceptions whose body takes a frame with an error code in front.        *)
TakesCode == {8, 10, 11, 12, 13, 14, 17, 21, 29, 30}

(* Fields of the structures that the stubs build on the stack.             *)
cpu_gen_regs ==
  <<"rax", "rbx", "rcx", "rdx", "rsi", "rdi", "rbp",
    "r8", "r9", "r10", "r11", "r12", "r13", "r14", "r15">>
GenRegs == Range(cpu_gen_regs)

(* sc_args, each field by the register that docs/syscalls.md gives it:     *)
(* ARSEL, AR0 to AR7, OR0 to OR3.                                          *)
sc_args ==
  <<"rax", "rdi", "rsi", "rdx", "rcx", "r8", "r9", "r10", "r11",
    "rax", "rdi", "rsi", "rdx">>

(* Word i, from 0, of a structure at address p.                            *)
Field(p, i) == stk[p - i]

-----------------------------------------------------------------------------
(* Where a processor is in a stub, as an address.                          *)
STUB_SIZE == 64   \* more than a stub's instructions
InStub == rip.w = "isr"
Vec == rip.v \div STUB_SIZE
Line == rip.v % STUB_SIZE
CurInsn == Code(idt[Vec].stub)[Line]
Next_rip == Word("isr", rip.v + 1)

Top(k) == stk[Len(stk) - k]

arch_master_init_pic_last == <<"gdt_init", "idt_init", "pic_init">>
arch_master_init == <<"gdt_init", "pic_init", "idt_init">>

(* The boot loader's tables, interrupts off, and an interrupt controller   *)
(* as the firmware left it.  The stack may be aligned to 16 bytes or not.  *)
IsrInit ==
  /\ boot = arch_master_init \o <<"syscall_init">>
  /\ pic = [base |-> 8, masked |-> FALSE]
  /\ idt = [v \in Vectors |-> NULL_ENT]
  /\ cs = Word("cs", 40) /\ ifl = FALSE
  /\ regs = [r \in GenRegs |-> Word(r, 0)]
  /\ stk \in {<<>>, <<Word("main", 1)>>}
  /\ rip = Word("main", 0)
  /\ said = <<>> /\ ctx = <<>>

Boots(step) == rip.w = "main" /\ boot # <<>> /\ Head(boot) = step /\ boot' = Tail(boot)

gdt_init ==
  /\ Boots("gdt_init")
  /\ cs' = Word("cs", 8)
  /\ UNCHANGED <<pic, idt, ifl, regs, stk, rip, said, ctx>>

(* Vectors from 0x20 on, and every line masked.                            *)
pic_init ==
  /\ Boots("pic_init")
  /\ pic' = [base |-> 32, masked |-> TRUE]
  /\ UNCHANGED <<idt, cs, ifl, regs, stk, rip, said, ctx>>

(* Fill the table, load it, and enable interrupts.                         *)
idt_init ==
  /\ Boots("idt_init")
  /\ idt' = [v \in Vectors |-> IF v < 32 THEN isr_except_spec_tab(v)
                                         ELSE Gate("isr_default", "IGT_INT")]
  /\ ifl' = TRUE
  /\ UNCHANGED <<pic, cs, regs, stk, rip, said, ctx>>

syscall_init ==
  /\ Boots("syscall_init")
  /\ idt' = [idt EXCEPT ![128] = Gate("isr_syscall", "IGT_INT")]
  /\ UNCHANGED <<pic, cs, ifl, regs, stk, rip, said, ctx>>

-----------------------------------------------------------------------------
(* The processor (external).                                               *)

HasCode(v) == v \in {8, 10, 11, 12, 13, 14, 17, 21, 29, 30}

(* Align the stack, push the frame and the error code, go to the stub; an  *)
(* interrupt gate disables interrupts.                                     *)
Enter(v, r, code) ==
  LET pad == IF Len(stk) % 2 = 1 THEN <<Word("pad", 0)>> ELSE <<>>
      frame == << Word("ss", 16), Word("rsp", Len(stk)),
                  Word("flags", IF ifl THEN 1 ELSE 0), cs, rip >>
  IN
  /\ idt[v] # NULL_ENT
  /\ stk' = stk \o pad \o frame \o (IF code THEN <<Word("e", v)>> ELSE <<>>)
  /\ regs' = r
  /\ cs' = Word("cs", 8)
  /\ ifl' = (ifl /\ idt[v].gate = "IGT_TRAP")
  /\ rip' = Word("isr", v * STUB_SIZE + 1)
  /\ ctx' = Append(ctx, [vec |-> v, code |-> code, regs |-> r, stk |-> stk,
                         rip |-> rip, cs |-> cs, ifl |-> ifl])
  /\ UNCHANGED <<table_vars, said>>

(* An instruction outside the stubs raises exception v.                    *)
exception(v) == rip.w = "main" /\ v < 32 /\ Enter(v, regs, HasCode(v))

(* An interrupt arrives, in a stub too when interrupts are enabled there.  *)
Deliverable == Stray \cup (IF pic.masked THEN {} ELSE {pic.base + l : l \in Lines})
interrupt(v) == ifl /\ rip.w # "lost" /\ v \in Deliverable /\ Enter(v, regs, FALSE)

(* A program loads ARSEL and executes int 0x80.                            *)
syscall(sel) ==
  rip.w = "main" /\ Enter(128, [regs EXCEPT !["rax"] = Word("sel", sel)], FALSE)

push ==
  /\ InStub /\ CurInsn.op = "push"
  /\ stk' = Append(stk, regs[CurInsn.reg])
  /\ rip' = Next_rip
  /\ UNCHANGED <<table_vars, cs, ifl, regs, said, ctx>>

pop ==
  /\ InStub /\ CurInsn.op = "pop"
  /\ regs' = [regs EXCEPT ![CurInsn.reg] = Top(0)]
  /\ stk' = Front(stk)
  /\ rip' = Next_rip
  /\ UNCHANGED <<table_vars, cs, ifl, said, ctx>>

mov ==
  /\ InStub /\ CurInsn.op = "mov rdi, rsp"
  /\ regs' = [regs EXCEPT !["rdi"] = Word("ptr", Len(stk))]
  /\ rip' = Next_rip
  /\ UNCHANGED <<table_vars, cs, ifl, stk, said, ctx>>

lea ==
  /\ InStub /\ CurInsn.op = "lea rsi, [rsp + 0x78]"
  /\ regs' = [regs EXCEPT !["rsi"] = Word("ptr", Len(stk) - 15)]
  /\ rip' = Next_rip
  /\ UNCHANGED <<table_vars, cs, ifl, stk, said, ctx>>

(* A C function keeps the registers the calling convention says, and the   *)
(* stack above it.                                                         *)
CallerSaved == {"rax", "rcx", "rdx", "rsi", "rdi", "r8", "r9", "r10", "r11"}
Body(stub) ==
  /\ InStub /\ CurInsn.op = "call" /\ idt[Vec].stub = stub
  /\ regs' = [r \in GenRegs |-> IF r \in CallerSaved THEN Word("junk", 0) ELSE regs[r]]
  /\ rip' = Next_rip
  /\ UNCHANGED <<table_vars, cs, ifl, stk, ctx>>

(* The bodies of exceptions and of other interrupts are empty.             *)
isr_except_body == Body("isr_except") /\ UNCHANGED said

isr_default_body == Body("isr_default") /\ UNCHANGED said

(* isr_syscall_body: DBG_PRINTLN prints the text AR1 with the type AR0.    *)
sc_dbg_println ==
  /\ Body("isr_syscall") /\ Field(regs["rdi"].v, 0) = Word("sel", 0)
  /\ said' = <<Field(regs["rdi"].v, 1), Field(regs["rdi"].v, 2)>>

(* PROG_TERM and unknown selections do nothing.                            *)
sc_other ==
  /\ Body("isr_syscall") /\ Field(regs["rdi"].v, 0) # Word("sel", 0)
  /\ UNCHANGED said

(* Return to what the five words on top say.                               *)
iretq ==
  /\ InStub /\ CurInsn.op = "iretq" /\ Top(1).w = "cs"
  /\ rip' = Top(0) /\ cs' = Top(1) /\ ifl' = (Top(2) = Word("flags", 1))
  /\ stk' = SubSeq(stk, 1, Top(3).v)
  /\ ctx' = Front(ctx)
  /\ UNCHANGED <<table_vars, regs, said>>

(* With an error code on top, it is taken for the address and the address  *)
(* for the code segment: the processor cannot go on.                       *)
iretq_lost ==
  /\ InStub /\ CurInsn.op = "iretq" /\ Top(1).w # "cs"
  /\ rip' = Word("lost", 0)
  /\ UNCHANGED <<table_vars, cs, ifl, regs, stk, said, ctx>>

Lost == rip.w = "lost" /\ UNCHANGED isr_vars

IsrNext ==
  \/ gdt_init \/ pic_init \/ idt_init \/ syscall_init
  \/ (\E v \in Vectors : exception(v) \/ interrupt(v))
  \/ (\E sel \in Selectors : syscall(sel))
  \/ push \/ pop \/ mov \/ lea
  \/ isr_except_body \/ isr_default_body \/ sc_dbg_println \/ sc_other
  \/ iretq \/ iretq_lost \/ Lost

IsrSpec == IsrInit /\ [][IsrNext]_isr_vars

-----------------------------------------------------------------------------
(* Whatever was interrupted, the kernel, a program or another stub, goes   *)
(* on with the stack, address, segment and interrupt flag it had, if the   *)
(* processor pushed no error code, and, unless it made a system call, with *)
(* its registers: the pops mirror the pushes, the bodies' clobbered        *)
(* registers are all saved, and the frame is on top again at iretq (the    *)
(* ISR macros).  docs/syscalls.md:6 promises no register to the caller of  *)
(* a system call but OR0 to OR3, its results.  No call sets one: they are  *)
(* what the stub put into their fields, and only of them is anything said  *)
(* here, though the stub happens to restore the other registers too.       *)
OR == {"rax", "rdi", "rsi", "rdx"}
Transparent ==
  [][(iretq \/ iretq_lost) /\ ~Last(ctx).code =>
       LET was == Last(ctx) IN
       /\ rip' = was.rip /\ cs' = was.cs /\ ifl' = was.ifl /\ stk' = was.stk
       /\ \A r \in IF was.vec = 128 THEN OR ELSE GenRegs :
            regs'[r] = was.regs[r]]_isr_vars

(* When a body is called, its pointers lead to what its C declaration      *)
(* says: the interrupted registers, the frame with or without an error     *)
(* code, or the system call's arguments by docs/syscalls.md.  A device's   *)
(* interrupt never enters an exception's stub, where the frame would be    *)
(* mistaken: the controller is remapped before interrupts are enabled.     *)
(* Without an error code the stack is aligned for the call.  And what      *)
(* DBG_PRINTLN prints is what the program had in AR0 and AR1.              *)
IsFrame(p, was, code) ==
  LET n == IF code THEN 1 ELSE 0 IN
  /\ code => Field(p, 0) = Word("e", was.vec)
  /\ Field(p, n) = was.rip /\ Field(p, n + 1) = was.cs
  /\ Field(p, n + 2) = Word("flags", IF was.ifl THEN 1 ELSE 0)
  /\ Field(p, n + 3) = Word("rsp", Len(was.stk))

ArgsRight ==
  /\ said \in {<<>>, <<Word("rdi", 0), Word("rsi", 0)>>}
  /\ InStub /\ CurInsn.op = "call" =>
    LET was == Last(ctx)
        stub == idt[Vec].stub
        p == regs["rdi"].v
    IN  /\ Vec = was.vec
        /\ stub # "isr_syscall" =>
             \A i \in DOMAIN cpu_gen_regs : Field(p, i - 1) = was.regs[cpu_gen_regs[i]]
        /\ stub = "isr_except" => IsFrame(regs["rsi"].v, was, Vec \in TakesCode)
        /\ stub = "isr_syscall" =>
             \A i \in DOMAIN sc_args : Field(p, i - 1) = was.regs[sc_args[i]]
        /\ ~was.code => Len(stk) % 2 = 0
=============================================================================
