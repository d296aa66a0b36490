------------------------------- MODULE HeapSpec -------------------------------
(***************************************************************************)
(* What the kernel heap promises its callers: a pool of mapped bytes that  *)
(* only grows, and blocks of it that lie inside the pool, are aligned,     *)
(* keep clear of each other and of the heap's own headers, and stay where  *)
(* they are.                                                               *)
(***************************************************************************)
EXTENDS Naturals

CONSTANTS
  Base,    \* address of the first byte of the pool
  Align,   \* alignment of a block, and the room for the header before it
  Limit    \* most bytes the pool may have

VARIABLES
  pool,    \* bytes in the pool
  blocks   \* blocks handed out, [addr, size]

Clear(a, b) == a.addr + a.size <= b.addr - Align \/ b.addr + b.size <= a.addr - Align

Init == pool = 0 /\ blocks = {}

Grow == pool' > pool /\ pool' <= Limit /\ UNCHANGED blocks

Grant ==
  \E b \in blocks' :
    /\ b \notin blocks
    /\ blocks' = blocks \cup {b}
    /\ b.addr % Align = 0
    /\ Base + Align <= b.addr /\ b.addr + b.size <= Base + pool
    /\ \A a \in blocks : Clear(a, b)
    /\ UNCHANGED pool

Next == Grow \/ Grant

Spec == Init /\ [][Next]_<<pool, blocks>>
=============================================================================
