--------------------------------- MODULE Pmm ---------------------------------
(***************************************************************************)
(* The physical page-frame allocator (kernel/src/pmm.c), with the memory   *)
(* layout it is initialised from.                                          *)
(*                                                                         *)
(* Every usable region has a bitmap, kept in the region's own first pages, *)
(* with one bit per remaining page; a set bit means "not to be handed      *)
(* out".  pmm_alloc() pops a small stack of page frames, and refills it    *)
(* from the bitmaps when it is empty: bm_feed_stk() sets the bit of every  *)
(* frame it pushes.  pmm_free() clears the bit again.  first_free caches,  *)
(* per region, an index below which no bit is clear.                       *)
(*                                                                         *)
(* The regions are disjoint, so the bits of all bitmaps are one set, data, *)
(* of page-frame numbers.  pmm_init() never clears the bitmaps' memory:    *)
(* the bits found there are arbitrary, and junk remembers them.            *)
(***************************************************************************)
EXTENDS MemLayout, Katomic

CONSTANTS
  Cpu,           \* processors that call into the allocator
  BSP,           \* the one that boots the kernel
  PAGE_STK_CAP,  \* capacity of page_stk
  MAX_DRIFT      \* bound: how far first_free may run past a region's end

ASSUME PmmAssumption ==
  /\ BSP \in Cpu
  /\ PAGE_STK_CAP \in Nat \ {0}
  /\ MAX_DRIFT \in Nat

VARIABLES
  page_bms,    \* sequence of [base, npage]
  first_free,  \* the first_free field of each bitmap
  data,        \* frames whose bit is set
  page_stk,    \* the stack of frames ready to be handed out
  mutex,
  up,          \* pmm_init() has returned
  pc, i, j,    \* per processor: where it is, and the locals of bm_feed_stk
  arg,         \* per processor: the address given to pmm_free or pmm_avl
  owned,       \* history: frames returned by pmm_alloc and not yet freed
  junk         \* history: frames whose bit was set before pmm_init

pmm_vars == <<page_bms, first_free, data, page_stk, mutex, up, owned, junk>>
local_vars == <<pc, i, j, arg>>
vars == <<meml_vars, pmm_vars, local_vars>>

PHYS_ADDR_NULL == 0

-----------------------------------------------------------------------------
(* Regions, frames and bits.                                               *)

(* struct bitmap, without its first_free and data fields: base is a frame, *)
(* npage a number of frames.                                               *)
bitmap == [base : Nat, npage : Nat]

(* Pages set aside for the bitmap of a region of n pages.                  *)
NpageBmShort(n) == (((7 * n) \div 8) - 1) \div PAGE_SIZE
NpageBm(n) == 1 + ((((7 * n) \div 8) - 1) \div PAGE_SIZE)

(* The struct bitmap of a layout entry.                                    *)
BitmapOf(ent) == [base  |-> ent.base + NpageBm(ent.size),
                  npage |-> ent.size - NpageBm(ent.size)]

Frame(bm, n) == bm.base + n

Covers(bm, addr) == bm.base <= addr /\ addr < bm.base + bm.npage

Managed(addr) == \E k \in DOMAIN page_bms : Covers(page_bms[k], addr)

ManagedFrames ==
  UNION {page_bms[k].base .. page_bms[k].base + page_bms[k].npage - 1 :
           k \in DOMAIN page_bms}

Stacked == {page_stk[n] : n \in DOMAIN page_stk}

(* f is the index bm_find_first_free(bm, start) returns.                   *)
bm_find_first_free(bm, start, f) ==
  /\ f \in start .. (IF start < bm.npage THEN bm.npage ELSE start)
  /\ \A g \in start .. f - 1 : Frame(bm, g) \in data
  /\ f < bm.npage => Frame(bm, f) \notin data

-----------------------------------------------------------------------------
Init ==
  /\ MemlInit
  /\ page_bms = <<>> /\ first_free = <<>>
  /\ data = {} /\ page_stk = <<>> /\ mutex = 0 /\ up = FALSE
  /\ pc = [c \in Cpu |-> IF c = BSP THEN "meml" ELSE "idle"]
  /\ i = [c \in Cpu |-> 1]
  /\ j = [c \in Cpu |-> 0]
  /\ arg = [c \in Cpu |-> PHYS_ADDR_NULL]
  /\ owned = {} /\ junk = {}

Goto(c, label) == pc' = [pc EXCEPT ![c] = label]

(* A call returns: its parameter is forgotten.                             *)
Return(c) == Goto(c, "idle") /\ arg' = [arg EXCEPT ![c] = PHYS_ADDR_NULL]

-----------------------------------------------------------------------------
(* Booting: meml_init(), then pmm_init() on the processor that boots.      *)

Collect ==
  /\ pc[BSP] = "meml"
  /\ meml_collect
  /\ UNCHANGED <<pmm_vars, local_vars>>

(* meml_init() returns; an empty layout stops the kernel (ku_hang).        *)
Collected ==
  /\ pc[BSP] = "meml"
  /\ ~MemlMore
  /\ Goto(BSP, IF ml_ents = <<>> THEN "hung" ELSE "init")
  /\ UNCHANGED <<meml_vars, pmm_vars, i, j, arg>>

(* One iteration of the loop of pmm_init: whatever bits the region's first *)
(* pages hold become the bitmap.                                           *)
InitRegion ==
  LET ent == ml_ents[Len(page_bms) + 1]
      bm == BitmapOf(ent)
  IN
  /\ pc[BSP] = "init"
  /\ Len(page_bms) < Len(ml_ents)
  /\ page_bms' = Append(page_bms, bm)
  /\ first_free' = Append(first_free, 0)
  /\ \E bits \in SUBSET (bm.base .. bm.base + bm.npage - 1) :
       /\ data' = data \cup bits
       /\ junk' = junk \cup bits
  /\ UNCHANGED <<meml_vars, page_stk, mutex, up, owned, local_vars>>

(* The rest of pmm_init: an empty stack, then the call of bm_feed_stk.     *)
InitFeed ==
  /\ pc[BSP] = "init"
  /\ Len(page_bms) = Len(ml_ents)
  /\ page_stk' = <<>>
  /\ Goto(BSP, "outer")
  /\ i' = [i EXCEPT ![BSP] = 1]
  /\ UNCHANGED <<meml_vars, page_bms, first_free, data, mutex, up, owned, junk,
                 j, arg>>

-----------------------------------------------------------------------------
(* bm_feed_stk: refill the stack.  pmm_init runs it before any other       *)
(* processor can call, pmm_alloc runs it under the lock.                   *)

feed_outer(c) ==
  /\ pc[c] = "outer"
  /\ i[c] <= Len(page_bms) /\ Len(page_stk) < PAGE_STK_CAP
  /\ j' = [j EXCEPT ![c] = first_free[i[c]]]
  /\ Goto(c, "inner")
  /\ UNCHANGED <<meml_vars, pmm_vars, i, arg>>

feed_done(c) ==
  /\ pc[c] = "outer"
  /\ i[c] > Len(page_bms) \/ Len(page_stk) >= PAGE_STK_CAP
  /\ up' = TRUE
  /\ i' = [i EXCEPT ![c] = 1]
  /\ Goto(c, IF up THEN "take" ELSE "idle")
  /\ UNCHANGED <<meml_vars, page_bms, first_free, data, page_stk, mutex, owned,
                 junk, j, arg>>

(* Page j of region i: push it if its bit is clear; leave the loop once    *)
(* the stack is full.                                                      *)
feed_page_bitless(c) ==
  LET bm == page_bms[i[c]]
      frame == Frame(bm, j[c])
  IN
  /\ pc[c] = "inner"
  /\ j[c] < bm.npage
  /\ page_stk' = IF frame \in data THEN page_stk ELSE Append(page_stk, frame)
  /\ IF Len(page_stk') >= PAGE_STK_CAP
     THEN Goto(c, "hint") /\ UNCHANGED j
     ELSE UNCHANGED pc /\ j' = [j EXCEPT ![c] = @ + 1]
  /\ UNCHANGED <<meml_vars, page_bms, first_free, data, mutex, up, owned, junk,
                 i, arg>>
feed_page_overfull(c) ==
  LET bm == page_bms[i[c]]
      frame == Frame(bm, j[c])
  IN
  /\ pc[c] = "inner"
  /\ j[c] < bm.npage
  /\ data' = data \cup {frame}
  /\ page_stk' = IF frame \in data THEN page_stk ELSE Append(page_stk, frame)
  /\ IF Len(page_stk') > PAGE_STK_CAP
     THEN Goto(c, "hint") /\ UNCHANGED j
     ELSE UNCHANGED pc /\ j' = [j EXCEPT ![c] = @ + 1]
  /\ UNCHANGED <<meml_vars, page_bms, first_free, mutex, up, owned, junk,
                 i, arg>>
feed_page_stuck(c) ==
  LET bm == page_bms[i[c]]
      frame == Frame(bm, j[c])
  IN
  /\ pc[c] = "inner"
  /\ j[c] < bm.npage
  /\ data' = data \cup {frame}
  /\ page_stk' = IF frame \in data THEN page_stk ELSE Append(page_stk, frame)
  /\ IF Len(page_stk') >= PAGE_STK_CAP
     THEN Goto(c, "hint") /\ UNCHANGED j
     ELSE UNCHANGED pc /\ j' = [j EXCEPT ![c] = IF frame \in data THEN @ ELSE @ + 1]
  /\ UNCHANGED <<meml_vars, page_bms, first_free, mutex, up, owned, junk,
                 i, arg>>
feed_page(c) ==
  LET bm == page_bms[i[c]]
      frame == Frame(bm, j[c])
  IN
  /\ pc[c] = "inner"
  /\ j[c] < bm.npage
  /\ data' = data \cup {frame}
  /\ page_stk' = IF frame \in data THEN page_stk ELSE Append(page_stk, frame)
  /\ IF Len(page_stk') >= PAGE_STK_CAP
     THEN Goto(c, "hint") /\ UNCHANGED j
     ELSE UNCHANGED pc /\ j' = [j EXCEPT ![c] = @ + 1]
  /\ UNCHANGED <<meml_vars, page_bms, first_free, mutex, up, owned, junk,
                 i, arg>>

feed_end(c) ==
  /\ pc[c] = "inner"
  /\ j[c] >= page_bms[i[c]].npage
  /\ Goto(c, "hint")
  /\ UNCHANGED <<meml_vars, pmm_vars, i, j, arg>>

(* The statement after the inner loop moves the hint past the index the    *)
(* scan started at, and the outer loop goes on to the next region.         *)
feed_hint(c) ==
  LET bm == page_bms[i[c]]
      start == first_free[i[c]] + 1
  IN
  /\ pc[c] = "hint"
  /\ \E f \in start .. start + bm.npage :
       /\ bm_find_first_free(bm, start, f)
       /\ first_free' = [first_free EXCEPT ![i[c]] = f]
  /\ i' = [i EXCEPT ![c] = @ + 1]
  /\ j' = [j EXCEPT ![c] = 0]
  /\ Goto(c, "outer")
  /\ UNCHANGED <<meml_vars, page_bms, data, page_stk, mutex, up, owned, junk, arg>>

-----------------------------------------------------------------------------
(* pmm_alloc                                                               *)

(* Each failed refill moves the hints one further past the regions' ends;  *)
(* the model stops asking at MAX_DRIFT.                                    *)
DriftBounded ==
  \A k \in DOMAIN page_bms : first_free[k] <= page_bms[k].npage + MAX_DRIFT

alloc_lock(c) ==
  /\ pc[c] = "idle" /\ up /\ DriftBounded
  /\ k_mutex_lock(mutex)
  /\ Goto(c, IF page_stk = <<>> THEN "outer" ELSE "take")
  /\ i' = [i EXCEPT ![c] = 1]
  /\ UNCHANGED <<meml_vars, page_bms, first_free, data, page_stk, up, owned,
                 junk, j, arg>>

(* No frame could be fed to the stack: unlock, return PHYS_ADDR_NULL.      *)
alloc_fail(c) ==
  /\ pc[c] = "take"
  /\ page_stk = <<>>
  /\ k_mutex_unlock(mutex)
  /\ Goto(c, "idle")
  /\ UNCHANGED <<meml_vars, page_bms, first_free, data, page_stk, up, owned,
                 junk, i, j, arg>>

alloc_pop(c) ==
  LET top == Len(page_stk) IN
  /\ pc[c] = "take"
  /\ page_stk # <<>>
  /\ owned' = owned \cup {page_stk[top]}
  /\ page_stk' = SubSeq(page_stk, 1, top - 1)
  /\ k_mutex_unlock(mutex)
  /\ Goto(c, "idle")
  /\ UNCHANGED <<meml_vars, page_bms, first_free, data, up, junk, i, j, arg>>

-----------------------------------------------------------------------------
(* pmm_free.  A caller frees a frame it was given, once, or the null       *)
(* address a failed allocation left it with; the frame stops being its own *)
(* when it makes the call.                                                 *)

free_lock(c) ==
  /\ pc[c] = "idle" /\ up
  /\ \E a \in owned \cup {PHYS_ADDR_NULL} :
       /\ arg' = [arg EXCEPT ![c] = a]
       /\ owned' = owned \ {a}
  /\ k_mutex_lock(mutex)
  /\ Goto(c, "free")
  /\ UNCHANGED <<meml_vars, page_bms, first_free, data, page_stk, up, junk,
                 i, j>>

(* No bitmap covers the address.                                           *)
free_foreign(c) ==
  /\ pc[c] = "free"
  /\ ~Managed(arg[c])
  /\ k_mutex_unlock(mutex)
  /\ Return(c)
  /\ UNCHANGED <<meml_vars, page_bms, first_free, data, page_stk, up, owned,
                 junk, i, j>>

(* Clear the bit, pull the hint down.                                      *)
free_found_stale_hint(c) ==
  /\ pc[c] = "free"
  /\ \E k \in DOMAIN page_bms :
       /\ Covers(page_bms[k], arg[c])
       /\ data' = data \ {arg[c]}
  /\ k_mutex_unlock(mutex)
  /\ Return(c)
  /\ UNCHANGED <<meml_vars, page_bms, first_free, page_stk, up, owned, junk,
                 i, j>>
free_found(c) ==
  /\ pc[c] = "free"
  /\ \E k \in DOMAIN page_bms :
       LET ind == arg[c] - page_bms[k].base IN
       /\ Covers(page_bms[k], arg[c])
       /\ data' = data \ {arg[c]}
       /\ first_free' = [first_free EXCEPT ![k] = IF ind < @ THEN ind ELSE @]
  /\ k_mutex_unlock(mutex)
  /\ Return(c)
  /\ UNCHANGED <<meml_vars, page_bms, page_stk, up, owned, junk, i, j>>

-----------------------------------------------------------------------------
(* pmm_avl: finds the bitmap under the lock, reads the bit after unlocking.*)
(* Its answer is about the instant of that read; nothing is claimed of it, *)
(* and the kernel does not call it.                                        *)

avl_lock(c) ==
  /\ pc[c] = "idle" /\ up
  /\ \E a \in ManagedFrames \cup {PHYS_ADDR_NULL} : arg' = [arg EXCEPT ![c] = a]
  /\ k_mutex_lock(mutex)
  /\ Goto(c, "avl")
  /\ UNCHANGED <<meml_vars, page_bms, first_free, data, page_stk, up, owned,
                 junk, i, j>>

avl_find(c) ==
  /\ pc[c] = "avl"
  /\ k_mutex_unlock(mutex)
  /\ Goto(c, IF Managed(arg[c]) THEN "avl_rd" ELSE "avl_false")
  /\ UNCHANGED <<meml_vars, page_bms, first_free, data, page_stk, up, owned,
                 junk, i, j, arg>>

avl_rd(c) ==
  /\ pc[c] = "avl_rd"
  /\ Goto(c, IF arg[c] \in data THEN "avl_true" ELSE "avl_false")
  /\ UNCHANGED <<meml_vars, pmm_vars, i, j, arg>>

avl_return(c) ==
  /\ pc[c] \in {"avl_true", "avl_false"}
  /\ Return(c)
  /\ UNCHANGED <<meml_vars, pmm_vars, i, j>>

-----------------------------------------------------------------------------
Boot == Collect \/ Collected \/ InitRegion \/ InitFeed

Feed(c) ==
  \/ feed_outer(c) \/ feed_page(c) \/ feed_end(c) \/ feed_hint(c) \/ feed_done(c)

(* The steps of a call that has taken the lock.                            *)
Inside(c) ==
  \/ Feed(c) \/ alloc_fail(c) \/ alloc_pop(c)
  \/ free_foreign(c) \/ free_found(c)
  \/ avl_find(c) \/ avl_rd(c) \/ avl_return(c)

Call(c) == alloc_lock(c) \/ free_lock(c) \/ avl_lock(c)

(* Without usable memory the kernel halts its processor for good.          *)
Hung == pc[BSP] = "hung" /\ UNCHANGED vars

Next == Boot \/ Hung \/ \E c \in Cpu : Inside(c) \/ Call(c)

(* A processor inside the kernel is never preempted: it keeps executing.   *)
Fairness == WF_vars(Boot) /\ \A c \in Cpu : WF_vars(Inside(c))

Spec == Init /\ [][Next]_vars

FairSpec == Spec /\ Fairness

-----------------------------------------------------------------------------
Labels == {"meml", "hung", "init", "outer", "inner", "hint", "take", "free",
           "avl", "avl_rd", "avl_true", "avl_false", "idle"}

(* Every variable holds a value of its C type, the locals of the feed loop *)
(* index what they are about to index, and page_stk never holds more than  *)
(* PAGE_STK_CAP frames (it is a fixed array with an unchecked push).       *)
TypeOK ==
  /\ mem_map \in MemMaps
  /\ ml_ents \in Seq(meml_ent) /\ ml_pos \in Nat
  /\ page_bms \in Seq(bitmap)
  /\ first_free \in Seq(Nat) /\ Len(first_free) = Len(page_bms)
  /\ data \in SUBSET Nat /\ owned \in SUBSET Nat /\ junk \in SUBSET Nat
  /\ page_stk \in Seq(Nat) /\ Len(page_stk) <= PAGE_STK_CAP
  /\ mutex \in k_mutex_t /\ up \in BOOLEAN
  /\ pc \in [Cpu -> Labels]
  /\ i \in [Cpu -> Nat \ {0}] /\ j \in [Cpu -> Nat]
  /\ arg \in [Cpu -> Nat]
  /\ \A c \in Cpu : pc[c] \in {"inner", "hint"} => i[c] \in DOMAIN page_bms

(* Frames on their way back: given to a pmm_free that has not cleared      *)
(* their bit yet.                                                          *)
Returning == {arg[c] : c \in {d \in Cpu : pc[d] = "free" /\ Managed(arg[d])}}

(* No frame has two uses: the frames on the stack are distinct, and none   *)
(* of them is owned by a caller, being freed, or marked used at boot.      *)
(* (pmm_alloc, pmm_free, bm_feed_stk)                                      *)
NoDoubleUse ==
  /\ \A m, n \in DOMAIN page_stk : page_stk[m] = page_stk[n] => m = n
  /\ Stacked \cap (owned \cup Returning \cup junk) = {}
  /\ owned \cap (Returning \cup junk) = {}
  /\ Returning \cap junk = {}

(* The bitmaps account for every frame: a bit is set exactly when its frame*)
(* is stacked, owned, being freed or was junk, so nothing is lost or       *)
(* invented by any number of pmm_alloc and pmm_free.                       *)
Conservation == data = Stacked \cup owned \cup Returning \cup junk

(* first_free never runs past a clear bit, so a feed that starts there     *)
(* misses no free frame (bm_feed_stk, bm_find_first_free, pmm_free).       *)
HintSound ==
  \A k \in DOMAIN page_bms : \A g \in 0 .. first_free[k] - 1 :
    g < page_bms[k].npage => Frame(page_bms[k], g) \in data

(* pmm_alloc returns PHYS_ADDR_NULL only when no frame is free: when it is *)
(* about to, every managed frame is owned by a caller or was lost at boot. *)
NullOnlyWhenExhausted ==
  \A c \in Cpu : pc[c] = "take" /\ page_stk = <<>> =>
    \A a \in ManagedFrames : a \in owned \cup junk

(* What is handed out is a page of usable memory that holds no bitmap, and *)
(* never the null address pmm_alloc uses to report failure, even if usable *)
(* memory starts at address 0 (pmm_init's base and npage_bm).              *)
GrantsUsable ==
  \A a \in owned :
    /\ a # PHYS_ADDR_NULL
    /\ \E k \in DOMAIN ml_ents :
         LET ent == ml_ents[k] IN
         /\ ent.base + NpageBm(ent.size) <= a
         /\ a < ent.base + ent.size

(* A bitmap fits the pages set aside for it: one bit per page of its       *)
(* region, in front of the region's first page (pmm_init).                 *)
BitmapFits ==
  \A k \in DOMAIN page_bms :
    /\ (page_bms[k].npage + 7) \div 8
         <= PAGE_SIZE * (page_bms[k].base - ml_ents[k].base)
    /\ page_bms[k].npage > 0

(* A processor that holds the lock gives it back: no path through          *)
(* pmm_alloc, pmm_free or pmm_avl returns with the mutex taken, and the    *)
(* feed terminates.                                                        *)
LockReleased == mutex = 1 ~> mutex = 0
=============================================================================
