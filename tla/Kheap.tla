-------------------------------- MODULE Kheap --------------------------------
(***************************************************************************)
(* The kernel heap (kernel/src/kheap.c).                                   *)
(*                                                                         *)
(* The heap is a linked list of entries, each a header followed by the     *)
(* caller's bytes, in pages mapped one after the other from KH_START.      *)
(* kheap_alloc() looks behind every entry of the list, in list order, for  *)
(* room that no entry overlaps, and maps another page until it finds some. *)
(* kheap_free() and kheap_realloc() are empty in the code.                 *)
(*                                                                         *)
(* Sums of addresses and sizes wrap at WORD, as uintptr_t does at 2^64.    *)
(***************************************************************************)
EXTENDS Integers, Sequences, Katomic

CONSTANTS
  Cpu,            \* processors that call into the heap
  BSP,            \* the one that boots the kernel
  Sizes,          \* sizes callers ask for
  PAGE_SIZE,
  KH_START,       \* first address of the heap
  KH_MAX_NPAGES,
  WORD            \* 2^64 in the code

SIZEOF_ENT == 16  \* sizeof(struct kh_ent)
NULL == 0

ASSUME KheapAssumption ==
  /\ BSP \in Cpu
  /\ Sizes \subseteq Nat
  /\ PAGE_SIZE \in Nat /\ PAGE_SIZE > SIZEOF_ENT
  /\ KH_START \in Nat \ {0} /\ KH_START % SIZEOF_ENT = 0
  /\ KH_MAX_NPAGES \in Nat \ {0}
  /\ WORD \in Nat /\ KH_START + PAGE_SIZE * KH_MAX_NPAGES + 4 * SIZEOF_ENT < WORD

(* No caller asks for so much that a sum of its request and an address of  *)
(* the heap wraps: the kernel asks for a few pages at most.  kheap_alloc   *)
(* itself has no such check.                                               *)
ASSUME RequestAssumption ==
  \A size \in Sizes :
    KH_START + PAGE_SIZE * KH_MAX_NPAGES + 4 * SIZEOF_ENT + size < WORD

VARIABLES
  kh_ents,     \* the list from kh_head to kh_tail: [addr, data_size]
  kh_npages,   \* pages mapped at KH_START
  mutex,
  pc, n, new,  \* per processor: where it is, its request, what find_free found
  granted      \* history: blocks returned to callers, [addr, size]

heap_vars == <<kh_ents, kh_npages, mutex, granted>>
vars == <<heap_vars, pc, n, new>>

-----------------------------------------------------------------------------
Add(a, b) == (a + b) % WORD

End == KH_START + PAGE_SIZE * kh_npages

is_free(base, limit) ==
  \A k \in DOMAIN kh_ents :
    LET ent == kh_ents[k] IN
    /\ ~(Add(base, limit) > End)
    /\ ~ /\ base < Add(ent.addr, SIZEOF_ENT + ent.data_size)
         /\ Add(base, limit) > ent.addr

(* The address find_free tries behind an entry.                            *)
CandidateTight(ent) == Add(ent.addr, SIZEOF_ENT + ent.data_size)
Candidate(ent) ==
  LET addr == Add(ent.addr, SIZEOF_ENT + ent.data_size)
  IN  Add(addr, SIZEOF_ENT - (addr % SIZEOF_ENT))

Fits(k, size) == is_free(Candidate(kh_ents[k]), SIZEOF_ENT + size)

(* find_free(size) stops at entry k of the list.                           *)
find_free(k, size) ==
  /\ Fits(k, size)
  /\ \A l \in DOMAIN kh_ents : l < k => ~Fits(l, size)

-----------------------------------------------------------------------------
Init ==
  /\ kh_ents = <<>> /\ kh_npages = 0 /\ mutex = 0 /\ granted = {}
  /\ pc = [c \in Cpu |-> IF c = BSP THEN "init" ELSE "off"]
  /\ n = [c \in Cpu |-> 0]
  /\ new = [c \in Cpu |-> NULL]

(* kheap_init: the first page, and a dummy entry at its start.  Without a  *)
(* page the kernel stops.                                                  *)
kheap_init ==
  /\ pc[BSP] = "init"
  /\ kh_npages' = 1
  /\ kh_ents' = <<[addr |-> KH_START, data_size |-> 0]>>
  /\ pc' = [c \in Cpu |-> "idle"]
  /\ UNCHANGED <<mutex, granted, n, new>>

kheap_init_fail ==
  /\ pc[BSP] = "init"
  /\ pc' = [pc EXCEPT ![BSP] = "hung"]
  /\ UNCHANGED <<heap_vars, n, new>>

alloc_lock_dropped(c) ==
  /\ pc[c] = "idle"
  /\ mutex' = 1
  /\ \E size \in Sizes : n' = [n EXCEPT ![c] = size]
  /\ pc' = [pc EXCEPT ![c] = "find"]
  /\ UNCHANGED <<kh_ents, kh_npages, granted, new>>
alloc_lock(c) ==
  /\ pc[c] = "idle"
  /\ k_mutex_lock(mutex)
  /\ \E size \in Sizes : n' = [n EXCEPT ![c] = size]
  /\ pc' = [pc EXCEPT ![c] = "find"]
  /\ UNCHANGED <<kh_ents, kh_npages, granted, new>>

alloc_find(c) ==
  /\ pc[c] = "find"
  /\ \E k \in DOMAIN kh_ents :
       /\ find_free(k, n[c])
       /\ new' = [new EXCEPT ![c] = Candidate(kh_ents[k])]
  /\ pc' = [pc EXCEPT ![c] = "link"]
  /\ UNCHANGED <<heap_vars, n>>

(* Write the header, append it to the list, unlock, return the bytes that  *)
(* follow it.                                                              *)
alloc_link(c) ==
  /\ pc[c] = "link"
  /\ kh_ents' = Append(kh_ents, [addr |-> new[c], data_size |-> n[c]])
  /\ granted' = granted \cup {[addr |-> Add(new[c], SIZEOF_ENT), size |-> n[c]]}
  /\ k_mutex_unlock(mutex)
  /\ pc' = [pc EXCEPT ![c] = "idle"]
  /\ n' = [n EXCEPT ![c] = 0]
  /\ new' = [new EXCEPT ![c] = NULL]
  /\ UNCHANGED kh_npages

NoRoom(c) == \A k \in DOMAIN kh_ents : ~Fits(k, n[c])

(* pmm_alloc gave a frame: map it behind the last page, look again.        *)
alloc_grow_over(c) ==
  /\ pc[c] = "find" /\ NoRoom(c)
  /\ kh_npages <= KH_MAX_NPAGES
  /\ kh_npages' = kh_npages + 1
  /\ UNCHANGED <<kh_ents, mutex, granted, pc, n, new>>
alloc_grow(c) ==
  /\ pc[c] = "find" /\ NoRoom(c)
  /\ kh_npages < KH_MAX_NPAGES
  /\ kh_npages' = kh_npages + 1
  /\ UNCHANGED <<kh_ents, mutex, granted, pc, n, new>>

(* Unlock and return NULL, keeping the pages mapped so far.                *)
alloc_null(c) ==
  /\ k_mutex_unlock(mutex)
  /\ pc' = [pc EXCEPT ![c] = "idle"]
  /\ n' = [n EXCEPT ![c] = 0]
  /\ UNCHANGED <<kh_ents, kh_npages, granted, new>>

(* pmm_alloc returned PHYS_ADDR_NULL: give up, however small the heap.     *)
alloc_refused(c) ==
  /\ pc[c] = "find" /\ NoRoom(c)
  /\ kh_npages < KH_MAX_NPAGES
  /\ pc' = [pc EXCEPT ![c] = "nomem"]
  /\ UNCHANGED <<heap_vars, n, new>>

alloc_nomem(c) == pc[c] = "nomem" /\ alloc_null(c)

alloc_full_retry(c) ==
  /\ pc[c] = "find" /\ NoRoom(c)
  /\ kh_npages >= KH_MAX_NPAGES
  /\ UNCHANGED vars
alloc_full_early(c) ==
  /\ pc[c] = "find" /\ NoRoom(c)
  /\ kh_npages >= KH_MAX_NPAGES - 1
  /\ alloc_null(c)
alloc_full(c) ==
  /\ pc[c] = "find" /\ NoRoom(c)
  /\ kh_npages >= KH_MAX_NPAGES
  /\ alloc_null(c)

Inside(c) ==
  \/ alloc_find(c) \/ alloc_link(c) \/ alloc_grow(c)
  \/ alloc_refused(c) \/ alloc_nomem(c) \/ alloc_full(c)

Hung == pc[BSP] = "hung" /\ UNCHANGED vars

Next ==
  \/ kheap_init \/ kheap_init_fail \/ Hung
  \/ \E c \in Cpu : alloc_lock(c) \/ Inside(c)

Spec == Init /\ [][Next]_vars

(* A processor inside kheap_alloc keeps executing.                         *)
FairSpec == Spec /\ \A c \in Cpu : WF_vars(Inside(c))

-----------------------------------------------------------------------------
kh_ent == [addr : Nat, data_size : Nat]

(* Every variable holds a value of its type, and the heap never has more   *)
(* than KH_MAX_NPAGES pages.                                               *)
TypeOK ==
  /\ kh_ents \in Seq(kh_ent)
  /\ kh_npages \in 0 .. KH_MAX_NPAGES
  /\ mutex \in k_mutex_t
  /\ pc \in [Cpu -> {"off", "init", "hung", "idle", "find", "link", "nomem"}]
  /\ n \in [Cpu -> Nat] /\ new \in [Cpu -> Nat]
  /\ granted \in SUBSET [addr : Nat, size : Nat]

(* find_free walks the whole list, but only the place behind the last      *)
(* entry can ever be free: the place behind any other entry is exactly     *)
(* where its successor starts, so list order is address order and the heap *)
(* is filled without holes (find_free, kheap_alloc).                       *)
FilledInOrder ==
  \A k \in 1 .. Len(kh_ents) - 1 : Candidate(kh_ents[k]) = kh_ents[k + 1].addr

(* Headers and blocks of different allocations never overlap, and all of   *)
(* them lie in mapped pages (is_free).                                     *)
NoOverlap ==
  /\ \A k, l \in DOMAIN kh_ents :
       k < l => kh_ents[k].addr + SIZEOF_ENT + kh_ents[k].data_size <= kh_ents[l].addr
  /\ \A k \in DOMAIN kh_ents :
       kh_ents[k].addr + SIZEOF_ENT + kh_ents[k].data_size <= End

(* An allocation that pmm_alloc did not fail gives up only when all        *)
(* KH_MAX_NPAGES pages are mapped, and the request does not end before     *)
(* them when placed behind the last entry (kheap_alloc's loop).  That      *)
(* place is where find_free tries: up to 16 bytes past the last block.     *)
FullMeansFull ==
  [][\A c \in Cpu :
       pc[c] = "find" /\ pc'[c] = "idle" =>
         LET last == kh_ents[Len(kh_ents)] IN
         /\ kh_npages = KH_MAX_NPAGES
         /\ Candidate(last) + SIZEOF_ENT + n[c]
              > KH_START + PAGE_SIZE * KH_MAX_NPAGES]_vars

(* kheap_alloc keeps the promise of HeapSpec.                              *)
Heap == INSTANCE HeapSpec WITH
          Base <- KH_START, Align <- SIZEOF_ENT,
          Limit <- PAGE_SIZE * KH_MAX_NPAGES,
          pool <- PAGE_SIZE * kh_npages, blocks <- granted
HeapPromise == Heap!Spec

(* Whoever takes the heap's lock gives it back: the search and the growing *)
(* terminate, and no return path keeps the lock.                           *)
LockReleased == mutex = 1 ~> mutex = 0
=============================================================================
