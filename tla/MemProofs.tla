------------------------------ MODULE MemProofs ------------------------------
(***************************************************************************)
(* Proofs about the two users of physical pages above the allocator: the   *)
(* kernel heap, for any page size, any number of pages, any set of request *)
(* sizes that does not wrap and any number of processors, and the page     *)
(* tables, for tables of any size, any physical memory, any kernel image   *)
(* and any order of mapping and unmapping.                                 *)
(***************************************************************************)
EXTENDS Kheap, Vmm, SequenceTheorems, TLAPS

Sum(ent) == ent.addr + SIZEOF_ENT + ent.data_size

Last == Len(kh_ents)

Started == kh_npages >= 1

(* Entries are aligned, start at KH_START, end inside the mapped pages and *)
(* lie in list order.                                                      *)
EntsOK ==
  /\ Started => Last >= 1
  /\ ~Started => kh_ents = <<>> /\ granted = {}
  /\ \A k \in DOMAIN kh_ents :
       /\ kh_ents[k].addr >= KH_START
       /\ kh_ents[k].addr % SIZEOF_ENT = 0
       /\ Sum(kh_ents[k]) <= End
  /\ \A k, l \in DOMAIN kh_ents : k < l => Sum(kh_ents[k]) <= kh_ents[l].addr

(* Every block handed out is the data of an entry.                         *)
GrantsOK ==
  \A b \in granted : \E k \in DOMAIN kh_ents :
    b.addr = kh_ents[k].addr + SIZEOF_ENT /\ b.size = kh_ents[k].data_size

Busy(c) == pc[c] \in {"find", "link", "nomem"}

LockOK ==
  /\ \A c, d \in Cpu : Busy(c) /\ Busy(d) => c = d
  /\ \A c \in Cpu : Busy(c) => mutex = 1
  /\ \A c \in Cpu : pc[c] \in {"idle", "find", "link", "nomem"} <=> Started

(* What find_free has found is still free when it is linked.               *)
LinkOK ==
  \A c \in Cpu :
    /\ Busy(c) => n[c] \in Sizes
    /\ pc[c] = "link" =>
         /\ new[c] = Candidate(kh_ents[Last])
         /\ new[c] + SIZEOF_ENT + n[c] <= End

IInv == TypeOK /\ EntsOK /\ GrantsOK /\ LockOK /\ LinkOK /\ FilledInOrder

-----------------------------------------------------------------------------
(* A sum that stays below WORD does not wrap.                              *)
LEMMA AddExact ==
  ASSUME NEW a \in Nat, NEW b \in Nat, a + b < WORD
  PROVE  Add(a, b) = a + b
PROOF
  BY KheapAssumption DEF Add

(* The mapped pages end inside the heap's range.                           *)
LEMMA EndBound ==
  ASSUME TypeOK
  PROVE  /\ End \in Nat /\ KH_START <= End
         /\ End <= KH_START + PAGE_SIZE * KH_MAX_NPAGES
         /\ PAGE_SIZE * KH_MAX_NPAGES \in Nat
         /\ PAGE_SIZE * kh_npages \in Nat
         /\ PAGE_SIZE * kh_npages <= PAGE_SIZE * KH_MAX_NPAGES
PROOF
  <1>1. \A x, y, p \in Nat : x <= y => p * x <= p * y
    OBVIOUS
  <1>2. kh_npages \in Nat /\ KH_MAX_NPAGES \in Nat /\ kh_npages <= KH_MAX_NPAGES
        /\ PAGE_SIZE \in Nat /\ KH_START \in Nat
    BY KheapAssumption DEF TypeOK
  <1>3. PAGE_SIZE * kh_npages \in Nat /\ PAGE_SIZE * KH_MAX_NPAGES \in Nat
    BY <1>2
  <1>4. PAGE_SIZE * kh_npages <= PAGE_SIZE * KH_MAX_NPAGES
    BY <1>1, <1>2
  <1> QED  BY <1>2, <1>3, <1>4 DEF End

(* find_free tries the next aligned address strictly behind an entry.      *)
LEMMA CandidateExact ==
  ASSUME TypeOK, EntsOK, NEW k \in DOMAIN kh_ents
  PROVE  /\ kh_ents[k] \in kh_ent
         /\ Sum(kh_ents[k]) \in Nat
         /\ Add(kh_ents[k].addr, SIZEOF_ENT + kh_ents[k].data_size) = Sum(kh_ents[k])
         /\ Candidate(kh_ents[k]) \in Nat
         /\ Candidate(kh_ents[k]) % SIZEOF_ENT = 0
         /\ Candidate(kh_ents[k]) > Sum(kh_ents[k])
         /\ Candidate(kh_ents[k]) <= Sum(kh_ents[k]) + SIZEOF_ENT
PROOF
  <1> DEFINE e == kh_ents[k]
  <1>1. kh_ents \in Seq(kh_ent)
    BY DEF TypeOK
  <1>2. e \in kh_ent
    BY <1>1
  <1>3. e.addr \in Nat /\ e.data_size \in Nat
    BY <1>2 DEF kh_ent
  <1>4. Sum(e) \in Nat /\ Sum(e) = e.addr + (SIZEOF_ENT + e.data_size)
    BY <1>3 DEF Sum, SIZEOF_ENT
  <1>5. Sum(e) <= End
    BY DEF EntsOK
  <1>6. Sum(e) + 16 < WORD /\ WORD \in Nat
    <2> DEFINE top == KH_START + PAGE_SIZE * KH_MAX_NPAGES
    <2>1. top + 64 < WORD /\ WORD \in Nat
      BY KheapAssumption DEF SIZEOF_ENT
    <2>2. top \in Nat /\ End \in Nat /\ End <= top
      BY EndBound, KheapAssumption
    <2> HIDE DEF top
    <2> QED  BY <2>1, <2>2, <1>4, <1>5
  <1>7. Add(e.addr, SIZEOF_ENT + e.data_size) = Sum(e)
    BY <1>3, <1>4, <1>6, AddExact DEF SIZEOF_ENT
  <1> DEFINE s == Sum(e)
             r == SIZEOF_ENT - (s % SIZEOF_ENT)
  <1>8. r \in Nat /\ r >= 1 /\ r <= 16 /\ (s + r) % 16 = 0
    BY <1>4 DEF SIZEOF_ENT
  <1>9. Add(s, r) = s + r
    <2> HIDE DEF r, s
    <2>1. s \in Nat /\ s + r < WORD
      BY <1>4, <1>6, <1>8 DEF s
    <2> QED  BY <2>1, <1>8, AddExact
  <1>10. Candidate(e) = s + r
    BY <1>7, <1>9 DEF Candidate
  <1> HIDE DEF r
  <1> QED  BY <1>2, <1>4, <1>7, <1>8, <1>10 DEF SIZEOF_ENT

(* Only the place behind the last entry can be free.                       *)
LEMMA OnlyLastFits ==
  ASSUME IInv, NEW k \in DOMAIN kh_ents, NEW size \in Sizes
  PROVE  Fits(k, size) <=> k = Last /\ Candidate(kh_ents[k]) + SIZEOF_ENT + size <= End
PROOF
  <1> DEFINE base == Candidate(kh_ents[k])
             limit == SIZEOF_ENT + size
  <1>0. /\ TypeOK /\ EntsOK /\ kh_ents \in Seq(kh_ent) /\ Last \in Nat /\ size \in Nat
        /\ k \in 1 .. Last
    BY KheapAssumption DEF IInv, TypeOK, Last
  <1>1. \A l \in DOMAIN kh_ents :
          /\ Add(kh_ents[l].addr, SIZEOF_ENT + kh_ents[l].data_size) = Sum(kh_ents[l])
          /\ Sum(kh_ents[l]) \in Nat /\ kh_ents[l].addr \in Nat
          /\ kh_ents[l].addr < Sum(kh_ents[l])
          /\ Sum(kh_ents[l]) <= End
    <2> TAKE l \in DOMAIN kh_ents
    <2>1. kh_ents[l] \in kh_ent /\ Sum(kh_ents[l]) \in Nat
          /\ Add(kh_ents[l].addr, SIZEOF_ENT + kh_ents[l].data_size) = Sum(kh_ents[l])
      BY <1>0, CandidateExact
    <2>2. kh_ents[l].addr \in Nat /\ kh_ents[l].data_size \in Nat
      BY <2>1 DEF kh_ent
    <2>3. Sum(kh_ents[l]) <= End
      BY <1>0 DEF EntsOK
    <2> QED  BY <2>1, <2>2, <2>3 DEF Sum, SIZEOF_ENT
  <1>2. base \in Nat /\ base > Sum(kh_ents[k]) /\ base <= Sum(kh_ents[k]) + 16
    BY <1>0, CandidateExact DEF SIZEOF_ENT
  <1>3. limit \in Nat /\ limit >= 16 /\ Add(base, limit) = base + limit
    <2>1. limit \in Nat /\ limit >= 16
      BY <1>0 DEF SIZEOF_ENT
    <2>2. base + limit < WORD
      <3> DEFINE top == KH_START + PAGE_SIZE * KH_MAX_NPAGES
                 s == Sum(kh_ents[k])
      <3>1. top + 64 + size < WORD
        BY RequestAssumption DEF SIZEOF_ENT
      <3>2. top \in Nat /\ WORD \in Nat /\ End \in Nat /\ End <= top
        BY <1>0, EndBound, KheapAssumption
      <3>3. s \in Nat /\ s <= End
        BY <1>1
      <3>4. base \in Nat /\ base <= s + 16
        BY <1>2
      <3>5. limit = 16 + size /\ size \in Nat
        BY <1>0 DEF SIZEOF_ENT
      <3> HIDE DEF top, s, base, limit
      <3> QED  BY <3>1, <3>2, <3>3, <3>4, <3>5
    <2> HIDE DEF base, limit
    <2> QED  BY <2>1, <2>2, <1>2, AddExact
  <1> HIDE DEF base, limit
  <1>4. Fits(k, size) <=>
          \A l \in DOMAIN kh_ents :
            /\ base + limit <= End
            /\ ~(base < Sum(kh_ents[l]) /\ base + limit > kh_ents[l].addr)
    <2>1. End \in Nat
      BY <1>0, EndBound
    <2> QED  BY <2>1, <1>1, <1>2, <1>3 DEF Fits, is_free, base, limit
  <1>5. CASE k < Last
    <2>1. k + 1 \in DOMAIN kh_ents /\ kh_ents[k + 1].addr = base
      BY <1>0, <1>5 DEF IInv, FilledInOrder, Last, base
    <2>2. base < Sum(kh_ents[k + 1]) /\ base + limit > kh_ents[k + 1].addr
      BY <2>1, <1>1, <1>2, <1>3
    <2> QED  BY <2>1, <2>2, <1>4, <1>5, <1>0
  <1>6. CASE k = Last
    <2>1. \A l \in DOMAIN kh_ents : ~(base < Sum(kh_ents[l]))
      <3> TAKE l \in DOMAIN kh_ents
      <3>1. CASE l = k
        BY <3>1, <1>1, <1>2
      <3>2. CASE l < k
        BY <3>2, <1>0, <1>1, <1>2 DEF EntsOK
      <3> QED  BY <3>1, <3>2, <1>0, <1>6 DEF Last
    <2>2. Fits(k, size) <=> base + limit <= End
      BY <2>1, <1>4
    <2>3. base + limit = base + SIZEOF_ENT + size
      BY <1>0, <1>2 DEF limit, SIZEOF_ENT
    <2> QED  BY <2>2, <2>3, <1>6 DEF base
  <1> QED  BY <1>0, <1>5, <1>6

-----------------------------------------------------------------------------
(* The invariant holds when the kernel starts.                             *)
LEMMA InitIInv == Init => IInv
PROOF
  <1> SUFFICES ASSUME Init PROVE IInv
    OBVIOUS
  <1>1. TypeOK
    BY KheapAssumption DEF Init, TypeOK, k_mutex_t, NULL
  <1>2. EntsOK /\ GrantsOK /\ FilledInOrder
    BY DEF Init, EntsOK, GrantsOK, FilledInOrder, Started
  <1>3. \A c \in Cpu : pc[c] \in {"init", "off"}
    BY DEF Init
  <1>4. ~Started
    BY DEF Init, Started
  <1>5. LockOK /\ LinkOK
    BY <1>3, <1>4 DEF LockOK, LinkOK, Busy
  <1> QED  BY <1>1, <1>2, <1>5 DEF IInv

(* Preserved by kheap_init, which creates the first page and entry.        *)
LEMMA Step_kheap_init ==
  ASSUME IInv, kheap_init
  PROVE  IInv'
PROOF
  <1> DEFINE first == [addr |-> KH_START, data_size |-> 0]
  <1>0. /\ kh_npages' = 1 /\ kh_ents' = <<first>> /\ UNCHANGED <<mutex, granted, n, new>>
        /\ pc' = [c \in Cpu |-> "idle"] /\ TypeOK
    BY DEF kheap_init, IInv
  <1>1. first \in kh_ent /\ KH_START \in Nat /\ PAGE_SIZE \in Nat /\ PAGE_SIZE > 16
    BY KheapAssumption DEF kh_ent, SIZEOF_ENT
  <1>2. ~Started /\ granted = {}
    <2>1. pc[BSP] = "init" /\ BSP \in Cpu
      BY KheapAssumption DEF kheap_init
    <2>2. ~Started
      BY <2>1 DEF IInv, LockOK
    <2> QED  BY <2>2 DEF IInv, EntsOK
  <1>3. /\ kh_ents' \in Seq(kh_ent) /\ Len(kh_ents') = 1 /\ kh_ents'[1] = first
        /\ DOMAIN kh_ents' = {1}
    BY <1>0, <1>1
  <1>4. TypeOK'
    <2>1. pc' \in [Cpu -> {"off", "init", "hung", "idle", "find", "link", "nomem"}]
      BY <1>0
    <2>2. kh_npages' \in 0 .. KH_MAX_NPAGES
      BY <1>0, KheapAssumption
    <2> QED  BY <2>1, <2>2, <1>0, <1>3 DEF TypeOK
  <1>5. End' = KH_START + PAGE_SIZE
    BY <1>0, <1>1 DEF End
  <1>6. EntsOK'
    <2>1. Started' /\ Last' >= 1
      BY <1>0, <1>3 DEF Started, Last
    <2>2. /\ first.addr >= KH_START /\ first.addr % SIZEOF_ENT = 0
          /\ Sum(first) <= KH_START + PAGE_SIZE
      BY <1>1, KheapAssumption DEF Sum, SIZEOF_ENT
    <2> HIDE DEF first
    <2> QED  BY <2>1, <2>2, <1>3, <1>5 DEF EntsOK, Sum
  <1>7. GrantsOK' /\ FilledInOrder'
    BY <1>0, <1>2, <1>3 DEF GrantsOK, FilledInOrder
  <1>8. LockOK' /\ LinkOK'
    <2>1. \A c \in Cpu : pc'[c] = "idle"
      BY <1>0
    <2>2. Started'
      BY <1>0 DEF Started
    <2> QED  BY <2>1, <2>2 DEF LockOK, LinkOK, Busy
  <1> QED  BY <1>4, <1>6, <1>7, <1>8 DEF IInv

(* A step that leaves list, pages, blocks and requests alone preserves the *)
(* parts of the invariant about them.                                      *)
LEMMA SameHeap ==
  ASSUME IInv, UNCHANGED <<kh_ents, kh_npages, granted>>
  PROVE  EntsOK' /\ GrantsOK' /\ FilledInOrder' /\ End' = End /\ Last' = Last
         /\ (Started' <=> Started)
PROOF
  BY DEF IInv, EntsOK, GrantsOK, FilledInOrder, End, Last, Started, Sum, Candidate, Add

(* Preserved by kheap_init without a page.                                 *)
LEMMA Step_kheap_init_fail ==
  ASSUME IInv, kheap_init_fail
  PROVE  IInv'
PROOF
  <1> USE DEF heap_vars
  <1>0. /\ UNCHANGED <<kh_ents, kh_npages, mutex, granted, n, new>>
        /\ pc[BSP] = "init" /\ pc' = [pc EXCEPT ![BSP] = "hung"] /\ BSP \in Cpu /\ TypeOK
    BY KheapAssumption DEF kheap_init_fail, IInv
  <1>1. TypeOK'
    BY <1>0 DEF TypeOK
  <1>2. ~Started
    BY <1>0 DEF IInv, LockOK
  <1>3. \A c \in Cpu : pc[c] \notin {"idle", "find", "link", "nomem"}
                       /\ pc'[c] \notin {"idle", "find", "link", "nomem"}
    BY <1>0, <1>2 DEF IInv, LockOK, TypeOK
  <1>4. LockOK' /\ LinkOK'
    BY <1>0, <1>2, <1>3, SameHeap DEF LockOK, LinkOK, Busy
  <1> QED  BY <1>0, <1>1, <1>4, SameHeap DEF IInv

(* Preserved by kheap_alloc taking the lock.                               *)
LEMMA Step_alloc_lock ==
  ASSUME IInv, NEW c \in Cpu, alloc_lock(c)
  PROVE  IInv'
PROOF
  <1> USE DEF k_mutex_lock
  <1>a. PICK size \in Sizes : n' = [n EXCEPT ![c] = size]
    BY DEF alloc_lock
  <1>0. /\ UNCHANGED <<kh_ents, kh_npages, granted, new>>
        /\ mutex = 0 /\ mutex' = 1 /\ pc[c] = "idle"
        /\ pc' = [pc EXCEPT ![c] = "find"] /\ TypeOK /\ size \in Nat
    BY KheapAssumption DEF alloc_lock, IInv
  <1>1. TypeOK'
    <2>1. n' \in [Cpu -> Nat] /\ mutex' \in k_mutex_t
      BY <1>0, <1>a DEF TypeOK, k_mutex_t
    <2> QED  BY <2>1, <1>0 DEF TypeOK
  <1>2. \A d \in Cpu : ~Busy(d)
    BY <1>0 DEF IInv, LockOK
  <1>3. \A d \in Cpu : Busy(d)' <=> d = c
    BY <1>0, <1>2 DEF TypeOK, Busy
  <1>4. LockOK'
    BY <1>0, <1>3, SameHeap DEF IInv, LockOK, TypeOK
  <1>5. LinkOK'
    <2>1. pc'[c] = "find" /\ n'[c] \in Sizes
      BY <1>0, <1>a DEF TypeOK
    <2> QED  BY <2>1, <1>3 DEF LinkOK, Busy
  <1> QED  BY <1>0, <1>1, <1>4, <1>5, SameHeap DEF IInv

(* Preserved by a successful search: what it found lies behind the last    *)
(* entry and ends inside the mapped pages.                                 *)
LEMMA Step_alloc_find ==
  ASSUME IInv, NEW c \in Cpu, alloc_find(c)
  PROVE  IInv'
PROOF
  <1> USE DEF heap_vars
  <1>0. /\ UNCHANGED <<kh_ents, kh_npages, mutex, granted, n>>
        /\ pc[c] = "find" /\ pc' = [pc EXCEPT ![c] = "link"] /\ TypeOK /\ EntsOK
    BY DEF alloc_find, IInv
  <1>a. PICK k \in DOMAIN kh_ents :
          find_free(k, n[c]) /\ new' = [new EXCEPT ![c] = Candidate(kh_ents[k])]
    BY DEF alloc_find
  <1>b. n[c] \in Sizes
    BY <1>0 DEF IInv, LinkOK, Busy
  <1>c. k = Last /\ Candidate(kh_ents[k]) + SIZEOF_ENT + n[c] <= End
    BY <1>a, <1>b, OnlyLastFits DEF find_free
  <1>d. Candidate(kh_ents[k]) \in Nat
    BY <1>0, CandidateExact
  <1>1. TypeOK'
    <2>1. new' \in [Cpu -> Nat]
      BY <1>0, <1>a, <1>d DEF TypeOK
    <2>2. pc' \in [Cpu -> {"off", "init", "hung", "idle", "find", "link", "nomem"}]
      BY <1>0 DEF TypeOK
    <2> QED  BY <2>1, <2>2, <1>0 DEF TypeOK
  <1>2. LockOK'
    BY <1>0, SameHeap DEF IInv, LockOK, Busy, TypeOK
  <1>3. LinkOK'
    <2> SUFFICES ASSUME NEW d \in Cpu, Busy(d)'
                 PROVE  /\ n[d] \in Sizes
                        /\ new'[d] = Candidate(kh_ents[Last])
                        /\ new'[d] + SIZEOF_ENT + n[d] <= End
      <3>1. Candidate(kh_ents'[Last']) = Candidate(kh_ents[Last]) /\ End' = End
        BY <1>0, SameHeap
      <3> QED  BY <3>1, <1>0 DEF LinkOK, Busy, Candidate, Add
    <2>1. Busy(c)' /\ c = d
      BY <1>0, <1>2 DEF LockOK, Busy, TypeOK
    <2>2. new'[c] = Candidate(kh_ents[Last])
      BY <1>0, <1>a, <1>c DEF TypeOK
    <2> QED  BY <2>1, <2>2, <1>b, <1>c
  <1> QED  BY <1>0, <1>1, <1>2, <1>3, SameHeap DEF IInv

(* Preserved by linking: the new entry ends the list, behind all others.   *)
LEMMA Step_alloc_link ==
  ASSUME IInv, NEW c \in Cpu, alloc_link(c)
  PROVE  IInv'
PROOF
  <1> USE DEF k_mutex_unlock
  <1> DEFINE e == [addr |-> new[c], data_size |-> n[c]]
             b == [addr |-> Add(new[c], SIZEOF_ENT), size |-> n[c]]
  <1>0. /\ pc[c] = "link" /\ kh_ents' = Append(kh_ents, e) /\ granted' = granted \cup {b}
        /\ mutex' = 0 /\ kh_npages' = kh_npages
        /\ pc' = [pc EXCEPT ![c] = "idle"]
        /\ n' = [n EXCEPT ![c] = 0] /\ new' = [new EXCEPT ![c] = NULL]
        /\ TypeOK /\ EntsOK
    BY DEF alloc_link, IInv
  <1>a. /\ new[c] \in Nat /\ n[c] \in Nat /\ kh_ents \in Seq(kh_ent) /\ Last \in Nat
        /\ e \in kh_ent
    BY <1>0 DEF TypeOK, kh_ent, Last
  <1>b. /\ new[c] = Candidate(kh_ents[Last]) /\ new[c] + SIZEOF_ENT + n[c] <= End
        /\ Started /\ Last >= 1 /\ Last \in DOMAIN kh_ents
    <2>1. /\ new[c] = Candidate(kh_ents[Last]) /\ new[c] + SIZEOF_ENT + n[c] <= End
      BY <1>0 DEF IInv, LinkOK
    <2>2. Started
      BY <1>0 DEF IInv, LockOK
    <2> QED  BY <2>1, <2>2, <1>0, <1>a DEF EntsOK, Last
  <1>c. /\ new[c] % SIZEOF_ENT = 0 /\ new[c] > Sum(kh_ents[Last])
        /\ Sum(kh_ents[Last]) \in Nat
    BY <1>0, <1>b, CandidateExact
  <1>d. Add(new[c], SIZEOF_ENT) = new[c] + SIZEOF_ENT
    <2>1. new[c] + SIZEOF_ENT < WORD /\ SIZEOF_ENT \in Nat
      BY <1>0, <1>a, <1>b, EndBound, KheapAssumption DEF SIZEOF_ENT
    <2> QED  BY <2>1, <1>a, AddExact
  <1>e. b \in [addr : Nat, size : Nat] /\ b.addr = e.addr + SIZEOF_ENT /\ b.size = e.data_size
    BY <1>a, <1>d DEF SIZEOF_ENT
  <1>f. e.addr = new[c] /\ Sum(e) = new[c] + SIZEOF_ENT + n[c]
    BY DEF Sum
  <1> HIDE DEF e, b
  <1>g. /\ kh_ents' \in Seq(kh_ent) /\ Len(kh_ents') = Last + 1 /\ kh_ents'[Last + 1] = e
        /\ \A k \in DOMAIN kh_ents : k \in DOMAIN kh_ents' /\ kh_ents'[k] = kh_ents[k]
        /\ \A k \in DOMAIN kh_ents' : k \in DOMAIN kh_ents \/ k = Last + 1
        /\ Last + 1 \in DOMAIN kh_ents' /\ DOMAIN kh_ents = 1 .. Last
    BY <1>0, <1>a DEF Last
  <1>h. End' = End /\ (Started' <=> Started) /\ Last' = Last + 1
    BY <1>0, <1>g DEF End, Started, Last
  <1>i. \A k \in DOMAIN kh_ents : Sum(kh_ents[k]) <= new[c]
    <2> TAKE k \in DOMAIN kh_ents
    <2>1. CASE k = Last
      BY <2>1, <1>a, <1>c
    <2>2. CASE k < Last
      <3>1. Sum(kh_ents[k]) <= kh_ents[Last].addr /\ Sum(kh_ents[k]) \in Nat
        BY <2>2, <1>0, <1>b, CandidateExact DEF EntsOK
      <3>2. kh_ents[Last] \in kh_ent
        BY <1>0, <1>b, CandidateExact
      <3>3. kh_ents[Last].addr <= Sum(kh_ents[Last]) /\ kh_ents[Last].addr \in Nat
        BY <3>2 DEF kh_ent, Sum, SIZEOF_ENT
      <3> QED  BY <3>1, <3>3, <1>a, <1>c
    <2> QED  BY <2>1, <2>2, <1>a, <1>g
  <1>1. TypeOK'
    <2>1. n' \in [Cpu -> Nat] /\ new' \in [Cpu -> Nat]
      BY <1>0 DEF TypeOK, NULL
    <2>2. pc' \in [Cpu -> {"off", "init", "hung", "idle", "find", "link", "nomem"}]
      BY <1>0 DEF TypeOK
    <2>3. granted' \in SUBSET [addr : Nat, size : Nat] /\ mutex' \in k_mutex_t
      BY <1>0, <1>e DEF TypeOK, k_mutex_t
    <2> QED  BY <2>1, <2>2, <2>3, <1>0, <1>g DEF TypeOK
  <1>2. EntsOK'
    <2>1. Started' => Last' >= 1
      BY <1>a, <1>h
    <2>2. Started'
      BY <1>b, <1>h
    <2>3. \A k \in DOMAIN kh_ents' :
            /\ kh_ents'[k].addr >= KH_START
            /\ kh_ents'[k].addr % SIZEOF_ENT = 0
            /\ Sum(kh_ents'[k]) <= End
      <3>1. new[c] >= KH_START
        <4>1. kh_ents[Last].addr >= KH_START /\ kh_ents[Last] \in kh_ent
          BY <1>0, <1>b, CandidateExact DEF EntsOK
        <4>2. kh_ents[Last].addr <= Sum(kh_ents[Last]) /\ kh_ents[Last].addr \in Nat
          BY <4>1 DEF kh_ent, Sum, SIZEOF_ENT
        <4> QED  BY <4>1, <4>2, <1>a, <1>c, KheapAssumption
      <3> QED  BY <3>1, <1>0, <1>b, <1>c, <1>f, <1>g DEF EntsOK
    <2>4. \A k, l \in DOMAIN kh_ents' : k < l => Sum(kh_ents'[k]) <= kh_ents'[l].addr
      <3> SUFFICES ASSUME NEW k \in DOMAIN kh_ents', NEW l \in DOMAIN kh_ents', k < l
                   PROVE  Sum(kh_ents'[k]) <= kh_ents'[l].addr
        OBVIOUS
      <3>1. k \in DOMAIN kh_ents
        BY <1>a, <1>g
      <3> QED  BY <3>1, <1>0, <1>f, <1>g, <1>i DEF EntsOK
    <2> QED  BY <2>1, <2>2, <2>3, <2>4, <1>h DEF EntsOK, Sum
  <1>3. GrantsOK'
    BY <1>0, <1>e, <1>g DEF IInv, GrantsOK
  <1>4. FilledInOrder'
    <2>0. \A k \in 1 .. Len(kh_ents') - 1 : k \in 1 .. Last
      BY <1>a, <1>g
    <2> SUFFICES ASSUME NEW k \in 1 .. Last
                 PROVE  Candidate(kh_ents'[k]) = kh_ents'[k + 1].addr
      BY <2>0, Zenon DEF FilledInOrder, Candidate, Add
    <2>1. CASE k = Last
      BY <2>1, <1>b, <1>f, <1>g
    <2>2. CASE k < Last
      <3>1. k \in DOMAIN kh_ents /\ k + 1 \in DOMAIN kh_ents /\ k \in 1 .. Len(kh_ents) - 1
        BY <2>2, <1>a, <1>g DEF Last
      <3> QED  BY <3>1, <1>g DEF IInv, FilledInOrder
    <2> QED  BY <2>1, <2>2, <1>a
  <1>5. LockOK' /\ LinkOK'
    <2>1. \A d \in Cpu : ~Busy(d)'
      BY <1>0 DEF IInv, LockOK, Busy, TypeOK
    <2>2. \A d \in Cpu : pc'[d] \in {"idle", "find", "link", "nomem"} <=> Started
      BY <1>0, <1>b DEF IInv, LockOK, TypeOK
    <2> QED  BY <2>1, <2>2, <1>h DEF LockOK, LinkOK, Busy
  <1> QED  BY <1>1, <1>2, <1>3, <1>4, <1>5 DEF IInv

(* Preserved by mapping one more page.                                     *)
LEMMA Step_alloc_grow ==
  ASSUME IInv, NEW c \in Cpu, alloc_grow(c)
  PROVE  IInv' /\ End <= End' /\ PAGE_SIZE * kh_npages' > PAGE_SIZE * kh_npages
PROOF
  <1>0. /\ UNCHANGED <<kh_ents, mutex, granted, pc, n, new>> /\ pc[c] = "find"
        /\ kh_npages < KH_MAX_NPAGES /\ kh_npages' = kh_npages + 1 /\ TypeOK
    BY DEF alloc_grow, IInv
  <1>1. /\ kh_npages \in Nat /\ PAGE_SIZE \in Nat /\ PAGE_SIZE > 16 /\ KH_START \in Nat
        /\ KH_MAX_NPAGES \in Nat
    BY <1>0, KheapAssumption DEF TypeOK, SIZEOF_ENT
  <1>2. TypeOK'
    <2>1. kh_npages' \in 0 .. KH_MAX_NPAGES
      BY <1>0, <1>1
    <2> QED  BY <2>1, <1>0 DEF TypeOK
  <1>3. /\ PAGE_SIZE * kh_npages \in Nat
        /\ PAGE_SIZE * kh_npages' = PAGE_SIZE * kh_npages + PAGE_SIZE
    BY <1>0, <1>1
  <1>4. End \in Nat /\ End' = End + PAGE_SIZE /\ End <= End'
    BY <1>1, <1>3 DEF End
  <1>5. Started /\ Started'
    <2>1. Started
      BY <1>0 DEF IInv, LockOK
    <2> QED  BY <2>1, <1>0, <1>1 DEF Started
  <1>6. EntsOK'
    <2>1. \A k \in DOMAIN kh_ents : Sum(kh_ents[k]) \in Nat /\ Sum(kh_ents[k]) <= End
      BY <1>0, CandidateExact DEF IInv, EntsOK
    <2>2. \A k \in DOMAIN kh_ents : Sum(kh_ents[k]) <= End'
      BY <2>1, <1>1, <1>4
    <2> QED  BY <2>2, <1>0, <1>5 DEF IInv, EntsOK, Last, Sum
  <1>7. GrantsOK' /\ FilledInOrder'
    BY <1>0 DEF IInv, GrantsOK, FilledInOrder, Candidate, Add
  <1>8. LockOK'
    BY <1>0, <1>5 DEF IInv, LockOK, Busy
  <1>9. LinkOK'
    <2>1. \A d \in Cpu : pc'[d] # "link"
      BY <1>0 DEF IInv, LockOK, Busy
    <2> QED  BY <2>1, <1>0 DEF IInv, LinkOK, Busy
  <1> QED  BY <1>1, <1>2, <1>3, <1>4, <1>6, <1>7, <1>8, <1>9 DEF IInv

(* Preserved by returning NULL.                                            *)
LEMMA Step_alloc_null ==
  ASSUME IInv, NEW c \in Cpu, Busy(c), alloc_null(c)
  PROVE  IInv'
PROOF
  <1> USE DEF k_mutex_unlock
  <1>0. /\ UNCHANGED <<kh_ents, kh_npages, granted, new>> /\ mutex' = 0
        /\ pc' = [pc EXCEPT ![c] = "idle"] /\ n' = [n EXCEPT ![c] = 0] /\ TypeOK
    BY DEF alloc_null, IInv
  <1>1. TypeOK'
    <2>1. n' \in [Cpu -> Nat] /\ mutex' \in k_mutex_t
      BY <1>0 DEF TypeOK, k_mutex_t
    <2>2. pc' \in [Cpu -> {"off", "init", "hung", "idle", "find", "link", "nomem"}]
      BY <1>0 DEF TypeOK
    <2> QED  BY <2>1, <2>2, <1>0 DEF TypeOK
  <1>2. LockOK' /\ LinkOK'
    <2>1. \A d \in Cpu : ~Busy(d)'
      BY <1>0 DEF IInv, LockOK, Busy, TypeOK
    <2>2. \A d \in Cpu : pc'[d] \in {"idle", "find", "link", "nomem"} <=> Started
      BY <1>0 DEF IInv, LockOK, TypeOK, Busy
    <2>3. LockOK'
      BY <2>1, <2>2, <1>0, SameHeap DEF LockOK
    <2>4. LinkOK'
      BY <2>1 DEF LinkOK, Busy
    <2> QED  BY <2>3, <2>4
  <1> QED  BY <1>0, <1>1, <1>2, SameHeap DEF IInv

(* Preserved by pmm_alloc's refusal.                                       *)
LEMMA Step_alloc_refused ==
  ASSUME IInv, NEW c \in Cpu, alloc_refused(c)
  PROVE  IInv'
PROOF
  <1>0. /\ UNCHANGED <<kh_ents, kh_npages, granted, mutex, n, new>>
        /\ pc[c] = "find" /\ pc' = [pc EXCEPT ![c] = "nomem"] /\ TypeOK
    BY DEF alloc_refused, heap_vars, IInv
  <1>1. TypeOK'
    <2>1. pc' \in [Cpu -> {"off", "init", "hung", "idle", "find", "link", "nomem"}]
      BY <1>0 DEF TypeOK
    <2> QED  BY <2>1, <1>0 DEF TypeOK
  <1>2. LockOK' /\ LinkOK'
    <2>1. \A d \in Cpu : /\ Busy(d)' <=> Busy(d)
                         /\ pc'[d] # "link" \/ pc'[d] = pc[d]
      BY <1>0 DEF Busy, TypeOK
    <2>2. \A d \in Cpu : pc'[d] \in {"idle", "find", "link", "nomem"} <=> Started
      BY <1>0 DEF IInv, LockOK, TypeOK
    <2>3. LockOK'
      BY <2>1, <2>2, <1>0, SameHeap DEF IInv, LockOK
    <2>4. \A d \in Cpu : pc'[d] # "link"
      BY <1>0, <2>1 DEF IInv, LockOK, Busy
    <2> QED  BY <2>1, <2>3, <2>4, <1>0 DEF IInv, LinkOK
  <1> QED  BY <1>0, <1>1, <1>2, SameHeap DEF IInv

(* Every step of every processor preserves the invariant.                  *)
LEMMA NextIInv == IInv /\ [Next]_vars => IInv'
PROOF
  <1> SUFFICES ASSUME IInv, [Next]_vars PROVE IInv'
    OBVIOUS
  <1>1. CASE kheap_init \/ kheap_init_fail
    BY <1>1, Step_kheap_init, Step_kheap_init_fail
  <1>2. ASSUME NEW c \in Cpu, alloc_lock(c) \/ Inside(c)
        PROVE  IInv'
    BY <1>2, Step_alloc_lock, Step_alloc_find, Step_alloc_link, Step_alloc_grow,
       Step_alloc_null, Step_alloc_refused DEF Inside, alloc_nomem, alloc_full, Busy
  <1>3. CASE UNCHANGED vars
    <2>1. UNCHANGED <<kh_ents, kh_npages, granted, mutex, pc, n, new>>
      BY <1>3 DEF vars, heap_vars
    <2>2. TypeOK'
      BY <2>1 DEF IInv, TypeOK
    <2>3. LockOK' /\ LinkOK'
      BY <2>1, SameHeap DEF IInv, LockOK, LinkOK, Busy, Candidate, Add
    <2> QED  BY <2>1, <2>2, <2>3, SameHeap DEF IInv
  <1> QED  BY <1>1, <1>2, <1>3 DEF Next, Hung

(* Every reachable state satisfies the inductive invariant.                *)
THEOREM Invariance == Spec => []IInv
PROOF
  BY InitIInv, NextIInv, PTL DEF Spec

(* Every variable keeps its type, and the heap never maps more than        *)
(* KH_MAX_NPAGES pages.                                                    *)
THEOREM TypeCorrect == Spec => []TypeOK
PROOF
  <1>1. IInv => TypeOK
    BY DEF IInv
  <1> QED  BY <1>1, Invariance, PTL

(* For any requests on any number of processors the entries fill the heap  *)
(* in list order: the search of find_free can only succeed at its end.     *)
THEOREM HeapFilledInOrder == Spec => []FilledInOrder
PROOF
  <1>1. IInv => FilledInOrder
    BY DEF IInv
  <1> QED  BY <1>1, Invariance, PTL

(* Allocations never overlap and never leave the mapped pages.             *)
THEOREM AllocationsApart == Spec => []NoOverlap
PROOF
  <1>1. IInv => NoOverlap
    BY DEF IInv, EntsOK, NoOverlap, Sum
  <1> QED  BY <1>1, Invariance, PTL

(* Unless pmm_alloc fails, kheap_alloc gives up only in a heap grown to    *)
(* KH_MAX_NPAGES pages, and only if the request passes its end there.      *)
THEOREM GivesUpOnlyWhenFull == Spec => FullMeansFull
PROOF
  <1> DEFINE A == \A c \in Cpu :
                    pc[c] = "find" /\ pc'[c] = "idle" =>
                      /\ kh_npages = KH_MAX_NPAGES
                      /\ Candidate(kh_ents[Len(kh_ents)]) + SIZEOF_ENT + n[c]
                           > KH_START + PAGE_SIZE * KH_MAX_NPAGES
  <1>1. IInv /\ [Next]_vars => [A]_vars
    <2> SUFFICES ASSUME IInv, Next, NEW c \in Cpu,
                        pc[c] = "find", pc'[c] = "idle"
                 PROVE  /\ kh_npages = KH_MAX_NPAGES
                        /\ Candidate(kh_ents[Len(kh_ents)]) + SIZEOF_ENT + n[c]
                             > KH_START + PAGE_SIZE * KH_MAX_NPAGES
      BY DEF A
    <2>0. TypeOK /\ EntsOK /\ pc \in [Cpu -> {"off", "init", "hung", "idle", "find", "link", "nomem"}]
      BY DEF IInv, TypeOK
    <2>1. NoRoom(c) /\ kh_npages >= KH_MAX_NPAGES
      <3>1. ~kheap_init /\ ~kheap_init_fail /\ ~Hung
        <4>1. pc[BSP] \in {"idle", "find", "link", "nomem"}
          BY KheapAssumption DEF IInv, LockOK
        <4> QED  BY <4>1 DEF kheap_init, kheap_init_fail, Hung
      <3>2. ASSUME NEW d \in Cpu, d # c, alloc_lock(d) \/ Inside(d)
            PROVE  pc'[c] = pc[c]
        BY <3>2, <2>0 DEF alloc_lock, Inside, alloc_find, alloc_link, alloc_grow,
           alloc_refused, alloc_nomem, alloc_full, alloc_null
      <3>3. alloc_lock(c) \/ Inside(c)
        BY <3>1, <3>2 DEF Next
      <3> QED
        BY <3>3, <2>0 DEF alloc_lock, Inside, alloc_find, alloc_link, alloc_grow,
           alloc_refused, alloc_nomem, alloc_full
    <2>2. n[c] \in Sizes /\ Last \in DOMAIN kh_ents
      <3>1. n[c] \in Sizes
        BY DEF IInv, LinkOK, Busy
      <3>2. Started
        BY DEF IInv, LockOK
      <3> QED  BY <3>1, <3>2, <2>0 DEF EntsOK, TypeOK, Last
    <2>3. ~(Candidate(kh_ents[Last]) + SIZEOF_ENT + n[c] <= End)
      BY <2>1, <2>2, OnlyLastFits DEF NoRoom
    <2>4. Candidate(kh_ents[Last]) \in Nat /\ n[c] \in Nat /\ End \in Nat
      BY <2>0, <2>2, CandidateExact, EndBound, KheapAssumption
    <2>5. kh_npages = KH_MAX_NPAGES
      BY <2>0, <2>1, KheapAssumption DEF TypeOK
    <2>6. End = KH_START + PAGE_SIZE * KH_MAX_NPAGES
      BY <2>5 DEF End
    <2> QED  BY <2>3, <2>4, <2>5, <2>6 DEF Last, SIZEOF_ENT
  <1> QED  BY <1>1, Invariance, PTL DEF Spec, FullMeansFull

(* kheap.c implements HeapSpec: blocks are granted aligned, inside mapped  *)
(* memory and clear of each other, and are never moved or taken back.      *)
THEOREM ImplementsHeapSpec == Spec => HeapPromise
PROOF
  <1>1. Init => Heap!Init
    BY KheapAssumption DEF Init, Heap!Init
  <1>2. IInv /\ [Next]_vars =>
          [Heap!Next]_<<PAGE_SIZE * kh_npages, granted>>
    <2> SUFFICES ASSUME IInv, [Next]_vars
                 PROVE  \/ Heap!Next
                        \/ UNCHANGED <<PAGE_SIZE * kh_npages, granted>>
      OBVIOUS
    <2>0. TypeOK /\ EntsOK /\ GrantsOK
      BY DEF IInv
    <2>1. CASE kheap_init
      <3>1. kh_npages' = 1 /\ granted' = granted
        BY <2>1 DEF kheap_init
      <3>2. ~Started
        BY <2>1, KheapAssumption DEF IInv, LockOK, kheap_init
      <3>3. kh_npages = 0
        BY <3>2, <2>0 DEF Started, TypeOK
      <3>4. PAGE_SIZE * kh_npages = 0 /\ PAGE_SIZE * kh_npages' = PAGE_SIZE
            /\ PAGE_SIZE \in Nat /\ PAGE_SIZE > 0
        BY <3>1, <3>3, KheapAssumption DEF SIZEOF_ENT
      <3>5. PAGE_SIZE <= PAGE_SIZE * KH_MAX_NPAGES
        <4>1. \A x, y, p \in Nat : x <= y => p * x <= p * y
          OBVIOUS
        <4>2. PAGE_SIZE * 1 <= PAGE_SIZE * KH_MAX_NPAGES
          BY <4>1, KheapAssumption
        <4> QED  BY <4>2, <3>4
      <3> QED  BY <3>1, <3>4, <3>5 DEF Heap!Next, Heap!Grow
    <2>2. ASSUME NEW c \in Cpu, alloc_grow(c)
          PROVE  Heap!Next
      <3>1. granted' = granted /\ PAGE_SIZE * kh_npages' > PAGE_SIZE * kh_npages /\ TypeOK'
        BY <2>2, Step_alloc_grow DEF alloc_grow, IInv
      <3>2. kh_npages' \in Nat /\ kh_npages' <= KH_MAX_NPAGES
        BY <3>1, KheapAssumption DEF TypeOK
      <3>3. PAGE_SIZE * kh_npages' <= PAGE_SIZE * KH_MAX_NPAGES
        <4>1. \A x, y, p \in Nat : x <= y => p * x <= p * y
          OBVIOUS
        <4> QED  BY <4>1, <3>2, KheapAssumption
      <3> QED  BY <3>1, <3>3 DEF Heap!Next, Heap!Grow
    <2>3. ASSUME NEW c \in Cpu, alloc_link(c)
          PROVE  Heap!Next
      <3> DEFINE b == [addr |-> Add(new[c], SIZEOF_ENT), size |-> n[c]]
      <3>1. granted' = granted \cup {b} /\ kh_npages' = kh_npages
        BY <2>3 DEF alloc_link
      <3>2. /\ new[c] = Candidate(kh_ents[Last]) /\ new[c] + SIZEOF_ENT + n[c] <= End
            /\ Last \in DOMAIN kh_ents
        <4>1. pc[c] = "link"
          BY <2>3 DEF alloc_link
        <4>2. Started
          BY <4>1 DEF IInv, LockOK
        <4> QED  BY <4>1, <4>2, <2>0 DEF IInv, LinkOK, EntsOK, TypeOK, Last
      <3>3. /\ new[c] \in Nat /\ n[c] \in Nat /\ new[c] % 16 = 0
            /\ new[c] > Sum(kh_ents[Last]) /\ Sum(kh_ents[Last]) \in Nat
            /\ kh_ents[Last] \in kh_ent
        BY <2>0, <3>2, CandidateExact DEF TypeOK, SIZEOF_ENT
      <3>4. Add(new[c], SIZEOF_ENT) = new[c] + 16
        <4>1. new[c] + SIZEOF_ENT < WORD /\ SIZEOF_ENT \in Nat
          BY <2>0, <3>2, <3>3, EndBound, KheapAssumption DEF SIZEOF_ENT
        <4> QED  BY <4>1, <3>3, AddExact DEF SIZEOF_ENT
      <3>5. b.addr = new[c] + 16 /\ b.size = n[c]
        BY <3>4
      <3>6. b.addr % SIZEOF_ENT = 0
        BY <3>3, <3>5 DEF SIZEOF_ENT
      <3>7. KH_START + SIZEOF_ENT <= b.addr
        <4>1. kh_ents[Last].addr >= KH_START /\ kh_ents[Last].addr <= Sum(kh_ents[Last])
              /\ kh_ents[Last].addr \in Nat
          BY <2>0, <3>2, <3>3 DEF EntsOK, kh_ent, Sum, SIZEOF_ENT
        <4> QED  BY <4>1, <3>3, <3>5, KheapAssumption DEF SIZEOF_ENT
      <3>8. b.addr + b.size <= KH_START + PAGE_SIZE * kh_npages
        BY <3>2, <3>3, <3>5 DEF End, SIZEOF_ENT
      <3>9. \A a \in granted : a.addr + a.size <= b.addr - SIZEOF_ENT /\ a # b
        <4> TAKE a \in granted
        <4>1. PICK k \in DOMAIN kh_ents :
                a.addr = kh_ents[k].addr + SIZEOF_ENT /\ a.size = kh_ents[k].data_size
          BY <2>0 DEF GrantsOK
        <4>2. kh_ents[k] \in kh_ent /\ Sum(kh_ents[k]) \in Nat
          BY <2>0, CandidateExact
        <4>3. /\ a.addr + a.size = Sum(kh_ents[k]) /\ a.addr \in Nat /\ a.size \in Nat
              /\ a.addr <= Sum(kh_ents[k])
          BY <4>1, <4>2 DEF kh_ent, Sum, SIZEOF_ENT
        <4>4. Sum(kh_ents[k]) < new[c]
          <5>1. CASE k = Last
            BY <5>1, <3>3
          <5>2. CASE k < Last
            <6>1. Sum(kh_ents[k]) <= kh_ents[Last].addr
              BY <5>2, <2>0, <3>2 DEF EntsOK
            <6>2. kh_ents[Last].addr <= Sum(kh_ents[Last]) /\ kh_ents[Last].addr \in Nat
              BY <3>3 DEF kh_ent, Sum, SIZEOF_ENT
            <6> QED  BY <6>1, <6>2, <3>3, <4>2
          <5> QED  BY <5>1, <5>2, <2>0 DEF TypeOK, Last
        <4> QED  BY <4>3, <4>4, <3>3, <3>5 DEF SIZEOF_ENT
      <3> HIDE DEF b
      <3>10. Heap!Grant
        BY <3>1, <3>6, <3>7, <3>8, <3>9 DEF Heap!Grant, Heap!Clear
      <3> QED  BY <3>10 DEF Heap!Next
    <2>4. ASSUME NEW c \in Cpu,
                 alloc_lock(c) \/ alloc_find(c) \/ alloc_refused(c) \/ alloc_null(c)
          PROVE  UNCHANGED <<PAGE_SIZE * kh_npages, granted>>
      BY <2>4 DEF alloc_lock, alloc_find, alloc_refused, alloc_null, heap_vars
    <2>5. CASE kheap_init_fail \/ Hung \/ UNCHANGED vars
      BY <2>5 DEF kheap_init_fail, Hung, vars, heap_vars
    <2> QED
      BY <2>1, <2>2, <2>3, <2>4, <2>5 DEF Next, Inside, alloc_nomem, alloc_full
  <1> QED  BY <1>1, <1>2, Invariance, PTL DEF Spec, HeapPromise, Heap!Spec

-----------------------------------------------------------------------------
(* Page tables.                                                            *)

(* The path to a virtual page v in memory M below the pml4 r: whether it   *)
(* has a table of level l, which frame that is, and v's entry in it.       *)
StepIn(M, e, v, l) == IF e.p THEN M[e.addr][vaddr_to_pg_ind(v, l)] ELSE Zero
Ent1(M, r, v) == M[r][vaddr_to_pg_ind(v, 1)]
Ent2(M, r, v) == StepIn(M, Ent1(M, r, v), v, 2)
Ent3(M, r, v) == StepIn(M, Ent2(M, r, v), v, 3)
Ent4(M, r, v) == StepIn(M, Ent3(M, r, v), v, 4)

Has(M, r, v, l) == \/ l = 1
                   \/ l = 2 /\ Ent1(M, r, v).p
                   \/ l = 3 /\ Ent2(M, r, v).p
                   \/ l = 4 /\ Ent3(M, r, v).p
Tab(M, r, v, l) == CASE l = 1 -> r
                     [] l = 2 -> Ent1(M, r, v).addr
                     [] l = 3 -> Ent2(M, r, v).addr
                     [] l = 4 -> Ent3(M, r, v).addr
Ent(M, r, v, l) == CASE l = 1 -> Ent1(M, r, v)
                     [] l = 2 -> Ent2(M, r, v)
                     [] l = 3 -> Ent3(M, r, v)
                     [] l = 4 -> Ent4(M, r, v)

(* Two pages have the same indices above level l.                          *)
Agree(v, w, l) ==
  \A m \in Level : m < l => vaddr_to_pg_ind(v, m) = vaddr_to_pg_ind(w, m)

(* Every frame holds a whole table.                                        *)
Shape(M) ==
  DOMAIN M = Frame /\ \A f \in Frame : DOMAIN M[f] = 0 .. MAX_RADIX - 1

(* The tables T are a tree: two pages that meet in a table meet at the     *)
(* same level and have come the same way.  Present entries are writable.   *)
InTables(M, r, T) ==
  \A v \in VAddr, l \in Level : Has(M, r, v, l) => Tab(M, r, v, l) \in T
Writable(M, r) ==
  \A v \in VAddr, l \in Level : Ent(M, r, v, l).p => Ent(M, r, v, l).rw
Unique(M, r) ==
  \A v, w \in VAddr, l, m \in Level :
    /\ Has(M, r, v, l) /\ Has(M, r, w, m)
    /\ Tab(M, r, v, l) = Tab(M, r, w, m)
    => l = m /\ Agree(v, w, l)
Tree(M, r, T) == InTables(M, r, T) /\ Writable(M, r) /\ Unique(M, r)
Sound(M, r, T) == Shape(M) /\ T \subseteq Frame /\ r \in T /\ Tree(M, r, T)

(* What a last entry means when every level is writable.                   *)
Means(e) ==
  IF e.p THEN [addr |-> e.addr, rw |-> TRUE, p |-> TRUE] ELSE Unmapped

(* A frame that is no page's table.                                        *)
OffPath(M, r, f) ==
  \A v \in VAddr, l \in Level : Has(M, r, v, l) => Tab(M, r, v, l) # f

-----------------------------------------------------------------------------
(* The inductive invariant.  What is in use as a table is usable, not free *)
(* and not frame 0.                                                        *)
MemOK ==
  /\ Shape(mem)
  /\ tables \subseteq UsableFrames \ {PHYS_ADDR_NULL}
  /\ free \subseteq UsableFrames \ {PHYS_ADDR_NULL}
  /\ tables \cap free = {}

(* Before the pml4 exists.                                                 *)
NotYet ==
  stage = "create" => /\ tables = {} /\ tlb = <<>> /\ active = FALSE
                   /\ asked = [v \in VAddr |-> Unmapped]

InCall == stage \in {"walk", "link", "flags", "ret"}
Working == stage \in {"walk", "link", "flags"}

Calls == [op : {"map", "unmap"}, vaddr : VAddr, paddr : Frame,
          flags : SUBSET {"VF_WRITE"}, l : Level, cur : Frame, new : Frame]

(* The call in progress stands at its page's table of level call.l; a new  *)
(* table is cleared and not yet on any path.                               *)
CallOK ==
  /\ InCall => /\ call \in Calls
               /\ active => call.vaddr \in CurVaddrs
               /\ call.op = "map" => call.flags = {"VF_WRITE"}
               /\ call.op = "unmap" => active
  /\ Working => /\ Has(mem, pml4, call.vaddr, call.l)
                /\ call.cur = Tab(mem, pml4, call.vaddr, call.l)
  /\ stage = "link" => /\ call.op = "map" /\ call.l < 4
                    /\ ~Ent(mem, pml4, call.vaddr, call.l).p
                    /\ call.new \in tables
                    /\ mem[call.new] = Table(Zero)
                    /\ OffPath(mem, pml4, call.new)
  /\ stage = "flags" => call.op = "map" /\ call.l = 4

(* The tables say what was asked, but for the page being written.          *)
Honest ==
  /\ DOMAIN asked = VAddr
  /\ \A v \in VAddr :
       (stage = "flags" /\ v = call.vaddr) \/ Walk(v) = asked[v]

(* Nothing is cached before the switch; afterwards only the page being     *)
(* changed may be cached stale.                                            *)
TlbOK ==
  /\ active \in BOOLEAN
  /\ stage = "idle" => active
  /\ stage = "boot" => ~active
  /\ ~active => tlb = <<>>
  /\ DOMAIN tlb \subseteq VAddr
  /\ \A v \in DOMAIN tlb : tlb[v] = Walk(v) \/ (InCall /\ v = call.vaddr)

(* Requests: typed, and a usable frame that is mapped elsewhere is mapped  *)
(* to itself later.                                                        *)
Requests == [vaddr : VAddr, paddr : Frame \cup {ToBeAllocated}]
Pending(s, u) == \E nr \in DOMAIN s : s[nr] = Request(u, u)
Ordered(s) ==
  \A u \in UsableFrames : \A nr \in DOMAIN s :
    s[nr].vaddr = u /\ s[nr] # Request(u, u) =>
      \E k \in DOMAIN s : nr < k /\ s[k] = Request(u, u)

(* Every usable frame is mapped to itself, or will be before the switch.   *)
Itself(u) == [addr |-> u, rw |-> TRUE, p |-> TRUE]
MappedOrPending(u) ==
  \/ Pending(todo, u)
  \/ Working /\ call.op = "map" /\ call.vaddr = u /\ call.paddr = u
  \/ asked[u] = Itself(u) /\ (Working => call.vaddr # u)
BootOK ==
  /\ todo \in Seq(Requests) /\ Ordered(todo)
  /\ active => todo = <<>>
  /\ \A u \in UsableFrames : MappedOrPending(u)

Inv ==
  /\ MemOK /\ NotYet
  /\ stage \in {"create", "boot", "idle", "walk", "link", "flags", "ret"}
  /\ stage # "create" =>
       Sound(mem, pml4, tables) /\ CallOK /\ Honest /\ TlbOK /\ BootOK

(* From the first failed pmm_alloc on nothing is promised.                 *)
VmmInv == exhausted \in BOOLEAN /\ (~exhausted => Inv)

-----------------------------------------------------------------------------
(* Division with remainder: it exists, it is unique, and dividing twice is *)
(* dividing by the product.                                                *)
LEMMA DivExists ==
  ASSUME NEW nr \in Nat, NEW m \in Nat \ {0}
  PROVE  /\ nr \div m \in Nat /\ (nr % m) \in 0 .. m - 1
         /\ nr = m * (nr \div m) + (nr % m)
  OBVIOUS

(* Quotient and remainder are determined.                                  *)
LEMMA DivUnique ==
  ASSUME NEW nr \in Nat, NEW m \in Nat \ {0}, NEW s \in Nat, NEW u \in 0 .. m - 1,
         nr = m * s + u
  PROVE  nr \div m = s /\ (nr % m) = u
  OBVIOUS

(* A product of positive numbers.                                          *)
LEMMA ProdNat ==
  ASSUME NEW a \in Nat \ {0}, NEW b \in Nat \ {0}
  PROVE  a * b \in Nat \ {0}
  OBVIOUS

(* Dividing by a product.                                                  *)
LEMMA DivDiv ==
  ASSUME NEW nr \in Nat, NEW a \in Nat \ {0}, NEW b \in Nat \ {0}
  PROVE  nr \div (a * b) = (nr \div a) \div b
<1> DEFINE q == nr \div a
           r == nr % a
           s == q \div b
           t == q % b
<1>1. q \in Nat /\ r \in 0 .. a - 1 /\ nr = a * q + r
  BY DivExists
<1>2. s \in Nat /\ t \in 0 .. b - 1 /\ q = b * s + t
  BY <1>1, DivExists
<1> HIDE DEF q, r, s, t
<1>3. nr = (a * b) * s + (a * t + r)
  BY <1>1, <1>2
<1>4. a * t + r \in 0 .. (a * b) - 1
  <2>1. a * t \in Nat /\ a * t <= a * (b - 1)
    BY <1>2
  <2>2. a * (b - 1) = a * b - a
    OBVIOUS
  <2> QED
    BY <1>1, <2>1, <2>2
<1>5. nr \div (a * b) = s
  BY <1>2, <1>3, <1>4, ProdNat, DivUnique
<1> QED
  BY <1>5 DEF s, q

(* A number is its last digit and the rest.                                *)
LEMMA DigitAndRest ==
  ASSUME NEW nr \in Nat, NEW m \in Nat, NEW a \in Nat \ {0},
         (nr % a) = (m % a), nr \div a = m \div a
  PROVE  nr = m
<1>1. nr = a * (nr \div a) + (nr % a)
  BY DivExists
<1>2. m = a * (m \div a) + (m % a)
  BY DivExists
<1> QED
  BY <1>1, <1>2

(* A quotient is below what the number is below, divided.                  *)
LEMMA DivBelow ==
  ASSUME NEW nr \in Nat, NEW a \in Nat \ {0}, NEW b \in Nat \ {0}, nr < a * b
  PROVE  nr \div a \in 0 .. b - 1
<1> DEFINE q == nr \div a
<1>1. q \in Nat /\ (nr % a) \in 0 .. a - 1 /\ nr = a * q + (nr % a)
  BY DivExists
<1> HIDE DEF q
<1>2. q < b
  <2> SUFFICES ASSUME q >= b PROVE FALSE
    BY <1>1
  <2>1. a * q >= a * b
    BY <1>1
  <2>2. a * q <= nr
    BY <1>1
  <2>3. a * q \in Nat /\ a * b \in Nat
    BY <1>1
  <2> QED
    BY <2>1, <2>2, <2>3
<1>3. q \in 0 .. b - 1
  BY <1>1, <1>2
<1> QED
  BY <1>3 DEF q

(* The sizes of the tables.                                                *)
LEMMA Radixes ==
  /\ \A l \in Level : RADIX[l] \in Nat \ {0}
  /\ 1 \in Level /\ 2 \in Level /\ 3 \in Level /\ 4 \in Level
  BY VmmAssumption DEF Level

(* Pages with the same four indices are the same page.                     *)
LEMMA SameIndices ==
  ASSUME NEW v \in VAddr, NEW w \in VAddr, Agree(v, w, 5)
  PROVE  v = w
<1>1. PICK a \in Nat \ {0}, b \in Nat \ {0}, c \in Nat \ {0}, d \in Nat \ {0} :
        a = RADIX[4] /\ b = RADIX[3] /\ c = RADIX[2] /\ d = RADIX[1]
  BY Radixes
<1>2. a * b \in Nat \ {0} /\ a * b * c \in Nat \ {0}
  BY ProdNat
<1>3. v \in Nat /\ w \in Nat /\ v < (a * b * c) * d /\ w < (a * b * c) * d
  <2>1. NPAGES = ((d * c) * b) * a
    BY <1>1 DEF NPAGES
  <2>2. ((d * c) * b) * a = (a * b * c) * d
    OBVIOUS
  <2>3. (a * b * c) * d \in Nat
    BY <1>2
  <2> QED
    BY <2>1, <2>2, <2>3 DEF VAddr
<1>4. /\ (v % a) = (w % a)
      /\ ((v \div a) % b) = ((w \div a) % b)
      /\ ((v \div (a * b)) % c) = ((w \div (a * b)) % c)
      /\ ((v \div (a * b * c)) % d) = ((w \div (a * b * c)) % d)
  <2>1. \A m \in Level : vaddr_to_pg_ind(v, m) = vaddr_to_pg_ind(w, m)
    BY DEF Agree, Level
  <2> QED
    BY <1>1, <2>1, Radixes DEF vaddr_to_pg_ind
<1>5. v \div (a * b * c) = w \div (a * b * c)
  <2>1. v \div (a * b * c) \in 0 .. d - 1 /\ w \div (a * b * c) \in 0 .. d - 1
    BY <1>2, <1>3, DivBelow
  <2>2. \A nr \in 0 .. d - 1 : (nr % d) = nr
    OBVIOUS
  <2> QED
    BY <1>4, <2>1, <2>2
<1>6. v \div (a * b) = w \div (a * b)
  <2>1. v \div (a * b) \in Nat /\ w \div (a * b) \in Nat
    BY <1>2, <1>3, DivExists
  <2>2. PICK ab \in Nat \ {0} : ab = a * b
    BY <1>2
  <2>3. v \div (ab * c) = (v \div ab) \div c
    BY <1>3, DivDiv
  <2>4. w \div (ab * c) = (w \div ab) \div c
    BY <1>3, DivDiv
  <2>5. (v \div (a * b)) \div c = (w \div (a * b)) \div c
    BY <1>5, <2>2, <2>3, <2>4
  <2> QED
    BY <1>4, <2>1, <2>5, DigitAndRest
<1>7. v \div a = w \div a
  <2>1. v \div a \in Nat /\ w \div a \in Nat
    BY <1>3, DivExists
  <2>2. (v \div a) \div b = (w \div a) \div b
    BY <1>3, <1>6, DivDiv
  <2> QED
    BY <1>4, <2>1, <2>2, DigitAndRest
<1> QED
  BY <1>3, <1>4, <1>7, DigitAndRest

(* A table is as long as the largest of the four levels needs.             *)
LEMMA MaxRadix ==
  MAX_RADIX \in Nat /\ \A l \in Level : RADIX[l] <= MAX_RADIX
<1> DEFINE R == {RADIX[l] : l \in Level}
           Top(r) == \A l \in Level : RADIX[l] <= r
<1>1. \E r \in R : Top(r)
  <2>1. PICK a \in Nat, b \in Nat, c \in Nat, d \in Nat :
          a = RADIX[4] /\ b = RADIX[3] /\ c = RADIX[2] /\ d = RADIX[1]
    BY Radixes
  <2>2. a \in R /\ b \in R /\ c \in R /\ d \in R
    BY <2>1, Radixes
  <2>3. \A r : r >= a /\ r >= b /\ r >= c /\ r >= d => Top(r)
    BY <2>1 DEF Level
  <2>4. \/ a >= a /\ a >= b /\ a >= c /\ a >= d
        \/ b >= a /\ b >= b /\ b >= c /\ b >= d
        \/ c >= a /\ c >= b /\ c >= c /\ c >= d
        \/ d >= a /\ d >= b /\ d >= c /\ d >= d
    OBVIOUS
  <2> QED
    BY <2>2, <2>3, <2>4
<1>2. MAX_RADIX = CHOOSE r \in R : Top(r)
  BY DEF MAX_RADIX
<1>3. MAX_RADIX \in R /\ Top(MAX_RADIX)
  BY <1>1, <1>2
<1> QED
  BY <1>3, Radixes

(* An index lies in its table.                                             *)
LEMMA IndexInTable ==
  ASSUME NEW v \in VAddr, NEW l \in Level
  PROVE  vaddr_to_pg_ind(v, l) \in 0 .. MAX_RADIX - 1
<1>1. PICK a \in Nat \ {0}, b \in Nat \ {0}, c \in Nat \ {0}, d \in Nat \ {0} :
        a = RADIX[4] /\ b = RADIX[3] /\ c = RADIX[2] /\ d = RADIX[1]
  BY Radixes
<1>2. a * b \in Nat \ {0} /\ a * b * c \in Nat \ {0} /\ v \in Nat
  BY ProdNat DEF VAddr
<1>3. v \div a \in Nat /\ v \div (a * b) \in Nat /\ v \div (a * b * c) \in Nat
  BY <1>2, DivExists
<1>4. /\ (v % a) \in 0 .. a - 1
      /\ ((v \div a) % b) \in 0 .. b - 1
      /\ ((v \div (a * b)) % c) \in 0 .. c - 1
      /\ ((v \div (a * b * c)) % d) \in 0 .. d - 1
  BY <1>2, <1>3, DivExists
<1>5. \A nr \in Level : RADIX[nr] <= MAX_RADIX
  BY MaxRadix
<1>6. PICK i : i = vaddr_to_pg_ind(v, l)
  OBVIOUS
<1>7. i \in 0 .. RADIX[l] - 1
  <2>1. l = 1 \/ l = 2 \/ l = 3 \/ l = 4
    BY DEF Level
  <2>2. CASE l = 1
    BY <1>1, <1>4, <1>6, <2>2 DEF vaddr_to_pg_ind
  <2>3. CASE l = 2
    BY <1>1, <1>4, <1>6, <2>3 DEF vaddr_to_pg_ind
  <2>4. CASE l = 3
    BY <1>1, <1>4, <1>6, <2>4 DEF vaddr_to_pg_ind
  <2>5. CASE l = 4
    BY <1>1, <1>4, <1>6, <2>5 DEF vaddr_to_pg_ind
  <2> QED
    BY <2>1, <2>2, <2>3, <2>4, <2>5
<1>8. i \in 0 .. MAX_RADIX - 1
  BY <1>5, <1>7, MaxRadix, Radixes
<1> QED
  BY <1>6, <1>8

-----------------------------------------------------------------------------
(* How the levels of a path hang together: it starts at the pml4, ...      *)
LEMMA PathTop ==
  ASSUME NEW M, NEW r, NEW v
  PROVE  Has(M, r, v, 1) /\ Tab(M, r, v, 1) = r
  BY DEF Has, Tab

(* ... a present entry leads to the next table, ...                        *)
LEMMA PathDown ==
  ASSUME NEW M, NEW r, NEW v, NEW l \in 1 .. 3
  PROVE  /\ Has(M, r, v, l + 1) <=> Ent(M, r, v, l).p
         /\ Tab(M, r, v, l + 1) = Ent(M, r, v, l).addr
         /\ Has(M, r, v, l + 1) => Has(M, r, v, l)
<1>1. l = 1 \/ l = 2 \/ l = 3
  OBVIOUS
<1>2. CASE l = 1
  BY <1>2 DEF Has, Tab, Ent
<1>3. CASE l = 2
  BY <1>3 DEF Has, Tab, Ent, Ent2, StepIn, Zero
<1>4. CASE l = 3
  BY <1>4 DEF Has, Tab, Ent, Ent3, StepIn, Zero
<1> QED
  BY <1>1, <1>2, <1>3, <1>4

(* ... the entry is the one in the table, ...                              *)
LEMMA PathEntry ==
  ASSUME NEW M, NEW r, NEW v, NEW l \in Level, Has(M, r, v, l)
  PROVE  Ent(M, r, v, l) = M[Tab(M, r, v, l)][vaddr_to_pg_ind(v, l)]
<1>1. l = 1 \/ l = 2 \/ l = 3 \/ l = 4
  BY DEF Level
<1>2. CASE l = 1
  BY <1>2 DEF Has, Tab, Ent, Ent1
<1>3. CASE l = 2
  BY <1>3 DEF Has, Tab, Ent, Ent2, StepIn
<1>4. CASE l = 3
  BY <1>4 DEF Has, Tab, Ent, Ent3, StepIn
<1>5. CASE l = 4
  BY <1>5 DEF Has, Tab, Ent, Ent4, StepIn
<1> QED
  BY <1>1, <1>2, <1>3, <1>4, <1>5

(* ... and where there is no table the entry is empty.                     *)
LEMMA PathEnd ==
  ASSUME NEW M, NEW r, NEW v, NEW l \in Level, ~Has(M, r, v, l)
  PROVE  Ent(M, r, v, l) = Zero
<1>1. l = 2 \/ l = 3 \/ l = 4
  BY PathTop DEF Level
<1>2. CASE l = 2
  BY <1>2 DEF Has, Ent, Ent2, StepIn
<1>3. CASE l = 3
  BY <1>3 DEF Has, Ent, Ent3, StepIn
<1>4. CASE l = 4
  BY <1>4 DEF Has, Ent, Ent4, StepIn
<1> QED
  BY <1>1, <1>2, <1>3, <1>4

(* If v finds in N, at every level above k, the entry w finds in M, the    *)
(* two paths are the same down to level k.                                 *)
Follows(M, N, r, v, w, k) ==
  \A j \in Level : j < k /\ Has(M, r, w, j) =>
    N[Tab(M, r, w, j)][vaddr_to_pg_ind(v, j)]
      = M[Tab(M, r, w, j)][vaddr_to_pg_ind(w, j)]
SameTo(M, N, r, v, w, k) ==
  \A l \in Level :
    /\ l <= k => /\ Has(N, r, v, l) <=> Has(M, r, w, l)
                 /\ Tab(N, r, v, l) = Tab(M, r, w, l)
    /\ l < k => Ent(N, r, v, l) = Ent(M, r, w, l)

(* Following the same entries is coming to the same tables.                *)
LEMMA SamePath ==
  ASSUME NEW M, NEW N, NEW r, NEW v, NEW w, NEW k \in 1 .. 5,
         Follows(M, N, r, v, w, k)
  PROVE  SameTo(M, N, r, v, w, k)
<1> DEFINE Met(l) == /\ Has(N, r, v, l) <=> Has(M, r, w, l)
                     /\ Tab(N, r, v, l) = Tab(M, r, w, l)
           Eq(l) == Ent(N, r, v, l) = Ent(M, r, w, l)
<1>1. Met(1)
  BY PathTop
<1>2. ASSUME NEW l \in Level, l < k, Met(l) PROVE Eq(l)
  <2>1. CASE Has(M, r, w, l)
    <3>1. Ent(N, r, v, l) = N[Tab(N, r, v, l)][vaddr_to_pg_ind(v, l)]
      BY <1>2, <2>1, PathEntry
    <3>2. Ent(M, r, w, l) = M[Tab(M, r, w, l)][vaddr_to_pg_ind(w, l)]
      BY <2>1, PathEntry
    <3>3. N[Tab(M, r, w, l)][vaddr_to_pg_ind(v, l)]
            = M[Tab(M, r, w, l)][vaddr_to_pg_ind(w, l)]
      BY <1>2, <2>1 DEF Follows
    <3> QED
      BY <1>2, <3>1, <3>2, <3>3
  <2>2. CASE ~Has(M, r, w, l)
    BY <1>2, <2>2, PathEnd
  <2> QED
    BY <2>1, <2>2
<1>3. ASSUME NEW l \in 1 .. 3, Eq(l) PROVE Met(l + 1)
  <2>1. /\ Has(N, r, v, l + 1) <=> Ent(N, r, v, l).p
        /\ Tab(N, r, v, l + 1) = Ent(N, r, v, l).addr
    BY PathDown
  <2>2. /\ Has(M, r, w, l + 1) <=> Ent(M, r, w, l).p
        /\ Tab(M, r, w, l + 1) = Ent(M, r, w, l).addr
    BY PathDown
  <2> QED
    BY <1>3, <2>1, <2>2
<1> HIDE DEF Met, Eq
<1>4. k > 1 => Eq(1) /\ Met(2)
  BY <1>1, <1>2, <1>3 DEF Level
<1>5. k > 2 => Eq(2) /\ Met(3)
  BY <1>4, <1>2, <1>3 DEF Level
<1>6. k > 3 => Eq(3) /\ Met(4)
  BY <1>5, <1>2, <1>3 DEF Level
<1>7. k > 4 => Eq(4)
  BY <1>6, <1>2 DEF Level
<1>8. \A l \in Level : (l <= k => Met(l)) /\ (l < k => Eq(l))
  BY <1>1, <1>4, <1>5, <1>6, <1>7 DEF Level
<1> QED
  BY <1>8 DEF Met, Eq, SameTo

(* Pages that agree above level k share their tables down to level k.      *)
LEMMA AgreeShare ==
  ASSUME NEW M, NEW r, NEW v, NEW w, NEW k \in 1 .. 5, Agree(v, w, k)
  PROVE  SameTo(M, M, r, v, w, k)
<1>1. Follows(M, M, r, v, w, k)
  BY DEF Agree, Follows
<1> QED
  BY <1>1, SamePath

(* A path has no gaps.                                                     *)
LEMMA NoGap ==
  ASSUME NEW M, NEW r, NEW v, NEW l \in Level, NEW k \in Level, k < l,
         Has(M, r, v, l)
  PROVE  Has(M, r, v, k) /\ Ent(M, r, v, k).p
<1>1. \A m \in 1 .. 3 : Has(M, r, v, m + 1) =>
        Has(M, r, v, m) /\ Ent(M, r, v, m).p
  BY PathDown
<1>2. /\ Has(M, r, v, 2) => Has(M, r, v, 1) /\ Ent(M, r, v, 1).p
      /\ Has(M, r, v, 3) => Has(M, r, v, 2) /\ Ent(M, r, v, 2).p
      /\ Has(M, r, v, 4) => Has(M, r, v, 3) /\ Ent(M, r, v, 3).p
  BY <1>1
<1> QED
  BY <1>2 DEF Level

(* The processor's walk finds what the last entry means.                   *)
WalkIn(M, r, v) ==
  LET e1 == Ent1(M, r, v)  e2 == Ent2(M, r, v)
      e3 == Ent3(M, r, v)  e4 == Ent4(M, r, v)
  IN  IF e4.p
      THEN [addr |-> e4.addr, rw |-> e1.rw /\ e2.rw /\ e3.rw /\ e4.rw, p |-> TRUE]
      ELSE Unmapped

(* When every level is writable, the walk depends on the last entry alone. *)
LEMMA WalkMeans ==
  ASSUME NEW M, NEW r, NEW v \in VAddr, Writable(M, r)
  PROVE  WalkIn(M, r, v) = Means(Ent(M, r, v, 4))
<1> DEFINE e1 == Ent1(M, r, v)
           e2 == Ent2(M, r, v)
           e3 == Ent3(M, r, v)
           e4 == Ent4(M, r, v)
<1>1. WalkIn(M, r, v) = IF e4.p
                        THEN [addr |-> e4.addr, p |-> TRUE,
                              rw |-> e1.rw /\ e2.rw /\ e3.rw /\ e4.rw]
                        ELSE Unmapped
  BY DEF WalkIn
<1>2. /\ e1.p => e1.rw
      /\ e2.p => e2.rw
      /\ e3.p => e3.rw
      /\ e4.p => e4.rw
  BY Radixes DEF Writable, Ent
<1>3. (e4.p => e3.p) /\ (e3.p => e2.p) /\ (e2.p => e1.p)
  BY DEF Ent2, Ent3, Ent4, StepIn, Zero
<1>4. Ent(M, r, v, 4) = e4
  BY DEF Ent
<1> HIDE DEF e1, e2, e3, e4
<1>5. e4.p => (e1.rw /\ e2.rw /\ e3.rw /\ e4.rw) = TRUE
  BY <1>2, <1>3
<1> QED
  BY <1>1, <1>4, <1>5 DEF Means

(* Walk, before and after a step.                                          *)
LEMMA WalkIs ==
  ASSUME NEW v
  PROVE  Walk(v) = WalkIn(mem, pml4, v) /\ Walk(v)' = WalkIn(mem', pml4', v)
<1>1. Walk(v) = WalkIn(mem, pml4, v)
  BY DEF Walk, Step, WalkIn, Ent1, Ent2, Ent3, Ent4, StepIn
<1>2. Walk(v)' = WalkIn(mem', pml4', v)
  BY DEF Walk, Step, WalkIn, Ent1, Ent2, Ent3, Ent4, StepIn
<1> QED
  BY <1>1, <1>2

-----------------------------------------------------------------------------
(* A store into page w's entry of level k.                                 *)
Store(M, r, w, k, e) ==
  [M EXCEPT ![Tab(M, r, w, k)][vaddr_to_pg_ind(w, k)] = e]

(* A page's tables are frames, and the indices into them are in range.     *)
LEMMA PathInMemory ==
  ASSUME NEW M, NEW r, NEW T, Sound(M, r, T),
         NEW v \in VAddr, NEW l \in Level, Has(M, r, v, l)
  PROVE  /\ Tab(M, r, v, l) \in T /\ Tab(M, r, v, l) \in Frame
         /\ vaddr_to_pg_ind(v, l) \in 0 .. MAX_RADIX - 1
  BY IndexInTable DEF Sound, Tree, InTables

(* What one store does to memory.                                          *)
LEMMA StoreIs ==
  ASSUME NEW M, Shape(M), NEW t \in Frame, NEW i \in 0 .. MAX_RADIX - 1, NEW e
  PROVE  \A f \in Frame, j \in 0 .. MAX_RADIX - 1 :
           [M EXCEPT ![t][i] = e][f][j] = IF f = t /\ j = i THEN e ELSE M[f][j]
  BY DEF Shape

(* The entry of v at level j is not w's at level k, unless j is k and the  *)
(* pages agree down to it.                                                 *)
LEMMA OtherEntry ==
  ASSUME NEW M, NEW r, NEW T, Sound(M, r, T),
         NEW w \in VAddr, NEW k \in Level, Has(M, r, w, k), NEW e,
         NEW v \in VAddr, NEW j \in Level, Has(M, r, v, j),
         j # k \/ ~Agree(v, w, k + 1)
  PROVE  Store(M, r, w, k, e)[Tab(M, r, v, j)][vaddr_to_pg_ind(v, j)]
           = M[Tab(M, r, v, j)][vaddr_to_pg_ind(v, j)]
<1> DEFINE t == Tab(M, r, w, k)
           i == vaddr_to_pg_ind(w, k)
           f == Tab(M, r, v, j)
           x == vaddr_to_pg_ind(v, j)
<1>1. t \in Frame /\ i \in 0 .. MAX_RADIX - 1
  BY PathInMemory
<1>2. f \in Frame /\ x \in 0 .. MAX_RADIX - 1
  BY PathInMemory
<1>3. ~(f = t /\ x = i)
  <2> SUFFICES ASSUME f = t, x = i PROVE FALSE
    OBVIOUS
  <2>1. j = k /\ Agree(v, w, k)
    BY DEF Sound, Tree, Unique
  <2>2. Agree(v, w, k + 1)
    BY <2>1 DEF Agree, Level
  <2> QED
    BY <2>1, <2>2
<1>4. Store(M, r, w, k, e) = [M EXCEPT ![t][i] = e]
  BY DEF Store
<1>5. Shape(M)
  BY DEF Sound
<1> HIDE DEF t, i, f, x
<1>6. Store(M, r, w, k, e)[f][x] = M[f][x]
  BY <1>1, <1>2, <1>3, <1>4, <1>5, StoreIs
<1> QED
  BY <1>6 DEF f, x

(* A page that does not agree with w down to level k keeps its whole path. *)
LEMMA StoreElsewhere ==
  ASSUME NEW M, NEW r, NEW T, Sound(M, r, T),
         NEW w \in VAddr, NEW k \in Level, Has(M, r, w, k), NEW e,
         NEW v \in VAddr, ~Agree(v, w, k + 1)
  PROVE  \A l \in Level :
           /\ Has(Store(M, r, w, k, e), r, v, l) <=> Has(M, r, v, l)
           /\ Tab(Store(M, r, w, k, e), r, v, l) = Tab(M, r, v, l)
           /\ Ent(Store(M, r, w, k, e), r, v, l) = Ent(M, r, v, l)
<1>1. PICK N : N = Store(M, r, w, k, e)
  OBVIOUS
<1>2. \A j \in Level : j < 5 /\ Has(M, r, v, j) =>
        N[Tab(M, r, v, j)][vaddr_to_pg_ind(v, j)]
          = M[Tab(M, r, v, j)][vaddr_to_pg_ind(v, j)]
  BY <1>1, OtherEntry
<1>3. \A l \in Level :
        /\ l <= 5 => /\ Has(N, r, v, l) <=> Has(M, r, v, l)
                     /\ Tab(N, r, v, l) = Tab(M, r, v, l)
        /\ l < 5 => Ent(N, r, v, l) = Ent(M, r, v, l)
  <2>1. Follows(M, N, r, v, v, 5)
    BY <1>2 DEF Follows
  <2>2. SameTo(M, N, r, v, v, 5)
    BY <2>1, SamePath
  <2> QED
    BY <2>2 DEF SameTo
<1>4. \A l \in Level : l < 5 /\ l <= 5
  BY DEF Level
<1> QED
  BY <1>1, <1>3, <1>4

(* In N, v has the path that it has in M down to level k, and there the    *)
(* entry e, where it had w's.                                              *)
PathTo(M, N, r, v, w, k, e) ==
  /\ \A l \in Level :
       /\ l <= k => /\ Has(N, r, v, l) /\ Has(M, r, v, l)
                    /\ Tab(N, r, v, l) = Tab(M, r, v, l)
       /\ l < k => Ent(N, r, v, l) = Ent(M, r, v, l)
  /\ Ent(N, r, v, k) = e
  /\ Ent(M, r, v, k) = Ent(M, r, w, k)

(* A page that does agree keeps its path down to level k and finds the new *)
(* entry there.                                                            *)
LEMMA StoreHere ==
  ASSUME NEW M, NEW r, NEW T, Sound(M, r, T),
         NEW w \in VAddr, NEW k \in Level, Has(M, r, w, k), NEW e,
         NEW v \in VAddr, Agree(v, w, k + 1)
  PROVE  PathTo(M, Store(M, r, w, k, e), r, v, w, k, e)
<1>1. PICK N : N = Store(M, r, w, k, e)
  OBVIOUS
<1>2. \A j \in Level : j < k /\ Has(M, r, v, j) =>
        N[Tab(M, r, v, j)][vaddr_to_pg_ind(v, j)]
          = M[Tab(M, r, v, j)][vaddr_to_pg_ind(v, j)]
  BY <1>1, OtherEntry DEF Level
<1>3. k \in 1 .. 5 /\ k + 1 \in 1 .. 5 /\ k < k + 1 /\ k <= k
  BY DEF Level
<1>4. \A l \in Level :
        /\ l <= k => /\ Has(N, r, v, l) <=> Has(M, r, v, l)
                     /\ Tab(N, r, v, l) = Tab(M, r, v, l)
        /\ l < k => Ent(N, r, v, l) = Ent(M, r, v, l)
  <2>1. Follows(M, N, r, v, v, k)
    BY <1>2 DEF Follows
  <2>2. k \in 1 .. 5
    BY <1>3
  <2>3. SameTo(M, N, r, v, v, k)
    BY <2>1, <2>2, SamePath
  <2> QED
    BY <2>3 DEF SameTo
<1>5. \A l \in Level :
        /\ l <= k + 1 => /\ Has(M, r, v, l) <=> Has(M, r, w, l)
                         /\ Tab(M, r, v, l) = Tab(M, r, w, l)
        /\ l < k + 1 => Ent(M, r, v, l) = Ent(M, r, w, l)
  BY <1>3, AgreeShare DEF SameTo
<1>6. \A l \in Level : l <= k => Has(M, r, v, l)
  <2> SUFFICES ASSUME NEW l \in Level, l <= k PROVE Has(M, r, v, l)
    OBVIOUS
  <2>1. Has(M, r, w, l)
    BY NoGap DEF Level
  <2> QED
    BY <1>5, <2>1 DEF Level
<1>7. Tab(N, r, v, k) = Tab(M, r, w, k) /\ Has(N, r, v, k)
  BY <1>3, <1>4, <1>5, <1>6
<1>8. vaddr_to_pg_ind(v, k) = vaddr_to_pg_ind(w, k)
  BY <1>3 DEF Agree
<1>9. Ent(N, r, v, k) = e
  <2> DEFINE t == Tab(M, r, w, k)
             i == vaddr_to_pg_ind(w, k)
  <2>1. t \in Frame /\ i \in 0 .. MAX_RADIX - 1 /\ Shape(M)
    BY PathInMemory DEF Sound
  <2>2. N = [M EXCEPT ![t][i] = e]
    BY <1>1 DEF Store
  <2>3. Ent(N, r, v, k) = N[t][i]
    BY <1>7, <1>8, PathEntry
  <2> HIDE DEF t, i
  <2>4. N[t][i] = e
    BY <2>1, <2>2 DEF Shape
  <2> QED
    BY <2>3, <2>4
<1>10. PathTo(M, N, r, v, w, k, e)
  BY <1>3, <1>4, <1>5, <1>6, <1>9 DEF PathTo
<1> QED
  BY <1>1, <1>10

(* A memory with the same paths is as sound when its entries are writable. *)
LEMMA SoundSame ==
  ASSUME NEW M, NEW N, NEW r, NEW T, Sound(M, r, T), Shape(N), Writable(N, r),
         \A v \in VAddr, l \in Level :
           /\ Has(N, r, v, l) <=> Has(M, r, v, l)
           /\ Tab(N, r, v, l) = Tab(M, r, v, l)
  PROVE  Sound(N, r, T)
<1>1. InTables(N, r, T)
  BY DEF Sound, Tree, InTables
<1>2. Unique(N, r)
  BY DEF Sound, Tree, Unique
<1> QED
  BY <1>1, <1>2 DEF Sound, Tree

(* A store keeps every frame a whole table.                                *)
LEMMA StoreShape ==
  ASSUME NEW M, NEW r, NEW T, Sound(M, r, T),
         NEW w \in VAddr, NEW k \in Level, Has(M, r, w, k), NEW e
  PROVE  /\ Shape(Store(M, r, w, k, e))
         /\ \A f \in Frame : f # Tab(M, r, w, k) => Store(M, r, w, k, e)[f] = M[f]
<1> DEFINE t == Tab(M, r, w, k)
           i == vaddr_to_pg_ind(w, k)
<1>1. t \in Frame /\ i \in 0 .. MAX_RADIX - 1 /\ Shape(M)
  BY PathInMemory DEF Sound
<1>2. Store(M, r, w, k, e) = [M EXCEPT ![t][i] = e]
  BY DEF Store
<1> HIDE DEF t, i
<1>3. /\ Shape(Store(M, r, w, k, e))
      /\ \A f \in Frame : f # t => Store(M, r, w, k, e)[f] = M[f]
  BY <1>1, <1>2 DEF Shape
<1> QED
  BY <1>3 DEF t

(* A store into a last entry changes the translation of that page alone.   *)
LEMMA LeafStore ==
  ASSUME NEW M, NEW r, NEW T, Sound(M, r, T),
         NEW w \in VAddr, Has(M, r, w, 4), NEW e, e.p => e.rw
  PROVE  /\ Sound(Store(M, r, w, 4, e), r, T)
         /\ \A v \in VAddr, l \in Level :
              /\ Has(Store(M, r, w, 4, e), r, v, l) <=> Has(M, r, v, l)
              /\ Tab(Store(M, r, w, 4, e), r, v, l) = Tab(M, r, v, l)
         /\ \A v \in VAddr : Ent(Store(M, r, w, 4, e), r, v, 4)
                               = IF v = w THEN e ELSE Ent(M, r, v, 4)
<1>0. 4 \in Level /\ 4 + 1 = 5 /\ \A l \in Level : l <= 4 /\ (l < 4 \/ l = 4)
  BY DEF Level
<1>1. PICK N : N = Store(M, r, w, 4, e)
  OBVIOUS
<1>2. ASSUME NEW v \in VAddr, v # w
      PROVE  \A l \in Level : /\ Has(N, r, v, l) <=> Has(M, r, v, l)
                              /\ Tab(N, r, v, l) = Tab(M, r, v, l)
                              /\ Ent(N, r, v, l) = Ent(M, r, v, l)
  <2>1. ~Agree(v, w, 4 + 1)
    BY <1>0, <1>2, SameIndices
  <2> QED
    BY <1>0, <1>1, <2>1, StoreElsewhere
<1>3. /\ \A l \in Level : /\ l <= 4 => /\ Has(N, r, w, l) /\ Has(M, r, w, l)
                                       /\ Tab(N, r, w, l) = Tab(M, r, w, l)
                          /\ l < 4 => Ent(N, r, w, l) = Ent(M, r, w, l)
      /\ Ent(N, r, w, 4) = e
  <2>1. Agree(w, w, 4 + 1)
    BY DEF Agree
  <2>2. PathTo(M, Store(M, r, w, 4, e), r, w, w, 4, e)
    BY <1>0, <2>1, StoreHere
  <2>3. PathTo(M, N, r, w, w, 4, e)
    BY <1>1, <2>2
  <2> QED
    BY <2>3 DEF PathTo
<1>4. \A v \in VAddr, l \in Level : /\ Has(N, r, v, l) <=> Has(M, r, v, l)
                                    /\ Tab(N, r, v, l) = Tab(M, r, v, l)
  BY <1>0, <1>2, <1>3
<1>5. Writable(N, r)
  <2> SUFFICES ASSUME NEW v \in VAddr, NEW l \in Level
               PROVE  Ent(N, r, v, l).p => Ent(N, r, v, l).rw
    BY DEF Writable
  <2>1. Ent(M, r, v, l).p => Ent(M, r, v, l).rw
    BY DEF Sound, Tree, Writable
  <2>2. Ent(N, r, v, l) = Ent(M, r, v, l) \/ Ent(N, r, v, l) = e
    BY <1>0, <1>2, <1>3
  <2> QED
    BY <2>1, <2>2
<1>6. Shape(N)
  BY <1>0, <1>1, StoreShape
<1>7. Sound(N, r, T)
  BY <1>4, <1>5, <1>6, SoundSame
<1>8. \A v \in VAddr : Ent(N, r, v, 4) = IF v = w THEN e ELSE Ent(M, r, v, 4)
  BY <1>0, <1>2, <1>3
<1> QED
  BY <1>1, <1>4, <1>7, <1>8

Clear(M, g) == [M EXCEPT ![g] = Table(Zero)]

(* Clearing a frame that is on no path changes no path.                    *)
LEMMA ClearFrame ==
  ASSUME NEW M, NEW r, NEW T, Sound(M, r, T), NEW g \in Frame, OffPath(M, r, g)
  PROVE  LET N == Clear(M, g) IN
         /\ Sound(N, r, T) /\ N[g] = Table(Zero) /\ OffPath(N, r, g)
         /\ \A v \in VAddr, l \in Level : /\ Has(N, r, v, l) <=> Has(M, r, v, l)
                                          /\ Tab(N, r, v, l) = Tab(M, r, v, l)
                                          /\ Ent(N, r, v, l) = Ent(M, r, v, l)
<1>1. PICK N : N = Clear(M, g)
  OBVIOUS
<1>2. Shape(N) /\ N[g] = Table(Zero) /\ \A f \in Frame : f # g => N[f] = M[f]
  BY <1>1 DEF Sound, Shape, Table, Clear
<1>3. ASSUME NEW v \in VAddr, NEW l \in Level
      PROVE  /\ Has(N, r, v, l) <=> Has(M, r, v, l)
             /\ Tab(N, r, v, l) = Tab(M, r, v, l)
             /\ Ent(N, r, v, l) = Ent(M, r, v, l)
  <2>1. ASSUME NEW j \in Level, Has(M, r, v, j)
        PROVE  N[Tab(M, r, v, j)] = M[Tab(M, r, v, j)]
    <3>1. Tab(M, r, v, j) \in Frame
      BY <2>1, PathInMemory
    <3>2. Tab(M, r, v, j) # g
      BY <2>1 DEF OffPath
    <3> QED
      BY <1>2, <3>1, <3>2
  <2>2. Follows(M, N, r, v, v, 5)
    BY <2>1 DEF Follows
  <2>3. SameTo(M, N, r, v, v, 5)
    BY <2>2, SamePath
  <2>4. l < 5 /\ l <= 5
    BY DEF Level
  <2> QED
    BY <2>3, <2>4 DEF SameTo
<1>4. Writable(N, r)
  BY <1>3 DEF Writable, Sound, Tree
<1>5. Sound(N, r, T)
  BY <1>2, <1>3, <1>4, SoundSame
<1>6. OffPath(N, r, g)
  BY <1>3 DEF OffPath
<1> QED
  BY <1>1, <1>2, <1>3, <1>5, <1>6

(* Linking a cleared table that is on no path in the place of a missing    *)
(* one keeps the tree and every translation; the table is then w's.        *)
LEMMA LinkStore ==
  ASSUME NEW M, NEW r, NEW T, Sound(M, r, T),
         NEW w \in VAddr, NEW k \in 1 .. 3, Has(M, r, w, k),
         ~Ent(M, r, w, k).p,
         NEW g \in T, M[g] = Table(Zero), OffPath(M, r, g)
  PROVE  LET N == Store(M, r, w, k, Entry(g, {"VF_WRITE"})) IN
         /\ Sound(N, r, T)
         /\ Has(N, r, w, k + 1) /\ Tab(N, r, w, k + 1) = g
         /\ \A v \in VAddr : Ent(N, r, v, 4) = Ent(M, r, v, 4)
<1>0. /\ k \in Level /\ k + 1 \in Level /\ 4 \in Level
      /\ \A l \in Level : l <= k \/ l = k + 1 \/ l > k + 1
      /\ \A l \in Level : l <= k => l < k \/ l = k
  BY DEF Level
<1>1. PICK e : /\ e = Entry(g, {"VF_WRITE"})
               /\ e.p = TRUE /\ e.rw = TRUE /\ e.addr = g
  <2>1. Entry(g, {"VF_WRITE"}).p = TRUE /\ Entry(g, {"VF_WRITE"}).addr = g
    BY DEF Entry
  <2>2. Entry(g, {"VF_WRITE"}).rw = TRUE
    BY DEF Entry
  <2> QED
    BY <2>1, <2>2
<1>2. PICK N : N = Store(M, r, w, k, e)
  OBVIOUS
<1>3. Zero.p = FALSE
  BY DEF Zero
<1>4. Shape(N) /\ N[g] = Table(Zero)
  <2>1. g \in Frame
    BY DEF Sound
  <2>2. g # Tab(M, r, w, k)
    BY <1>0 DEF OffPath
  <2> QED
    BY <1>0, <1>2, <2>1, <2>2, StoreShape
<1>5. ASSUME NEW v \in VAddr, ~Agree(v, w, k + 1)
      PROVE  \A l \in Level : /\ Has(N, r, v, l) <=> Has(M, r, v, l)
                              /\ Tab(N, r, v, l) = Tab(M, r, v, l)
                              /\ Ent(N, r, v, l) = Ent(M, r, v, l)
  BY <1>0, <1>2, <1>5, StoreElsewhere
<1>6. ASSUME NEW v \in VAddr, Agree(v, w, k + 1)
      PROVE  /\ \A l \in Level :
                  /\ l <= k => /\ Has(N, r, v, l) /\ Has(M, r, v, l)
                               /\ Tab(N, r, v, l) = Tab(M, r, v, l)
                  /\ l < k => Ent(N, r, v, l) = Ent(M, r, v, l)
                  /\ l > k => ~Has(M, r, v, l) /\ Ent(M, r, v, l) = Zero
                  /\ l > k => Ent(N, r, v, l) = Zero
                  /\ l > k + 1 => ~Has(N, r, v, l)
             /\ Ent(N, r, v, k) = e
             /\ Has(N, r, v, k + 1) /\ Tab(N, r, v, k + 1) = g
  <2>1. /\ \A l \in Level :
             /\ l <= k => /\ Has(N, r, v, l) /\ Has(M, r, v, l)
                          /\ Tab(N, r, v, l) = Tab(M, r, v, l)
             /\ l < k => Ent(N, r, v, l) = Ent(M, r, v, l)
        /\ Ent(N, r, v, k) = e
        /\ Ent(M, r, v, k) = Ent(M, r, w, k)
    <3>1. PathTo(M, Store(M, r, w, k, e), r, v, w, k, e)
      BY <1>0, <1>6, StoreHere
    <3>2. PathTo(M, N, r, v, w, k, e)
      BY <1>2, <3>1
    <3> QED
      BY <3>2 DEF PathTo
  <2>2. ASSUME NEW l \in Level, l > k
        PROVE  ~Has(M, r, v, l) /\ Ent(M, r, v, l) = Zero
    <3>1. k < l
      BY <2>2
    <3>2. ~Has(M, r, v, l)
      BY <1>0, <2>1, <3>1, NoGap
    <3> QED
      BY <3>2, PathEnd
  <2>3. Has(N, r, v, k + 1) /\ Tab(N, r, v, k + 1) = g
    BY <1>1, <2>1, PathDown
  <2>4. Ent(N, r, v, k + 1) = Zero
    <3>1. Ent(N, r, v, k + 1) = N[g][vaddr_to_pg_ind(v, k + 1)]
      BY <1>0, <2>3, PathEntry
    <3>2. vaddr_to_pg_ind(v, k + 1) \in 0 .. MAX_RADIX - 1
      BY <1>0, IndexInTable
    <3> QED
      BY <1>4, <3>1, <3>2 DEF Table
  <2>5. ASSUME NEW l \in Level, l > k + 1
        PROVE  ~Has(N, r, v, l) /\ Ent(N, r, v, l) = Zero
    <3>1. k + 1 < l
      BY <2>5
    <3>2. ~Has(N, r, v, l)
      BY <1>0, <1>3, <2>4, <3>1, NoGap
    <3> QED
      BY <3>2, PathEnd
  <2>6. \A l \in Level : l > k => Ent(N, r, v, l) = Zero
    BY <1>0, <2>4, <2>5
  <2> QED
    BY <2>1, <2>2, <2>3, <2>5, <2>6
<1>7. ASSUME NEW v \in VAddr, NEW l \in Level, Has(N, r, v, l)
      PROVE  \/ Has(M, r, v, l) /\ Tab(N, r, v, l) = Tab(M, r, v, l)
             \/ l = k + 1 /\ Agree(v, w, k + 1) /\ Tab(N, r, v, l) = g
  <2>1. CASE Agree(v, w, k + 1)
    <3>1. l <= k \/ l = k + 1
      BY <1>0, <1>6, <1>7, <2>1
    <3>2. CASE l <= k
      BY <1>6, <2>1, <3>2
    <3>3. CASE l = k + 1
      BY <1>6, <2>1, <3>3
    <3> QED
      BY <3>1, <3>2, <3>3
  <2>2. CASE ~Agree(v, w, k + 1)
    BY <1>5, <1>7, <2>2
  <2> QED
    BY <2>1, <2>2
<1>8. InTables(N, r, T)
  BY <1>7 DEF InTables, Sound, Tree
<1>9. Writable(N, r)
  <2> SUFFICES ASSUME NEW v \in VAddr, NEW l \in Level, Ent(N, r, v, l).p
               PROVE  Ent(N, r, v, l).rw
    BY DEF Writable
  <2>1. Ent(M, r, v, l).p => Ent(M, r, v, l).rw
    BY DEF Sound, Tree, Writable
  <2>2. CASE Agree(v, w, k + 1)
    <3>1. l < k \/ l = k \/ l > k
      BY DEF Level
    <3>2. Ent(N, r, v, l) = Ent(M, r, v, l) \/ Ent(N, r, v, l) = e
            \/ Ent(N, r, v, l) = Zero
      BY <1>6, <2>2, <3>1
    <3> QED
      BY <1>1, <1>3, <2>1, <3>2
  <2>3. CASE ~Agree(v, w, k + 1)
    BY <1>5, <2>1, <2>3
  <2> QED
    BY <2>2, <2>3
<1>10. Unique(N, r)
  <2> SUFFICES ASSUME NEW v \in VAddr, NEW x \in VAddr,
                      NEW l \in Level, NEW m \in Level,
                      Has(N, r, v, l), Has(N, r, x, m),
                      Tab(N, r, v, l) = Tab(N, r, x, m)
               PROVE  l = m /\ Agree(v, x, l)
    BY DEF Unique
  <2> DEFINE Old(y, nr) == Has(M, r, y, nr) /\ Tab(N, r, y, nr) = Tab(M, r, y, nr)
             New(y, nr) == nr = k + 1 /\ Agree(y, w, k + 1) /\ Tab(N, r, y, nr) = g
  <2>1. (Old(v, l) \/ New(v, l)) /\ (Old(x, m) \/ New(x, m))
    BY <1>7
  <2>2. CASE Old(v, l) /\ Old(x, m)
    BY <2>2 DEF Sound, Tree, Unique
  <2>3. CASE New(v, l) /\ New(x, m)
    BY <2>3 DEF Agree
  <2>4. CASE Old(v, l) /\ New(x, m)
    BY <2>4 DEF OffPath
  <2>5. CASE New(v, l) /\ Old(x, m)
    BY <2>5 DEF OffPath
  <2> QED
    BY <2>1, <2>2, <2>3, <2>4, <2>5
<1>11. Sound(N, r, T)
  BY <1>4, <1>8, <1>9, <1>10 DEF Sound, Tree
<1>12. Has(N, r, w, k + 1) /\ Tab(N, r, w, k + 1) = g
  <2>1. Agree(w, w, k + 1)
    BY DEF Agree
  <2> QED
    BY <1>6, <2>1
<1>13. ASSUME NEW v \in VAddr PROVE Ent(N, r, v, 4) = Ent(M, r, v, 4)
  <2>1. 4 > k
    OBVIOUS
  <2> QED
    BY <1>0, <1>5, <1>6, <2>1
<1> QED
  BY <1>1, <1>2, <1>11, <1>12, <1>13

(* A cleared pml4 alone is sound and maps nothing.                         *)
LEMMA ClearedRoot ==
  ASSUME NEW M, NEW r \in Frame, Shape(M), M[r] = Table(Zero)
  PROVE  /\ Sound(M, r, {r})
         /\ \A v \in VAddr : Ent(M, r, v, 4) = Zero
<1>1. ASSUME NEW v \in VAddr, NEW l \in Level
      PROVE  /\ Has(M, r, v, l) => l = 1 /\ Tab(M, r, v, l) = r
             /\ Ent(M, r, v, l) = Zero
  <2>1. 1 \in Level /\ (l = 1 \/ 1 < l)
    BY DEF Level
  <2>2. Ent(M, r, v, 1) = Zero
    <3>1. Ent(M, r, v, 1) = M[r][vaddr_to_pg_ind(v, 1)]
      BY <2>1, PathTop, PathEntry
    <3>2. vaddr_to_pg_ind(v, 1) \in 0 .. MAX_RADIX - 1
      BY <2>1, IndexInTable
    <3> QED
      BY <3>1, <3>2 DEF Table
  <2>3. CASE l = 1
    BY <2>2, <2>3, PathTop
  <2>4. CASE 1 < l
    <3>1. ~Has(M, r, v, l)
      BY <2>1, <2>2, <2>4, NoGap DEF Zero
    <3> QED
      BY <3>1, PathEnd
  <2> QED
    BY <2>1, <2>3, <2>4
<1>2. InTables(M, r, {r})
  BY <1>1 DEF InTables
<1>3. Writable(M, r)
  BY <1>1 DEF Writable, Zero
<1>4. Unique(M, r)
  BY <1>1 DEF Unique, Agree, Level
<1> QED
  BY <1>1, <1>2, <1>3, <1>4, Radixes DEF Sound, Tree

-----------------------------------------------------------------------------
(* What vmm_init maps: anything, then every usable frame to itself, then   *)
(* nothing that is usable.                                                 *)
LEMMA CatOrdered ==
  ASSUME NEW P \in Seq(Requests), NEW I \in Seq(Requests), NEW S \in Seq(Requests),
         \A u \in UsableFrames : Pending(I, u),
         \A nr \in DOMAIN I : I[nr] = Request(I[nr].vaddr, I[nr].vaddr),
         \A nr \in DOMAIN S : S[nr].vaddr \notin UsableFrames
  PROVE  /\ (P \o I) \o S \in Seq(Requests)
         /\ Ordered((P \o I) \o S)
         /\ \A u \in UsableFrames : Pending((P \o I) \o S, u)
<1>1. PICK B : B = (P \o I) \o S
  OBVIOUS
<1>2. PICK p \in Nat, i \in Nat, q \in Nat :
        p = Len(P) /\ i = Len(I) /\ q = Len(S)
  OBVIOUS
<1>3. B \in Seq(Requests) /\ DOMAIN B = 1 .. (p + i + q)
  BY <1>1, <1>2
<1>4. /\ \A nr \in DOMAIN I : p + nr \in DOMAIN B /\ B[p + nr] = I[nr]
      /\ \A nr \in DOMAIN B :
           \/ nr <= p
           \/ \E k \in DOMAIN I : B[nr] = I[k]
           \/ \E k \in DOMAIN S : B[nr] = S[k]
  <2>1. DOMAIN I = 1 .. i /\ DOMAIN S = 1 .. q /\ DOMAIN P = 1 .. p
    BY <1>2
  <2>2. ASSUME NEW nr \in DOMAIN I PROVE p + nr \in DOMAIN B /\ B[p + nr] = I[nr]
    BY <1>1, <1>2, <1>3, <2>1
  <2>3. ASSUME NEW nr \in DOMAIN B, ~(nr <= p), nr <= p + i
        PROVE  \E k \in DOMAIN I : B[nr] = I[k]
    <3>1. nr - p \in DOMAIN I /\ B[nr] = I[nr - p]
      BY <1>1, <1>2, <1>3, <2>1, <2>3
    <3> QED
      BY <3>1
  <2>4. ASSUME NEW nr \in DOMAIN B, ~(nr <= p + i)
        PROVE  \E k \in DOMAIN S : B[nr] = S[k]
    <3>1. nr - (p + i) \in DOMAIN S /\ B[nr] = S[nr - (p + i)]
      BY <1>1, <1>2, <1>3, <2>1, <2>4
    <3> QED
      BY <3>1
  <2> QED
    BY <2>2, <2>3, <2>4
<1>5. Ordered(B)
  <2> SUFFICES ASSUME NEW u \in UsableFrames, NEW nr \in DOMAIN B,
                      B[nr].vaddr = u, B[nr] # Request(u, u)
               PROVE  \E k \in DOMAIN B : nr < k /\ B[k] = Request(u, u)
    BY DEF Ordered
  <2>1. nr <= p
    BY <1>4
  <2>2. PICK m \in DOMAIN I : I[m] = Request(u, u)
    BY DEF Pending
  <2>3. p + m \in DOMAIN B /\ B[p + m] = Request(u, u)
    BY <1>4, <2>2
  <2>4. nr < p + m
    BY <1>2, <1>3, <2>1
  <2> QED
    BY <2>3, <2>4
<1>6. \A u \in UsableFrames : Pending(B, u)
  BY <1>4 DEF Pending
<1> QED
  BY <1>1, <1>3, <1>5, <1>6

(* So it is with BootMaps.                                                 *)
LEMMA BootMapsOrdered ==
  /\ BootMaps \in Seq(Requests)
  /\ Ordered(BootMaps)
  /\ \A u \in UsableFrames : Pending(BootMaps, u)
<1> DEFINE A == [nr \in 1 .. LowPages |-> Request(nr - 1, nr - 1)]
           I == Identity(Usable)
           S == [nr \in DOMAIN KStkVaddrs |-> Request(KStkVaddrs[nr], ToBeAllocated)]
<1>1. A \in Seq(Requests)
  <2>1. \A nr \in 1 .. LowPages : nr - 1 \in Frame /\ nr - 1 \in VAddr
    BY VmmAssumption
  <2>2. \A nr \in 1 .. LowPages : Request(nr - 1, nr - 1) \in Requests
    BY <2>1 DEF Request, Requests
  <2> QED
    BY <2>2, VmmAssumption
<1>2. KernelMap \in Seq(Requests)
  <2>0. PICK K : K = [vaddr : VAddr, paddr : Frame]
    OBVIOUS
  <2>1. K \subseteq Requests
    BY <2>0 DEF Requests
  <2>a. KernelMap \in Seq(K)
    BY <2>0, VmmAssumption
  <2>2. /\ Len(KernelMap) \in Nat /\ DOMAIN KernelMap = 1 .. Len(KernelMap)
        /\ \A nr \in 1 .. Len(KernelMap) : KernelMap[nr] \in K
    BY <2>a
  <2>3. KernelMap = [nr \in 1 .. Len(KernelMap) |-> KernelMap[nr]]
    BY <2>a, <2>2
  <2>4. \A nr \in 1 .. Len(KernelMap) : KernelMap[nr] \in Requests
    BY <2>1, <2>2
  <2>5. [nr \in 1 .. Len(KernelMap) |-> KernelMap[nr]] \in Seq(Requests)
    BY <2>2, <2>4
  <2> QED
    BY <2>3, <2>5
<1>3. /\ I \in Seq(Requests)
      /\ \A u \in UsableFrames : Pending(I, u)
      /\ \A nr \in DOMAIN I : I[nr] = Request(I[nr].vaddr, I[nr].vaddr)
  <2>1. /\ DOMAIN Usable = 1 .. Len(Usable) /\ Len(Usable) \in Nat
        /\ \A nr \in DOMAIN Usable : Usable[nr] \in Frame /\ Usable[nr] \in VAddr
    BY VmmAssumption
  <2>2. /\ DOMAIN I = DOMAIN Usable
        /\ \A nr \in DOMAIN Usable : I[nr] = Request(Usable[nr], Usable[nr])
    BY DEF Identity
  <2>3. \A nr \in DOMAIN Usable : Request(Usable[nr], Usable[nr]) \in Requests
    BY <2>1 DEF Request, Requests
  <2>4. I \in Seq(Requests)
    BY <2>1, <2>3 DEF Identity
  <2>5. \A u \in UsableFrames : Pending(I, u)
    BY <2>2 DEF Pending, UsableFrames
  <2>6. \A nr \in DOMAIN I : I[nr] = Request(I[nr].vaddr, I[nr].vaddr)
    BY <2>2 DEF Request
  <2> QED
    BY <2>4, <2>5, <2>6
<1>4. S \in Seq(Requests) /\ \A nr \in DOMAIN S : S[nr].vaddr \notin UsableFrames
  <2>1. /\ DOMAIN KStkVaddrs = 1 .. Len(KStkVaddrs) /\ Len(KStkVaddrs) \in Nat
        /\ \A nr \in DOMAIN KStkVaddrs : /\ KStkVaddrs[nr] \in VAddr
                                        /\ KStkVaddrs[nr] \notin UsableFrames
    BY VmmAssumption
  <2>2. \A nr \in DOMAIN KStkVaddrs :
          /\ Request(KStkVaddrs[nr], ToBeAllocated) \in Requests
          /\ Request(KStkVaddrs[nr], ToBeAllocated).vaddr = KStkVaddrs[nr]
    BY <2>1 DEF Request, Requests
  <2>3. S \in Seq(Requests)
    BY <2>1, <2>2
  <2> QED
    BY <2>1, <2>2, <2>3
<1>5. BootMaps = ((A \o KernelMap) \o I) \o S
  BY DEF BootMaps
<1> HIDE DEF A, I, S
<1>6. A \o KernelMap \in Seq(Requests)
  BY <1>1, <1>2
<1> QED
  BY <1>3, <1>4, <1>5, <1>6, CatOrdered

(* The order survives taking the first request off.                        *)
LEMMA TailOrdered ==
  ASSUME NEW s \in Seq(Requests), s # <<>>, Ordered(s)
  PROVE  /\ Head(s) \in Requests /\ Tail(s) \in Seq(Requests)
         /\ Ordered(Tail(s))
         /\ \A u \in UsableFrames :
              /\ Pending(s, u) => Head(s) = Request(u, u) \/ Pending(Tail(s), u)
              /\ Head(s).vaddr = u /\ Head(s) # Request(u, u) => Pending(Tail(s), u)
<1>1. PICK t : t = Tail(s)
  OBVIOUS
<1>2. PICK k \in Nat : Len(s) = k + 1
  BY EmptySeq, LenProperties
<1>3. /\ t \in Seq(Requests) /\ DOMAIN t = 1 .. k /\ DOMAIN s = 1 .. k + 1
      /\ \A nr \in 1 .. k : t[nr] = s[nr + 1]
      /\ Head(s) = s[1] /\ Head(s) \in Requests
  BY <1>1, <1>2, HeadTailProperties
<1>4. \A nr \in DOMAIN s : nr # 1 => nr - 1 \in DOMAIN t /\ t[nr - 1] = s[nr]
  BY <1>3
<1>5. Ordered(t)
  <2> SUFFICES ASSUME NEW u \in UsableFrames, NEW nr \in DOMAIN t,
                      t[nr].vaddr = u, t[nr] # Request(u, u)
               PROVE  \E m \in DOMAIN t : nr < m /\ t[m] = Request(u, u)
    BY DEF Ordered
  <2>1. nr + 1 \in DOMAIN s /\ s[nr + 1] = t[nr] /\ nr \in Nat
    BY <1>3
  <2>2. PICK m \in DOMAIN s : nr + 1 < m /\ s[m] = Request(u, u)
    BY <2>1 DEF Ordered
  <2>3. m - 1 \in DOMAIN t /\ t[m - 1] = Request(u, u) /\ nr < m - 1
    BY <1>3, <1>4, <2>1, <2>2
  <2> QED
    BY <2>3
<1>6. ASSUME NEW u \in UsableFrames, NEW nr \in DOMAIN s, s[nr] = Request(u, u)
      PROVE  nr = 1 \/ Pending(t, u)
  BY <1>4, <1>6 DEF Pending
<1>7. ASSUME NEW u \in UsableFrames, Pending(s, u)
      PROVE  Head(s) = Request(u, u) \/ Pending(t, u)
  BY <1>3, <1>6, <1>7 DEF Pending
<1>8. ASSUME NEW u \in UsableFrames, Head(s).vaddr = u, Head(s) # Request(u, u)
      PROVE  Pending(t, u)
  <2>1. 1 \in DOMAIN s
    BY <1>3
  <2>2. PICK m \in DOMAIN s : 1 < m /\ s[m] = Request(u, u)
    BY <1>3, <1>8, <2>1 DEF Ordered
  <2> QED
    BY <1>6, <2>2
<1> QED
  BY <1>1, <1>3, <1>5, <1>7, <1>8

-----------------------------------------------------------------------------
(* The steps.  What a step may do to the walker's view (WalkerSafe).       *)
SafeStep ==
  \A v \in VAddr : Walk(v)' # Walk(v) =>
    /\ v = call.vaddr
    /\ Walk(v)' \in {Unmapped, [addr |-> call.paddr, p |-> TRUE,
                                rw |-> "VF_WRITE" \in call.flags]}

(* Usable memory is frames, and has addresses.                             *)
LEMMA UsableIsMemory ==
  UsableFrames \subseteq Frame /\ UsableFrames \subseteq VAddr
<1>1. /\ DOMAIN Usable = 1 .. Len(Usable)
      /\ \A nr \in DOMAIN Usable : Usable[nr] \in Frame /\ Usable[nr] \in VAddr
  BY VmmAssumption
<1> QED
  BY <1>1 DEF UsableFrames

(* pmm_alloc, when it has not failed.                                      *)
LEMMA Allocated ==
  ASSUME NEW f, pmm_alloc(f), ~exhausted'
  PROVE  ~exhausted /\ f \in free /\ free' = free \ {f}
  BY DEF pmm_alloc

(* A step that leaves memory alone leaves every translation alone.         *)
LEMMA WalkKept ==
  ASSUME mem' = mem, pml4' = pml4
  PROVE  (\A v \in VAddr : Walk(v)' = Walk(v)) /\ SafeStep
<1>1. \A v \in VAddr : Walk(v)' = Walk(v)
  BY WalkIs
<1> QED
  BY <1>1 DEF SafeStep

(* Translations are those of the last entries.                             *)
LEMMA WalkEntries ==
  ASSUME Sound(mem, pml4, tables), NEW T, Sound(mem', pml4', T)
  PROVE  \A v \in VAddr : /\ Walk(v) = Means(Ent(mem, pml4, v, 4))
                          /\ Walk(v)' = Means(Ent(mem', pml4', v, 4))
<1>1. Writable(mem, pml4) /\ Writable(mem', pml4')
  BY DEF Sound, Tree
<1>2. TAKE v \in VAddr
<1>3. Walk(v) = WalkIn(mem, pml4, v) /\ Walk(v)' = WalkIn(mem', pml4', v)
  BY WalkIs
<1> QED
  BY <1>1, <1>3, WalkMeans

(* Steps in the middle of a call, in which no translation changes.         *)
LEMMA QuietStep ==
  ASSUME Honest, TlbOK, \A v \in VAddr : Walk(v)' = Walk(v),
         asked' = asked, tlb' = tlb, active' = active,
         stage \in {"walk", "link"}, stage' \in {"walk", "link"},
         call'.vaddr = call.vaddr
  PROVE  Honest' /\ TlbOK'
<1>1. Honest'
  BY DEF Honest
<1>2. TlbOK'
  BY DEF TlbOK, InCall
<1> QED
  BY <1>1, <1>2

(* Steps in the middle of a call that record nothing.                      *)
LEMMA BootStay ==
  ASSUME BootOK, todo' = todo, asked' = asked, active' = active,
         Working, Working', call'.op = call.op,
         call'.vaddr = call.vaddr, call'.paddr = call.paddr
  PROVE  BootOK'
<1>1. \A u \in UsableFrames : MappedOrPending(u)'
  BY DEF BootOK, MappedOrPending
<1> QED
  BY <1>1 DEF BootOK

(* The table the call stands at, and its page's entry in it.               *)
LEMMA AtTable ==
  ASSUME Inv, stage \in {"walk", "link", "flags"}
  PROVE  /\ Sound(mem, pml4, tables) /\ CallOK /\ Honest /\ TlbOK /\ BootOK
         /\ call \in Calls /\ call.vaddr \in VAddr /\ call.l \in Level
         /\ Has(mem, pml4, call.vaddr, call.l)
         /\ call.cur = Tab(mem, pml4, call.vaddr, call.l)
         /\ call.cur \in tables
         /\ Cur = Ent(mem, pml4, call.vaddr, call.l)
         /\ \A e : [mem EXCEPT ![call.cur][Ind] = e]
                     = Store(mem, pml4, call.vaddr, call.l, e)
<1>1. Sound(mem, pml4, tables) /\ CallOK /\ Honest /\ TlbOK /\ BootOK
  BY DEF Inv
<1>2. call \in Calls
  BY <1>1 DEF CallOK, InCall
<1>3. call.vaddr \in VAddr /\ call.l \in Level
  BY <1>2 DEF Calls
<1>4. /\ Has(mem, pml4, call.vaddr, call.l)
      /\ call.cur = Tab(mem, pml4, call.vaddr, call.l)
  BY <1>1 DEF CallOK, Working
<1>5. call.cur \in tables
  BY <1>1, <1>3, <1>4, PathInMemory
<1>6. Cur = Ent(mem, pml4, call.vaddr, call.l)
  BY <1>3, <1>4, PathEntry DEF Cur, Ind
<1>7. \A e : [mem EXCEPT ![call.cur][Ind] = e]
               = Store(mem, pml4, call.vaddr, call.l, e)
  BY <1>4 DEF Store, Ind
<1> QED
  BY <1>1, <1>2, <1>3, <1>4, <1>5, <1>6, <1>7

(* paging_create_map leaves an empty map.                                  *)
LEMMA CreateStep ==
  ASSUME Inv, ~exhausted', create_map
  PROVE  Inv'
<1>1. PICK f \in Frame : /\ pmm_alloc(f) /\ pml4' = f /\ tables' = {f}
                         /\ mem' = [mem EXCEPT ![f] = Table(Zero)]
  BY DEF create_map
<1>2. f \in free /\ free' = free \ {f}
  BY <1>1, Allocated
<1>3. Shape(mem') /\ mem'[f] = Table(Zero)
  BY <1>1 DEF Inv, MemOK, Shape, Table
<1>4. Sound(mem', pml4', tables') /\ \A v \in VAddr : Ent(mem', pml4', v, 4) = Zero
  BY <1>1, <1>3, ClearedRoot
<1>5. MemOK'
  BY <1>1, <1>2, <1>3 DEF Inv, MemOK
<1>6. stage' = "boot" /\ todo' = BootMaps /\ active' = FALSE /\ tlb' = <<>>
      /\ asked' = [v \in VAddr |-> Unmapped]
  BY DEF create_map, Inv, NotYet
<1>7. CallOK'
  BY <1>6 DEF CallOK, InCall, Working
<1>8. Honest'
  <2>1. Writable(mem', pml4')
    BY <1>4 DEF Sound, Tree
  <2>2. ASSUME NEW v \in VAddr PROVE Walk(v)' = Unmapped
    <3>1. Walk(v)' = Means(Ent(mem', pml4', v, 4))
      BY <2>1, WalkIs, WalkMeans
    <3> QED
      BY <1>4, <3>1 DEF Means, Zero
  <2> QED
    BY <1>6, <2>2 DEF Honest
<1>9. TlbOK'
  <2>1. DOMAIN tlb' = {}
    BY <1>6
  <2> QED
    BY <1>6, <2>1 DEF TlbOK
<1>10. BootOK'
  BY <1>6, BootMapsOrdered DEF BootOK, MappedOrPending
<1>11. NotYet'
  BY <1>6 DEF NotYet
<1> QED
  BY <1>4, <1>5, <1>6, <1>7, <1>8, <1>9, <1>10, <1>11 DEF Inv

(* next_pg_dir and some_next_pg_dir go down one level.                     *)
LEMMA DescendStep ==
  ASSUME Inv, descend
  PROVE  Inv' /\ SafeStep
<1>1. /\ stage = "walk" /\ stage' = "walk" /\ call.l < 4 /\ Cur.p
      /\ call' = [call EXCEPT !.cur = Cur.addr, !.l = @ + 1]
      /\ UNCHANGED <<mem, free, pml4, active, todo, tlb, tables, asked>>
  BY DEF descend
<1>2. /\ Sound(mem, pml4, tables) /\ CallOK /\ Honest /\ TlbOK /\ BootOK
      /\ call \in Calls /\ call.vaddr \in VAddr /\ call.l \in Level
      /\ Has(mem, pml4, call.vaddr, call.l)
      /\ Cur = Ent(mem, pml4, call.vaddr, call.l)
  BY <1>1, AtTable
<1>3. call.l \in 1 .. 3 /\ call.l + 1 \in Level
  BY <1>1, <1>2 DEF Level
<1>4. /\ Has(mem, pml4, call.vaddr, call.l + 1)
      /\ Tab(mem, pml4, call.vaddr, call.l + 1) = Cur.addr
  BY <1>1, <1>2, <1>3, PathDown
<1>5. Cur.addr \in Frame
  BY <1>2, <1>3, <1>4, PathInMemory
<1>6. /\ call' \in Calls /\ call'.op = call.op /\ call'.vaddr = call.vaddr
      /\ call'.paddr = call.paddr /\ call'.flags = call.flags
      /\ call'.l = call.l + 1 /\ call'.cur = Cur.addr
  BY <1>1, <1>2, <1>3, <1>5 DEF Calls
<1>7. CallOK'
  BY <1>1, <1>2, <1>4, <1>6 DEF CallOK, InCall, Working
<1>8. (\A v \in VAddr : Walk(v)' = Walk(v)) /\ SafeStep
  BY <1>1, WalkKept
<1>9. Honest' /\ TlbOK'
  BY <1>1, <1>2, <1>6, <1>8, QuietStep
<1>10. BootOK'
  BY <1>1, <1>2, <1>6, BootStay DEF Working
<1> QED
  BY <1>1, <1>2, <1>7, <1>8, <1>9, <1>10 DEF Inv, MemOK, NotYet

(* next_pg_dir takes and clears a frame that is on no path.                *)
LEMMA NewDirStep ==
  ASSUME Inv, ~exhausted', new_dir
  PROVE  Inv' /\ SafeStep
<1>1. /\ stage = "walk" /\ stage' = "link" /\ call.op = "map" /\ call.l < 4 /\ ~Cur.p
      /\ UNCHANGED <<pml4, active, todo, tlb, asked>>
  BY DEF new_dir
<1>2. PICK f \in Frame : /\ pmm_alloc(f) /\ tables' = tables \cup {f}
                         /\ mem' = [mem EXCEPT ![f] = Table(Zero)]
                         /\ call' = [call EXCEPT !.new = f]
  BY DEF new_dir
<1>3. f \in free /\ free' = free \ {f}
  BY <1>2, Allocated
<1>4. /\ Sound(mem, pml4, tables) /\ CallOK /\ Honest /\ TlbOK /\ BootOK
      /\ call \in Calls /\ call.vaddr \in VAddr /\ call.l \in Level
      /\ Has(mem, pml4, call.vaddr, call.l)
      /\ call.cur = Tab(mem, pml4, call.vaddr, call.l)
      /\ Cur = Ent(mem, pml4, call.vaddr, call.l)
  BY <1>1, AtTable
<1>5. OffPath(mem, pml4, f)
  <2>1. f \notin tables
    BY <1>3 DEF Inv, MemOK
  <2> QED
    BY <1>4, <2>1 DEF OffPath, Sound, Tree, InTables
<1>6. /\ Sound(mem', pml4, tables) /\ mem'[f] = Table(Zero)
      /\ OffPath(mem', pml4, f)
      /\ \A v \in VAddr, l \in Level :
           /\ Has(mem', pml4, v, l) <=> Has(mem, pml4, v, l)
           /\ Tab(mem', pml4, v, l) = Tab(mem, pml4, v, l)
           /\ Ent(mem', pml4, v, l) = Ent(mem, pml4, v, l)
  <2>1. mem' = Clear(mem, f)
    BY <1>2 DEF Clear
  <2> QED
    BY <1>4, <1>5, <2>1, ClearFrame
<1>7. Sound(mem', pml4', tables')
  BY <1>1, <1>2, <1>6 DEF Sound, Tree, InTables
<1>8. MemOK'
  BY <1>2, <1>3, <1>7 DEF Inv, MemOK, Sound
<1>9. /\ call' \in Calls /\ call'.op = call.op /\ call'.vaddr = call.vaddr
      /\ call'.paddr = call.paddr /\ call'.flags = call.flags
      /\ call'.l = call.l /\ call'.cur = call.cur /\ call'.new = f
  BY <1>2, <1>4 DEF Calls
<1>10. CallOK'
  <2>1. /\ call' \in Calls /\ call'.op = "map"
        /\ active' => call'.vaddr \in CurVaddrs
        /\ call'.flags = {"VF_WRITE"}
    BY <1>1, <1>4, <1>9 DEF CallOK, InCall
  <2>2. /\ Has(mem', pml4', call'.vaddr, call'.l)
        /\ call'.cur = Tab(mem', pml4', call'.vaddr, call'.l)
    BY <1>1, <1>4, <1>6, <1>9
  <2>3. /\ call'.l < 4 /\ call'.new \in tables'
        /\ mem'[call'.new] = Table(Zero)
        /\ OffPath(mem', pml4', call'.new)
    BY <1>1, <1>2, <1>6, <1>9
  <2>4. Ent(mem', pml4', call'.vaddr, call'.l) = Cur
    BY <1>1, <1>4, <1>6, <1>9
  <2> QED
    BY <1>1, <2>1, <2>2, <2>3, <2>4 DEF CallOK, InCall, Working
<1>11. \A v \in VAddr : Walk(v)' = Walk(v)
  <2>1. \A v \in VAddr : /\ Walk(v) = Means(Ent(mem, pml4, v, 4))
                         /\ Walk(v)' = Means(Ent(mem', pml4', v, 4))
    BY <1>4, <1>7, WalkEntries
  <2> QED
    BY <1>1, <1>6, <2>1, Radixes
<1>12. Honest' /\ TlbOK'
  BY <1>1, <1>4, <1>9, <1>11, QuietStep
<1>13. BootOK'
  BY <1>1, <1>4, <1>9, BootStay DEF Working
<1> QED
  BY <1>1, <1>7, <1>8, <1>10, <1>11, <1>12, <1>13 DEF Inv, NotYet, SafeStep

(* next_pg_dir links the cleared table in.                                 *)
LEMMA LinkStep ==
  ASSUME Inv, link_dir
  PROVE  Inv' /\ SafeStep
<1>1. /\ stage = "link" /\ stage' = "walk"
      /\ mem' = [mem EXCEPT ![call.cur][Ind] = Entry(call.new, call.flags)]
      /\ call' = [call EXCEPT !.cur = call.new, !.l = @ + 1, !.new = 0]
      /\ UNCHANGED <<free, pml4, active, todo, tlb, tables, asked>>
  BY DEF link_dir
<1>2. /\ Sound(mem, pml4, tables) /\ CallOK /\ Honest /\ TlbOK /\ BootOK
      /\ call \in Calls /\ call.vaddr \in VAddr /\ call.l \in Level
      /\ Has(mem, pml4, call.vaddr, call.l)
      /\ \A e : [mem EXCEPT ![call.cur][Ind] = e]
                  = Store(mem, pml4, call.vaddr, call.l, e)
  BY <1>1, AtTable
<1>3. /\ call.op = "map" /\ call.l < 4 /\ call.flags = {"VF_WRITE"}
      /\ ~Ent(mem, pml4, call.vaddr, call.l).p
      /\ call.new \in tables /\ mem[call.new] = Table(Zero)
      /\ OffPath(mem, pml4, call.new)
  BY <1>1, <1>2 DEF CallOK, InCall
<1>4. call.l \in 1 .. 3 /\ call.l + 1 \in Level
  BY <1>2, <1>3 DEF Level
<1>5. mem' = Store(mem, pml4, call.vaddr, call.l, Entry(call.new, {"VF_WRITE"}))
  BY <1>1, <1>2, <1>3
<1>6. /\ Sound(mem', pml4, tables)
      /\ Has(mem', pml4, call.vaddr, call.l + 1)
      /\ Tab(mem', pml4, call.vaddr, call.l + 1) = call.new
      /\ \A v \in VAddr : Ent(mem', pml4, v, 4) = Ent(mem, pml4, v, 4)
  <2>1. PICK w \in VAddr, k \in 1 .. 3, g \in tables :
          w = call.vaddr /\ k = call.l /\ g = call.new
    BY <1>2, <1>3, <1>4
  <2> QED
    BY <1>2, <1>3, <1>5, <2>1, LinkStore
<1>7. Sound(mem', pml4', tables') /\ MemOK'
  BY <1>1, <1>6 DEF Inv, MemOK, Sound
<1>8. /\ call' \in Calls /\ call'.op = call.op /\ call'.vaddr = call.vaddr
      /\ call'.paddr = call.paddr /\ call'.flags = call.flags
      /\ call'.l = call.l + 1 /\ call'.cur = call.new
  <2>1. call.new \in Frame /\ 0 \in Frame
    BY <1>2, <1>3, VmmAssumption DEF Sound, PHYS_ADDR_NULL
  <2> QED
    BY <1>1, <1>2, <1>4, <2>1 DEF Calls
<1>9. CallOK'
  <2>1. /\ call' \in Calls /\ call'.op = "map"
        /\ active' => call'.vaddr \in CurVaddrs
        /\ call'.flags = {"VF_WRITE"}
    BY <1>1, <1>2, <1>3, <1>8 DEF CallOK, InCall
  <2>2. /\ Has(mem', pml4', call'.vaddr, call'.l)
        /\ call'.cur = Tab(mem', pml4', call'.vaddr, call'.l)
    BY <1>1, <1>6, <1>8
  <2> QED
    BY <1>1, <2>1, <2>2 DEF CallOK, InCall, Working
<1>10. \A v \in VAddr : Walk(v)' = Walk(v)
  <2>1. \A v \in VAddr : /\ Walk(v) = Means(Ent(mem, pml4, v, 4))
                         /\ Walk(v)' = Means(Ent(mem', pml4', v, 4))
    BY <1>2, <1>7, WalkEntries
  <2> QED
    BY <1>1, <1>6, <2>1
<1>11. Honest' /\ TlbOK'
  BY <1>1, <1>2, <1>8, <1>10, QuietStep
<1>12. BootOK'
  BY <1>1, <1>2, <1>8, BootStay DEF Working
<1> QED
  BY <1>1, <1>7, <1>9, <1>10, <1>11, <1>12 DEF Inv, NotYet, SafeStep

(* A store into the last entry, seen by the walker.                        *)
LEMMA LastEntry ==
  ASSUME Inv, stage \in {"walk", "flags"}, call.l = 4, NEW e, e.p => e.rw,
         mem' = [mem EXCEPT ![call.cur][Ind] = e],
         UNCHANGED <<pml4, tables, free>>
  PROVE  /\ Sound(mem', pml4', tables') /\ MemOK'
         /\ Has(mem', pml4', call.vaddr, 4)
         /\ call.cur = Tab(mem', pml4', call.vaddr, 4)
         /\ \A v \in VAddr : v # call.vaddr => Walk(v)' = Walk(v)
         /\ \A v \in VAddr : v = call.vaddr => Walk(v)' = Means(e)
<1>1. /\ Sound(mem, pml4, tables) /\ call.vaddr \in VAddr
      /\ Has(mem, pml4, call.vaddr, 4)
      /\ call.cur = Tab(mem, pml4, call.vaddr, 4)
      /\ mem' = Store(mem, pml4, call.vaddr, 4, e)
  BY AtTable
<1>2. /\ Sound(mem', pml4, tables)
      /\ \A v \in VAddr, l \in Level :
           /\ Has(mem', pml4, v, l) <=> Has(mem, pml4, v, l)
           /\ Tab(mem', pml4, v, l) = Tab(mem, pml4, v, l)
      /\ \A v \in VAddr : Ent(mem', pml4, v, 4)
                            = IF v = call.vaddr THEN e ELSE Ent(mem, pml4, v, 4)
  <2>1. PICK w \in VAddr : w = call.vaddr
    BY <1>1
  <2>2. Has(mem, pml4, w, 4)
    BY <1>1, <2>1
  <2>3. /\ Sound(Store(mem, pml4, w, 4, e), pml4, tables)
        /\ \A v \in VAddr, l \in Level :
             /\ Has(Store(mem, pml4, w, 4, e), pml4, v, l)
                  <=> Has(mem, pml4, v, l)
             /\ Tab(Store(mem, pml4, w, 4, e), pml4, v, l) = Tab(mem, pml4, v, l)
        /\ \A v \in VAddr : Ent(Store(mem, pml4, w, 4, e), pml4, v, 4)
                              = IF v = w THEN e ELSE Ent(mem, pml4, v, 4)
    BY <1>1, <2>2, LeafStore
  <2> QED
    BY <1>1, <2>1, <2>3
<1>3. Sound(mem', pml4', tables') /\ MemOK'
  BY <1>2 DEF Inv, MemOK, Sound
<1>4. /\ Has(mem', pml4', call.vaddr, 4)
      /\ call.cur = Tab(mem', pml4', call.vaddr, 4)
  BY <1>1, <1>2, Radixes
<1>5. \A v \in VAddr : /\ Walk(v) = Means(Ent(mem, pml4, v, 4))
                       /\ Walk(v)' = Means(Ent(mem', pml4', v, 4))
  BY <1>1, <1>3, WalkEntries
<1>6. \A v \in VAddr : v # call.vaddr => Walk(v)' = Walk(v)
  BY <1>2, <1>5
<1>7. \A v \in VAddr : v = call.vaddr => Walk(v)' = Means(e)
  BY <1>2, <1>5
<1> QED
  BY <1>3, <1>4, <1>6, <1>7

(* paging_map's first store unmaps the page, ...                           *)
LEMMA MapAddrStep ==
  ASSUME Inv, map_addr
  PROVE  Inv' /\ SafeStep
<1>1. /\ stage = "walk" /\ stage' = "flags" /\ call.op = "map" /\ call.l = 4
      /\ mem' = [mem EXCEPT ![call.cur][Ind] = [Zero EXCEPT !.addr = call.paddr]]
      /\ UNCHANGED <<free, pml4, active, todo, call, tlb, tables, asked>>
  BY DEF map_addr
<1>2. PICK e : e = [Zero EXCEPT !.addr = call.paddr] /\ e.p = FALSE
  <2>1. [Zero EXCEPT !.addr = call.paddr].p = FALSE
    BY DEF Zero
  <2> QED
    BY <2>1
<1>3. /\ CallOK /\ Honest /\ TlbOK /\ BootOK
  BY <1>1, AtTable
<1>4. /\ Sound(mem', pml4', tables') /\ MemOK'
      /\ Has(mem', pml4', call.vaddr, 4)
      /\ call.cur = Tab(mem', pml4', call.vaddr, 4)
      /\ \A v \in VAddr : v # call.vaddr => Walk(v)' = Walk(v)
      /\ \A v \in VAddr : v = call.vaddr => Walk(v)' = Unmapped
  <2>1. Means(e) = Unmapped
    BY <1>2 DEF Means
  <2> QED
    BY <1>1, <1>2, <2>1, LastEntry
<1>5. CallOK'
  BY <1>1, <1>3, <1>4 DEF CallOK, InCall, Working
<1>6. Honest'
  BY <1>1, <1>3, <1>4 DEF Honest
<1>7. TlbOK'
  BY <1>1, <1>3, <1>4 DEF TlbOK, InCall
<1>8. BootOK'
  BY <1>1, <1>3, BootStay DEF Working
<1>9. SafeStep
  BY <1>4 DEF SafeStep
<1> QED
  BY <1>1, <1>4, <1>5, <1>6, <1>7, <1>8, <1>9 DEF Inv, NotYet

(* ... its second makes it the requested one.                              *)
LEMMA MapFlagsStep ==
  ASSUME Inv, map_flags
  PROVE  Inv' /\ SafeStep
<1>1. /\ stage = "flags" /\ stage' = "ret"
      /\ mem' = [mem EXCEPT ![call.cur][Ind] = Entry(call.paddr, call.flags)]
      /\ asked' = [asked EXCEPT ![call.vaddr] =
                     [addr |-> call.paddr, rw |-> "VF_WRITE" \in call.flags,
                      p |-> TRUE]]
      /\ UNCHANGED <<free, pml4, active, todo, call, tlb, tables>>
  BY DEF map_flags
<1>2. /\ CallOK /\ Honest /\ TlbOK /\ BootOK /\ call.vaddr \in VAddr
      /\ call.op = "map" /\ call.l = 4 /\ call.flags = {"VF_WRITE"}
  BY <1>1, AtTable DEF CallOK, InCall
<1>3. ("VF_WRITE" \in call.flags) = TRUE
  BY <1>2
<1>4. PICK e : /\ e = Entry(call.paddr, call.flags)
               /\ e.p = TRUE /\ e.rw = TRUE /\ e.addr = call.paddr
  <2>1. Entry(call.paddr, call.flags)
          = [p |-> TRUE, addr |-> call.paddr, rw |-> TRUE]
    BY <1>3 DEF Entry
  <2> QED
    BY <2>1
<1>5. PICK a : a = [addr |-> call.paddr, rw |-> TRUE, p |-> TRUE]
  OBVIOUS
<1>6. /\ Sound(mem', pml4', tables') /\ MemOK'
      /\ \A v \in VAddr : v # call.vaddr => Walk(v)' = Walk(v)
      /\ \A v \in VAddr : v = call.vaddr => Walk(v)' = a
  <2>1. Means(e) = a
    BY <1>4, <1>5 DEF Means
  <2> QED
    BY <1>1, <1>2, <1>4, <2>1, LastEntry
<1>7. asked' = [asked EXCEPT ![call.vaddr] = a]
  BY <1>1, <1>3, <1>5
<1>8. CallOK'
  BY <1>1, <1>2 DEF CallOK, InCall, Working
<1>9. Honest'
  BY <1>1, <1>2, <1>6, <1>7 DEF Honest
<1>10. TlbOK'
  BY <1>1, <1>2, <1>6 DEF TlbOK, InCall
<1>11. BootOK'
  <2>1. ASSUME NEW u \in UsableFrames PROVE MappedOrPending(u)'
    <3>1. MappedOrPending(u) /\ u \in VAddr
      BY <1>2, UsableIsMemory DEF BootOK
    <3>2. CASE Pending(todo, u)
      BY <1>1, <3>2 DEF MappedOrPending
    <3>3. CASE call.vaddr = u /\ call.paddr = u
      BY <1>1, <1>2, <1>5, <1>7, <3>3 DEF MappedOrPending, Working, Itself, Honest
    <3>4. CASE asked[u] = Itself(u) /\ (Working => call.vaddr # u)
      BY <1>1, <1>2, <1>7, <3>1, <3>4 DEF MappedOrPending, Working, Honest
    <3> QED
      BY <3>1, <3>2, <3>3, <3>4 DEF MappedOrPending
  <2> QED
    BY <1>1, <1>2, <2>1 DEF BootOK
<1>12. SafeStep
  <2>1. a = [addr |-> call.paddr, p |-> TRUE, rw |-> "VF_WRITE" \in call.flags]
    BY <1>3, <1>5
  <2> QED
    BY <1>6, <2>1 DEF SafeStep
<1> QED
  BY <1>1, <1>6, <1>8, <1>9, <1>10, <1>11, <1>12 DEF Inv, NotYet

(* What a call that unmaps leaves asked for.                               *)
LEMMA UnmapBoot ==
  ASSUME BootOK, CallOK, Honest, stage = "walk", stage' = "ret", call.op = "unmap",
         UNCHANGED <<todo, active, call>>,
         asked' = [asked EXCEPT ![call.vaddr] = Unmapped]
  PROVE  BootOK'
<1>1. active /\ call.vaddr \in CurVaddrs
  BY DEF CallOK, InCall
<1>2. ASSUME NEW u \in UsableFrames PROVE MappedOrPending(u)'
  <2>1. u # call.vaddr
    BY <1>1, VmmAssumption
  <2>2. MappedOrPending(u) /\ u \in VAddr
    BY UsableIsMemory DEF BootOK
  <2>3. Pending(todo, u) \/ asked[u] = Itself(u)
    BY <2>2 DEF MappedOrPending
  <2>4. asked'[u] = asked[u]
    BY <2>1, <2>2 DEF Honest
  <2> QED
    BY <2>3, <2>4 DEF MappedOrPending, Working
<1> QED
  BY <1>2 DEF BootOK

(* paging_unmap clears the page's entry, ...                               *)
LEMMA UnmapClearStep ==
  ASSUME Inv, unmap_clear
  PROVE  Inv' /\ SafeStep
<1>1. /\ stage = "walk" /\ stage' = "ret" /\ call.op = "unmap" /\ call.l = 4
      /\ mem' = [mem EXCEPT ![call.cur][Ind] = Zero]
      /\ asked' = [asked EXCEPT ![call.vaddr] = Unmapped]
      /\ UNCHANGED <<free, pml4, active, todo, call, tlb, tables>>
  BY DEF unmap_clear
<1>2. /\ CallOK /\ Honest /\ TlbOK /\ BootOK /\ call.vaddr \in VAddr
  BY <1>1, AtTable
<1>3. /\ Sound(mem', pml4', tables') /\ MemOK'
      /\ \A v \in VAddr : v # call.vaddr => Walk(v)' = Walk(v)
      /\ \A v \in VAddr : v = call.vaddr => Walk(v)' = Unmapped
  <2>1. Zero.p = FALSE /\ Means(Zero) = Unmapped
    BY DEF Zero, Means
  <2> QED
    BY <1>1, <2>1, LastEntry
<1>4. CallOK'
  BY <1>1, <1>2 DEF CallOK, InCall, Working
<1>5. Honest'
  BY <1>1, <1>2, <1>3 DEF Honest
<1>6. TlbOK'
  BY <1>1, <1>2, <1>3 DEF TlbOK, InCall
<1>7. BootOK'
  BY <1>1, <1>2, UnmapBoot
<1>8. SafeStep
  BY <1>3 DEF SafeStep
<1> QED
  BY <1>1, <1>3, <1>4, <1>5, <1>6, <1>7, <1>8 DEF Inv, NotYet

(* ... or finds that a table on the way is missing: the page is unmapped.  *)
LEMMA UnmapAbsentStep ==
  ASSUME Inv, unmap_absent
  PROVE  Inv' /\ SafeStep
<1>1. /\ stage = "walk" /\ stage' = "ret" /\ call.op = "unmap"
      /\ Lost \/ (call.l < 4 /\ ~Cur.p)
      /\ asked' = [asked EXCEPT ![call.vaddr] = Unmapped]
      /\ UNCHANGED <<mem, free, pml4, active, todo, call, tlb, tables>>
  BY DEF unmap_absent
<1>2. /\ Sound(mem, pml4, tables) /\ CallOK /\ Honest /\ TlbOK /\ BootOK
      /\ call.vaddr \in VAddr /\ call.l \in Level /\ call.cur \in tables
      /\ Cur = Ent(mem, pml4, call.vaddr, call.l)
  BY <1>1, AtTable
<1>3. ~Lost
  BY <1>2 DEF Lost, Inv, MemOK
<1>4. ~Has(mem, pml4, call.vaddr, 4)
  BY <1>1, <1>2, <1>3, NoGap, Radixes
<1>5. \A v \in VAddr : v = call.vaddr => Walk(v) = Unmapped
  <2>1. Ent(mem, pml4, call.vaddr, 4) = Zero
    BY <1>4, PathEnd, Radixes
  <2>2. \A v \in VAddr : Walk(v) = Means(Ent(mem, pml4, v, 4))
    BY <1>1, <1>2, WalkEntries
  <2> QED
    BY <2>1, <2>2 DEF Means, Zero
<1>6. (\A v \in VAddr : Walk(v)' = Walk(v)) /\ SafeStep
  BY <1>1, WalkKept
<1>7. CallOK'
  BY <1>1, <1>2 DEF CallOK, InCall, Working
<1>8. Honest'
  BY <1>1, <1>2, <1>5, <1>6 DEF Honest
<1>9. TlbOK'
  BY <1>1, <1>2, <1>6 DEF TlbOK, InCall
<1>10. BootOK'
  BY <1>1, <1>2, UnmapBoot
<1> QED
  BY <1>1, <1>2, <1>6, <1>7, <1>8, <1>9, <1>10 DEF Inv, NotYet, MemOK

(* A call begins at the pml4.                                              *)
LEMMA BeginCall ==
  ASSUME Sound(mem, pml4, tables), NEW op \in {"map", "unmap"},
         NEW v \in VAddr, NEW p \in Frame, NEW flags \in SUBSET {"VF_WRITE"},
         op = "map" => flags = {"VF_WRITE"}, op = "unmap" => active,
         active => v \in CurVaddrs,
         Begin(op, v, p, flags), UNCHANGED <<mem, pml4, active>>
  PROVE  /\ CallOK' /\ stage' = "walk" /\ call'.op = op
         /\ call'.vaddr = v /\ call'.paddr = p
<1>1. /\ stage' = "walk"
      /\ call' = [op |-> op, vaddr |-> v, paddr |-> p, flags |-> flags, l |-> 1,
                  cur |-> pml4, new |-> 0]
  BY DEF Begin
<1>2. pml4 \in Frame /\ 0 \in Frame /\ 1 \in Level
  BY VmmAssumption DEF Sound, PHYS_ADDR_NULL, Level
<1>3. /\ call' \in Calls /\ call'.op = op /\ call'.vaddr = v /\ call'.paddr = p
      /\ call'.flags = flags /\ call'.l = 1 /\ call'.cur = pml4
  BY <1>1, <1>2 DEF Calls
<1>4. Has(mem', pml4', v, 1) /\ Tab(mem', pml4', v, 1) = pml4
  BY PathTop
<1> QED
  BY <1>1, <1>3, <1>4 DEF CallOK, InCall, Working

(* vmm_init maps the next page.                                            *)
LEMMA BootStep ==
  ASSUME Inv, ~exhausted', boot_map
  PROVE  Inv' /\ SafeStep
<1> DEFINE req == Head(todo)
<1>1. /\ stage = "boot" /\ todo # <<>> /\ todo' = Tail(todo)
      /\ UNCHANGED <<mem, pml4, active, tlb, tables, asked>>
  BY DEF boot_map
<1>2. /\ Sound(mem, pml4, tables) /\ Honest /\ TlbOK /\ BootOK
  BY <1>1 DEF Inv
<1>3. ~active
  BY <1>1, <1>2 DEF TlbOK
<1>4. /\ req \in Requests /\ todo' \in Seq(Requests) /\ Ordered(todo')
      /\ \A u \in UsableFrames :
           /\ Pending(todo, u) => req = Request(u, u) \/ Pending(todo', u)
           /\ req.vaddr = u /\ req # Request(u, u) => Pending(todo', u)
  BY <1>1, <1>2, TailOrdered DEF BootOK
<1>5. req.vaddr \in VAddr /\ req.paddr \in Frame \cup {ToBeAllocated}
  BY <1>4 DEF Requests
<1>6. \E p \in Frame : /\ req.paddr = p \/ req.paddr = ToBeAllocated
                       /\ Begin("map", req.vaddr, p, {"VF_WRITE"})
                       /\ free' \subseteq free
  <2>1. CASE /\ req.paddr # ToBeAllocated
             /\ Begin("map", req.vaddr, req.paddr, {"VF_WRITE"})
             /\ UNCHANGED <<free, exhausted>>
    BY <1>5, <2>1
  <2>2. CASE /\ req.paddr = ToBeAllocated
             /\ \E f \in Frame :
                  pmm_alloc(f) /\ Begin("map", req.vaddr, f, {"VF_WRITE"})
    <3>1. PICK f \in Frame :
            pmm_alloc(f) /\ Begin("map", req.vaddr, f, {"VF_WRITE"})
      BY <2>2
    <3>2. free' = free \ {f}
      BY <3>1, Allocated
    <3> QED
      BY <2>2, <3>1, <3>2
  <2> QED
    BY <2>1, <2>2 DEF boot_map
<1>7. PICK p \in Frame : /\ req.paddr = p \/ req.paddr = ToBeAllocated
                         /\ Begin("map", req.vaddr, p, {"VF_WRITE"})
                         /\ free' \subseteq free
  BY <1>6
<1> HIDE DEF req
<1>8. /\ CallOK' /\ stage' = "walk" /\ call'.op = "map"
      /\ call'.vaddr = req.vaddr /\ call'.paddr = p
  <2>1. PICK v \in VAddr : v = req.vaddr
    BY <1>5
  <2>2. Begin("map", v, p, {"VF_WRITE"})
    BY <1>7, <2>1
  <2>3. {"VF_WRITE"} \in SUBSET {"VF_WRITE"} /\ "map" \in {"map", "unmap"}
    OBVIOUS
  <2>4. /\ CallOK' /\ stage' = "walk" /\ call'.op = "map"
        /\ call'.vaddr = v /\ call'.paddr = p
    BY <1>1, <1>2, <1>3, <2>2, <2>3, BeginCall
  <2> QED
    BY <2>1, <2>4
<1>9. (\A v \in VAddr : Walk(v)' = Walk(v)) /\ SafeStep
  BY <1>1, WalkKept
<1>10. Honest'
  BY <1>1, <1>2, <1>8, <1>9 DEF Honest
<1>11. TlbOK'
  BY <1>1, <1>2, <1>8, <1>9 DEF TlbOK, InCall
<1>12. BootOK'
  <2>1. ASSUME NEW u \in UsableFrames PROVE MappedOrPending(u)'
    <3>1. MappedOrPending(u)
      BY <1>2 DEF BootOK
    <3>2. CASE req = Request(u, u)
      <4>1. req.vaddr = u /\ req.paddr = u
        BY <3>2 DEF Request
      <4>2. u # ToBeAllocated
        BY UsableIsMemory, VmmAssumption DEF ToBeAllocated
      <4> QED
        BY <1>7, <1>8, <4>1, <4>2 DEF MappedOrPending, Working
    <3>3. CASE Pending(todo', u)
      BY <3>3 DEF MappedOrPending
    <3>4. CASE req # Request(u, u) /\ ~Pending(todo', u)
      <4>1. ~Pending(todo, u) /\ req.vaddr # u
        BY <1>4, <3>4
      <4> QED
        BY <1>1, <1>8, <3>1, <4>1 DEF MappedOrPending, Working
    <3> QED
      BY <3>2, <3>3, <3>4
  <2> QED
    BY <1>1, <1>3, <1>4, <2>1 DEF BootOK
<1>13. MemOK'
  BY <1>1, <1>7 DEF Inv, MemOK
<1> QED
  BY <1>1, <1>2, <1>8, <1>9, <1>10, <1>11, <1>12, <1>13 DEF Inv, NotYet

(* cpu_switch_mem_ctx loads the finished map.                              *)
LEMMA SwitchStep ==
  ASSUME Inv, switch_mem_ctx
  PROVE  Inv' /\ SafeStep
<1>1. /\ stage = "boot" /\ todo = <<>> /\ stage' = "idle"
      /\ active' = TRUE /\ tlb' = <<>>
      /\ UNCHANGED <<mem, free, pml4, todo, call, tables, asked>>
  BY DEF switch_mem_ctx
<1>2. /\ Sound(mem, pml4, tables) /\ Honest /\ BootOK
  BY <1>1 DEF Inv
<1>3. (\A v \in VAddr : Walk(v)' = Walk(v)) /\ SafeStep
  BY <1>1, WalkKept
<1>4. CallOK'
  BY <1>1 DEF CallOK, InCall, Working
<1>5. Honest'
  BY <1>1, <1>2, <1>3 DEF Honest
<1>6. TlbOK'
  <2>1. DOMAIN tlb' = {}
    BY <1>1
  <2> QED
    BY <1>1, <2>1 DEF TlbOK
<1>7. BootOK'
  <2>1. \A u \in UsableFrames : MappedOrPending(u)'
    BY <1>1, <1>2 DEF BootOK, MappedOrPending, Working
  <2> QED
    BY <1>1, <1>2, <2>1 DEF BootOK
<1> QED
  BY <1>1, <1>2, <1>3, <1>4, <1>5, <1>6, <1>7 DEF Inv, NotYet, MemOK

(* vmm_map_cur and vmm_unmap_cur begin, ...                                *)
LEMMA CurStep ==
  ASSUME Inv, ~exhausted', NEW v \in CurVaddrs, map_cur(v) \/ unmap_cur(v)
  PROVE  Inv' /\ SafeStep
<1>1. /\ stage = "idle" /\ v \in VAddr /\ v \notin UsableFrames
      /\ UNCHANGED <<mem, pml4, active, todo, tlb, tables, asked>>
  BY VmmAssumption DEF map_cur, unmap_cur
<1>2. /\ Sound(mem, pml4, tables) /\ Honest /\ TlbOK /\ BootOK /\ active
  BY <1>1 DEF Inv, TlbOK
<1>3. /\ CallOK' /\ stage' = "walk" /\ call'.vaddr = v /\ free' \subseteq free
  <2>1. CASE map_cur(v)
    <3>1. PICK f \in Frame : pmm_alloc(f) /\ Begin("map", v, f, {"VF_WRITE"})
      BY <2>1 DEF map_cur
    <3>2. free' = free \ {f}
      BY <3>1, Allocated
    <3>3. {"VF_WRITE"} \in SUBSET {"VF_WRITE"} /\ "map" \in {"map", "unmap"}
      OBVIOUS
    <3>4. CallOK' /\ stage' = "walk" /\ call'.vaddr = v
      BY <1>1, <1>2, <3>1, <3>3, BeginCall
    <3> QED
      BY <3>2, <3>4
  <2>2. CASE unmap_cur(v)
    <3>1. Begin("unmap", v, 0, {}) /\ free' = free
      BY <2>2 DEF unmap_cur
    <3>2. {} \in SUBSET {"VF_WRITE"} /\ "unmap" \in {"map", "unmap"} /\ 0 \in Frame
      BY VmmAssumption DEF PHYS_ADDR_NULL
    <3>3. CallOK' /\ stage' = "walk" /\ call'.vaddr = v
      BY <1>1, <1>2, <3>1, <3>2, BeginCall
    <3> QED
      BY <3>1, <3>3
  <2> QED
    BY <2>1, <2>2
<1>4. (\A w \in VAddr : Walk(w)' = Walk(w)) /\ SafeStep
  BY <1>1, WalkKept
<1>5. Honest'
  BY <1>1, <1>2, <1>3, <1>4 DEF Honest
<1>6. TlbOK'
  BY <1>1, <1>2, <1>3, <1>4 DEF TlbOK, InCall
<1>7. BootOK'
  <2>1. \A u \in UsableFrames : MappedOrPending(u)'
    BY <1>1, <1>2, <1>3 DEF BootOK, MappedOrPending, Working
  <2> QED
    BY <1>1, <1>2, <2>1 DEF BootOK
<1>8. MemOK'
  BY <1>1, <1>3 DEF Inv, MemOK
<1> QED
  BY <1>1, <1>2, <1>3, <1>4, <1>5, <1>6, <1>7, <1>8 DEF Inv, NotYet

(* ... invalidate the page and return.                                     *)
LEMMA RetStep ==
  ASSUME Inv, map_ret
  PROVE  Inv' /\ SafeStep
<1>1. /\ stage = "ret" /\ stage' = IF active THEN "idle" ELSE "boot"
      /\ tlb' = IF active
                THEN [v \in DOMAIN tlb \ {call.vaddr} |-> tlb[v]]
                ELSE tlb
      /\ UNCHANGED <<mem, free, pml4, active, todo, tables, asked>>
  BY DEF map_ret
<1>2. /\ Sound(mem, pml4, tables) /\ Honest /\ TlbOK /\ BootOK
  BY <1>1 DEF Inv
<1>3. stage' \in {"idle", "boot"}
  BY <1>1
<1>4. (\A w \in VAddr : Walk(w)' = Walk(w)) /\ SafeStep
  BY <1>1, WalkKept
<1>5. CallOK'
  BY <1>3 DEF CallOK, InCall, Working
<1>6. Honest'
  BY <1>1, <1>2, <1>3, <1>4 DEF Honest
<1>7. TlbOK'
  <2>1. CASE active
    BY <1>1, <1>2, <1>4, <2>1 DEF TlbOK
  <2>2. CASE ~active
    <3>1. tlb' = <<>> /\ DOMAIN tlb' = {}
      BY <1>1, <1>2, <2>2 DEF TlbOK
    <3> QED
      BY <1>1, <1>2, <2>2, <3>1 DEF TlbOK
  <2> QED
    BY <2>1, <2>2
<1>8. BootOK'
  <2>1. \A u \in UsableFrames : MappedOrPending(u)'
    BY <1>1, <1>2, <1>3 DEF BootOK, MappedOrPending, Working
  <2> QED
    BY <1>1, <1>2, <2>1 DEF BootOK
<1> QED
  BY <1>1, <1>2, <1>3, <1>4, <1>5, <1>6, <1>7, <1>8 DEF Inv, NotYet, MemOK

(* The processor caches what it finds.                                     *)
LEMMA TlbStep ==
  ASSUME Inv, NEW v \in CurVaddrs, tlb_fill(v)
  PROVE  Inv' /\ SafeStep
<1>1. /\ active /\ v \notin DOMAIN tlb /\ v \in VAddr
      /\ tlb' = [w \in DOMAIN tlb \cup {v} |-> IF w = v THEN Walk(v) ELSE tlb[w]]
      /\ UNCHANGED <<mem, free, pml4, active, todo, stage, call, tables, asked>>
  BY VmmAssumption DEF tlb_fill
<1>2. stage # "create"
  BY <1>1 DEF Inv, NotYet
<1>3. /\ Sound(mem, pml4, tables) /\ CallOK /\ Honest /\ TlbOK /\ BootOK
  BY <1>2 DEF Inv
<1>4. (\A w \in VAddr : Walk(w)' = Walk(w)) /\ SafeStep
  BY <1>1, WalkKept
<1>5. CallOK'
  BY <1>1, <1>3 DEF CallOK, InCall, Working
<1>6. Honest'
  BY <1>1, <1>3, <1>4 DEF Honest
<1>7. TlbOK'
  BY <1>1, <1>3, <1>4 DEF TlbOK, InCall
<1>8. BootOK'
  <2>1. \A u \in UsableFrames : MappedOrPending(u)'
    BY <1>1, <1>3 DEF BootOK, MappedOrPending, Working
  <2> QED
    BY <1>1, <1>3, <2>1 DEF BootOK
<1> QED
  BY <1>1, <1>2, <1>3, <1>4, <1>5, <1>6, <1>7, <1>8 DEF Inv, NotYet, MemOK

-----------------------------------------------------------------------------
(* A failed pmm_alloc is never forgotten.                                  *)
LEMMA StaysExhausted ==
  ASSUME exhausted \in BOOLEAN, [VmmNext]_vmm_vars
  PROVE  exhausted' \in BOOLEAN /\ (~exhausted' => ~exhausted)
<1>1. \A f : pmm_alloc(f) => exhausted' = exhausted \/ exhausted' = TRUE
  BY DEF pmm_alloc
<1>2. exhausted' = exhausted \/ exhausted' = TRUE
  <2>1. CASE create_map
    BY <1>1, <2>1 DEF create_map
  <2>2. CASE boot_map
    BY <1>1, <2>2 DEF boot_map
  <2>3. CASE new_dir
    BY <1>1, <2>3 DEF new_dir
  <2>4. CASE \E v \in CurVaddrs : map_cur(v) \/ unmap_cur(v) \/ tlb_fill(v)
    BY <1>1, <2>4 DEF map_cur, unmap_cur, tlb_fill
  <2>5. CASE \/ switch_mem_ctx \/ descend \/ link_dir \/ map_addr \/ map_flags
             \/ unmap_absent \/ unmap_clear \/ map_ret
    BY <2>5 DEF switch_mem_ctx, descend, link_dir, map_addr, map_flags,
                unmap_absent, unmap_clear, map_ret
  <2>6. CASE UNCHANGED vmm_vars
    BY <2>6 DEF vmm_vars
  <2> QED
    BY <2>1, <2>2, <2>3, <2>4, <2>5, <2>6 DEF VmmNext
<1> QED
  BY <1>2

(* Every step preserves the invariant and is safe for the walker.          *)
LEMMA StepInv ==
  ASSUME Inv, ~exhausted', [VmmNext]_vmm_vars
  PROVE  Inv' /\ (stage # "create" => SafeStep)
<1>1. CASE create_map
  BY <1>1, CreateStep DEF create_map
<1>2. CASE boot_map
  BY <1>2, BootStep
<1>3. CASE switch_mem_ctx
  BY <1>3, SwitchStep
<1>4. CASE descend
  BY <1>4, DescendStep
<1>5. CASE new_dir
  BY <1>5, NewDirStep
<1>6. CASE link_dir
  BY <1>6, LinkStep
<1>7. CASE map_addr
  BY <1>7, MapAddrStep
<1>8. CASE map_flags
  BY <1>8, MapFlagsStep
<1>9. CASE unmap_absent
  BY <1>9, UnmapAbsentStep
<1>10. CASE unmap_clear
  BY <1>10, UnmapClearStep
<1>11. CASE map_ret
  BY <1>11, RetStep
<1>12. ASSUME NEW v \in CurVaddrs, map_cur(v) \/ unmap_cur(v)
       PROVE  Inv' /\ SafeStep
  BY <1>12, CurStep
<1>13. ASSUME NEW v \in CurVaddrs, tlb_fill(v)
       PROVE  Inv' /\ SafeStep
  BY <1>13, TlbStep
<1>14. CASE UNCHANGED vmm_vars
  <2>1. UNCHANGED <<mem, free, pml4, active, todo, stage, call, tlb, tables, asked>>
    BY <1>14 DEF vmm_vars
  <2>2. (\A v \in VAddr : Walk(v)' = Walk(v)) /\ SafeStep
    BY <2>1, WalkKept
  <2>3. MemOK' <=> MemOK
    BY <2>1 DEF MemOK
  <2>4. NotYet' <=> NotYet
    BY <2>1 DEF NotYet
  <2>5. CallOK' <=> CallOK
    BY <2>1 DEF CallOK, InCall, Working
  <2>6. Honest' <=> Honest
    BY <2>1, <2>2 DEF Honest
  <2>7. TlbOK => TlbOK'
    BY <2>1, <2>2 DEF TlbOK, InCall
  <2>8. BootOK' <=> BootOK
    BY <2>1 DEF BootOK, MappedOrPending, Working
  <2> QED
    BY <2>1, <2>2, <2>3, <2>4, <2>5, <2>6, <2>7, <2>8 DEF Inv
<1> QED
  BY <1>1, <1>2, <1>3, <1>4, <1>5, <1>6, <1>7, <1>8, <1>9, <1>10, <1>11,
     <1>12, <1>13, <1>14 DEF VmmNext

(* Before paging_create_map there are no tables.                           *)
LEMMA InitInv == VmmInit => VmmInv
<1> SUFFICES ASSUME VmmInit PROVE VmmInv
  OBVIOUS
<1>1. MemOK
  BY VmmAssumption DEF VmmInit, MemOK, Shape, Table
<1>2. NotYet
  BY DEF VmmInit, NotYet
<1> QED
  BY <1>1, <1>2 DEF VmmInit, VmmInv, Inv

(* The inductive invariant holds in every state.                           *)
LEMMA Invariant == VmmSpec => []VmmInv
<1>1. VmmInv /\ [VmmNext]_vmm_vars => VmmInv'
  BY StaysExhausted, StepInv DEF VmmInv
<1> QED
  BY <1>1, InitInv, PTL DEF VmmSpec

(* paging_map and paging_unmap leave every virtual page translated exactly *)
(* as it was last asked for, whatever tables the pages share: no call      *)
(* disturbs another's mapping, until pmm_alloc first fails.                *)
THEOREM TablesAreHonest == VmmSpec => []MapHonest
<1>1. VmmInv => MapHonest
  BY DEF VmmInv, Inv, Honest, MapHonest
<1> QED
  BY <1>1, Invariant, PTL

(* Between any two stores of paging_map and paging_unmap, the processor's  *)
(* walk finds each page as it was, except that the one being changed may   *)
(* be unmapped already or mapped as requested: no half-built table shows.  *)
THEOREM WalkersAreSafe == VmmSpec => WalkerSafe
<1>1. VmmInv /\ [VmmNext]_vmm_vars =>
        [~exhausted' /\ stage # "create" =>
           \A v \in VAddr : Walk(v)' # Walk(v) =>
             /\ v = call.vaddr
             /\ Walk(v)' \in {Unmapped, [addr |-> call.paddr, p |-> TRUE,
                                         rw |-> "VF_WRITE" \in call.flags]}]_vmm_vars
  BY StaysExhausted, StepInv DEF VmmInv, SafeStep
<1> QED
  BY <1>1, Invariant, PTL DEF VmmSpec, WalkerSafe

(* Once the kernel's map is loaded, every page table lies at its own       *)
(* address, writable, and stays there: vmm_init has mapped all usable      *)
(* memory to itself, tables come from usable memory, and no later call     *)
(* touches those pages.                                                    *)
THEOREM TablesAreReachable == VmmSpec => []TablesReachable
<1>1. VmmInv => TablesReachable
  <2> SUFFICES ASSUME Inv, active, NEW f \in tables PROVE Walk(f) = Itself(f)
    BY DEF VmmInv, TablesReachable, Itself
  <2>1. f \in UsableFrames /\ f \in VAddr
    BY UsableIsMemory DEF Inv, MemOK
  <2>2. stage # "create"
    BY DEF Inv, NotYet
  <2>3. CallOK /\ Honest /\ BootOK
    BY <2>2 DEF Inv
  <2>4. InCall => call.vaddr # f
    BY <2>1, <2>3, VmmAssumption DEF CallOK
  <2>5. asked[f] = Itself(f)
    <3>1. todo = <<>> /\ MappedOrPending(f)
      BY <2>1, <2>3 DEF BootOK
    <3>2. ~Pending(todo, f)
      BY <3>1 DEF Pending
    <3> QED
      BY <2>4, <3>1, <3>2 DEF MappedOrPending, InCall, Working
  <2> QED
    BY <2>1, <2>3, <2>4, <2>5 DEF Honest, InCall
<1> QED
  BY <1>1, Invariant, PTL

(* vmm_map_cur and vmm_unmap_cur leave no stale translation behind, even   *)
(* when the processor refills its cache in the middle of a call.           *)
THEOREM TlbIsCoherent == VmmSpec => []TlbCoherent
<1>1. VmmInv => TlbCoherent
  BY DEF VmmInv, Inv, TlbOK, InCall, TlbCoherent
<1> QED
  BY <1>1, Invariant, PTL
=============================================================================
