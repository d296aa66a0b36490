------------------------------ MODULE PmmProofs ------------------------------
(***************************************************************************)
(* Proofs about the page-frame allocator, for any memory map, any number   *)
(* of processors and any stack capacity.                                   *)
(*                                                                         *)
(* None of the safety properties is inductive alone: that nothing is       *)
(* handed out twice rests on the bits, the bits rest on the regions being  *)
(* disjoint and on one processor at a time being inside, and that an       *)
(* allocation fails only without free frames rests on the hints and on     *)
(* what a feed in progress has already scanned.  IInv joins these facts.   *)
(***************************************************************************)
EXTENDS Pmm, TLAPS

-----------------------------------------------------------------------------
(* Where every region comes from.                                          *)

FromMap(ent, a) ==
  /\ ent = [base |-> mem_map[a].base, size |-> mem_map[a].length]
  /\ Eligible(mem_map[a])

SizesApart(e, f) == e.base + e.size <= f.base \/ f.base + f.size <= e.base

LayoutOK ==
  /\ ml_pos >= 1
  /\ \A k \in DOMAIN ml_ents : \E a \in DOMAIN mem_map :
       a < ml_pos /\ FromMap(ml_ents[k], a)
  /\ \A k, l \in DOMAIN ml_ents : k # l => SizesApart(ml_ents[k], ml_ents[l])
  /\ Len(page_bms) <= Len(ml_ents)
  /\ \A k \in DOMAIN page_bms : page_bms[k] = BitmapOf(ml_ents[k])

(* Before pmm_init returns only the booting processor runs, and it feeds   *)
(* the stack only after all regions are set up.                            *)
BootOK ==
  /\ ~up => /\ mutex = 0 /\ owned = {}
            /\ \A c \in Cpu \ {BSP} : pc[c] = "idle"
            /\ pc[BSP] \in {"meml", "hung", "init", "outer", "inner", "hint"}
  /\ pc[BSP] \in {"meml", "hung", "init"} => ~up /\ page_stk = <<>>

(* One processor at a time is between a lock and its unlock, or feeding.   *)
Busy(c) == pc[c] \in {"outer", "inner", "hint", "take", "free", "avl"}

LockOK ==
  /\ \A c, d \in Cpu : Busy(c) /\ Busy(d) => c = d
  /\ up => \A c \in Cpu : Busy(c) => mutex = 1

(* The bits of a region are all set.                                       *)
Full(k) == \A g \in 0 .. page_bms[k].npage - 1 : Frame(page_bms[k], g) \in data

(* What the feed of a processor has established: the regions it has left   *)
(* are full if it pushed nothing; the part of a region it has scanned is   *)
(* full; and it moves a hint only past a set bit.                          *)
Scanned(c) ==
  pc[c] \in {"outer", "inner", "hint"} /\ page_stk = <<>> =>
    \A k \in DOMAIN page_bms : k < i[c] => Full(k)

Scanning(c) ==
  pc[c] = "inner" =>
    /\ Len(page_stk) < PAGE_STK_CAP
    /\ j[c] >= first_free[i[c]]
    /\ \A g \in first_free[i[c]] .. j[c] - 1 :
         g < page_bms[i[c]].npage => Frame(page_bms[i[c]], g) \in data

Leaving(c) ==
  pc[c] = "hint" =>
    /\ first_free[i[c]] < page_bms[i[c]].npage =>
         Frame(page_bms[i[c]], first_free[i[c]]) \in data
    /\ page_stk = <<>> => Full(i[c])

Taking(c) ==
  pc[c] = "take" /\ page_stk = <<>> => \A k \in DOMAIN page_bms : Full(k)

FeedOK == \A c \in Cpu : Scanned(c) /\ Scanning(c) /\ Leaving(c) /\ Taking(c)

BitsManaged == \A a \in data : Managed(a)

(* NoDoubleUse and Conservation, element by element.                       *)
Freeing(c, a) == pc[c] = "free" /\ arg[c] = a

UseOK ==
  /\ \A m, n \in DOMAIN page_stk : page_stk[m] = page_stk[n] => m = n
  /\ \A n \in DOMAIN page_stk :
       page_stk[n] \in data /\ page_stk[n] \notin owned /\ page_stk[n] \notin junk
  /\ \A a \in owned : a \in data /\ a \notin junk
  /\ junk \subseteq data
  /\ \A c \in Cpu : pc[c] = "free" /\ Managed(arg[c]) =>
       /\ arg[c] \in data /\ arg[c] \notin owned /\ arg[c] \notin junk
       /\ \A n \in DOMAIN page_stk : page_stk[n] # arg[c]
  /\ \A a \in data :
       \/ a \in owned \/ a \in junk
       \/ \E n \in DOMAIN page_stk : page_stk[n] = a
       \/ \E c \in Cpu : Freeing(c, a)

IInv ==
  /\ TypeOK /\ LayoutOK /\ BootOK /\ LockOK /\ FeedOK /\ BitsManaged
  /\ UseOK /\ HintSound

-----------------------------------------------------------------------------
(* The bitmap of a region of at least two pages leaves at least one page,  *)
(* takes at least one, and has room for a bit per page it leaves           *)
(* (npage_bm in pmm_init).                                                 *)
LEMMA NpageBmArith ==
  ASSUME NEW n \in Nat, n >= 2
  PROVE  /\ NpageBm(n) \in Nat /\ NpageBm(n) >= 1 /\ NpageBm(n) < n
         /\ (n - NpageBm(n) + 7) \div 8 <= PAGE_SIZE * NpageBm(n)
PROOF
  <1>1. (7 * n) \div 8 \in Nat /\ (7 * n) \div 8 >= 1
        /\ 8 * ((7 * n) \div 8) <= 7 * n /\ 7 * n < 8 * ((7 * n) \div 8) + 8
    OBVIOUS
  <1> DEFINE b == (7 * n) \div 8
             p == (b - 1) \div 4096
  <1>2. p \in Nat /\ 4096 * p <= b - 1 /\ b - 1 < 4096 * p + 4096
    BY <1>1
  <1>3. NpageBm(n) = 1 + p
    BY DEF NpageBm, PAGE_SIZE
  <1> HIDE DEF b, p
  <1>4. 8 * b <= 7 * n /\ 7 * n < 8 * b + 8 /\ b \in Nat
    BY <1>1 DEF b
  <1>5. 1 + p < n
    BY <1>2, <1>4
  <1>6. (n - (1 + p) + 7) \div 8 <= 4096 * (1 + p)
    <2> DEFINE q == (n - (1 + p) + 7) \div 8
    <2>1. 8 * q <= n - (1 + p) + 7 /\ q \in Nat
      BY <1>2, <1>5
    <2> HIDE DEF q
    <2>2. q <= 4096 * (1 + p)
      BY <2>1, <1>2, <1>4
    <2> QED  BY <2>2 DEF q
  <1> QED  BY <1>2, <1>3, <1>5, <1>6 DEF PAGE_SIZE

(* Regions lie above address 0, are not empty, leave room for their        *)
(* bitmaps, and no address is in two of them.                              *)
LEMMA RegionsApart ==
  ASSUME TypeOK, LayoutOK
  PROVE  /\ \A k \in DOMAIN page_bms :
              /\ ml_ents[k].size \in Nat /\ ml_ents[k].size >= 2
              /\ ml_ents[k].base \in Nat
              /\ NpageBm(ml_ents[k].size) \in Nat
              /\ NpageBm(ml_ents[k].size) >= 1
              /\ page_bms[k].base = ml_ents[k].base + NpageBm(ml_ents[k].size)
              /\ page_bms[k].npage = ml_ents[k].size - NpageBm(ml_ents[k].size)
              /\ page_bms[k].base >= 1
              /\ page_bms[k].npage >= 1
         /\ \A k, l \in DOMAIN page_bms : \A a \in Nat :
              Covers(page_bms[k], a) /\ Covers(page_bms[l], a) => k = l
PROOF
  <1>1. ASSUME NEW k \in DOMAIN page_bms
        PROVE  /\ k \in DOMAIN ml_ents
               /\ ml_ents[k].base \in Nat /\ ml_ents[k].size \in Nat
               /\ ml_ents[k].size >= 2
    <2>1. k \in DOMAIN ml_ents
      BY DEF TypeOK, LayoutOK
    <2>2. PICK a \in DOMAIN mem_map : a < ml_pos /\ FromMap(ml_ents[k], a)
      BY <2>1 DEF LayoutOK
    <2>3. mem_map \in Seq(MemMapEntry)
      BY MemLayoutAssumption DEF TypeOK
    <2>4. mem_map[a] \in MemMapEntry
      BY <2>3
    <2> QED
      BY <2>1, <2>2, <2>4, MemLayoutAssumption DEF FromMap, Eligible, MemMapEntry
  <1>2. ASSUME NEW k \in DOMAIN page_bms
        PROVE  /\ NpageBm(ml_ents[k].size) \in Nat
               /\ NpageBm(ml_ents[k].size) >= 1
               /\ NpageBm(ml_ents[k].size) < ml_ents[k].size
               /\ page_bms[k].base = ml_ents[k].base + NpageBm(ml_ents[k].size)
               /\ page_bms[k].npage = ml_ents[k].size - NpageBm(ml_ents[k].size)
    BY <1>1, NpageBmArith DEF LayoutOK, BitmapOf
  <1>3. ASSUME NEW k \in DOMAIN page_bms, NEW l \in DOMAIN page_bms, NEW a \in Nat,
               Covers(page_bms[k], a), Covers(page_bms[l], a), k # l
        PROVE  FALSE
    <2>1. SizesApart(ml_ents[k], ml_ents[l])
      BY <1>1, <1>3 DEF LayoutOK
    <2> QED  BY <2>1, <1>1, <1>2, <1>3 DEF SizesApart, Covers
  <1> QED  BY <1>1, <1>2, <1>3
-----------------------------------------------------------------------------
(* The invariant holds initially, and every step preserves it.             *)

(* A step that moves no frame, no bit and no pmm_free preserves UseOK.     *)
LEMMA UseFrame ==
  ASSUME UseOK, UNCHANGED <<page_bms, data, page_stk, owned, junk>>,
         \A c \in Cpu : pc'[c] = "free" <=> pc[c] = "free",
         \A c \in Cpu : pc[c] = "free" => arg'[c] = arg[c]
  PROVE  UseOK'
PROOF
  BY DEF UseOK, Freeing, Managed

(* Only the processor that is busy after a step can be feeding.            *)
LEMMA FeedAlone ==
  ASSUME LockOK', NEW c \in Cpu, Busy(c)',
         Scanned(c)', Scanning(c)', Leaving(c)', Taking(c)'
  PROVE  FeedOK'
PROOF
  BY DEF FeedOK, LockOK, Busy, Scanned, Scanning, Leaving, Taking

(* After a step that leaves nobody busy there is no feed to speak of.      *)
LEMMA FeedNone ==
  ASSUME \A c \in Cpu : ~Busy(c)'
  PROVE  FeedOK'
PROOF
  BY DEF FeedOK, Busy, Scanned, Scanning, Leaving, Taking

(* Types of what the locals of a feed refer to.                            *)
LEMMA BitmapTypes ==
  ASSUME TypeOK
  PROVE  \A k \in DOMAIN page_bms :
           /\ page_bms[k] \in bitmap
           /\ page_bms[k].base \in Nat /\ page_bms[k].npage \in Nat
PROOF
  <1>1. page_bms \in Seq(bitmap)
    BY DEF TypeOK
  <1>2. \A k \in DOMAIN page_bms : page_bms[k] \in bitmap
    BY <1>1
  <1> QED  BY <1>2 DEF bitmap

(* Types of the operands of a feed in progress.                            *)
LEMMA ScanTypes ==
  ASSUME TypeOK, NEW c \in Cpu, i[c] \in DOMAIN page_bms
  PROVE  /\ i[c] \in Nat /\ j[c] \in Nat
         /\ i[c] \in DOMAIN first_free /\ first_free[i[c]] \in Nat
         /\ page_bms[i[c]] \in bitmap
         /\ page_bms[i[c]].npage \in Nat /\ page_bms[i[c]].base \in Nat
PROOF
  <1>1. i[c] \in Nat /\ j[c] \in Nat
    BY DEF TypeOK
  <1>2. i[c] \in DOMAIN first_free /\ first_free[i[c]] \in Nat
    BY DEF TypeOK
  <1>3. page_bms \in Seq(bitmap)
    BY DEF TypeOK
  <1>4. \A k \in DOMAIN page_bms : page_bms[k] \in bitmap
    BY <1>3
  <1> QED  BY <1>1, <1>2, <1>4 DEF bitmap

(* The invariant holds when the kernel starts.                             *)
LEMMA InitIInv == Init => IInv
PROOF
  <1> SUFFICES ASSUME Init PROVE IInv
    OBVIOUS
  <1> USE DEF Init, MemlInit
  <1>1. TypeOK
    <2>1. /\ page_bms \in Seq(bitmap) /\ ml_ents \in Seq(meml_ent)
          /\ first_free \in Seq(Nat) /\ page_stk \in Seq(Nat)
          /\ Len(first_free) = Len(page_bms) /\ Len(page_stk) <= PAGE_STK_CAP
      BY PmmAssumption
    <2>2. pc \in [Cpu -> Labels] /\ i \in [Cpu -> Nat \ {0}] /\ j \in [Cpu -> Nat]
          /\ arg \in [Cpu -> Nat]
      BY DEF Labels, PHYS_ADDR_NULL
    <2>3. \A c \in Cpu : pc[c] \notin {"inner", "hint"}
      OBVIOUS
    <2>4. /\ mem_map \in MemMaps /\ ml_pos \in Nat /\ mutex \in k_mutex_t
          /\ data \in SUBSET Nat /\ owned \in SUBSET Nat /\ junk \in SUBSET Nat
      BY DEF k_mutex_t
    <2>5. up \in BOOLEAN
      OBVIOUS
    <2> HIDE DEF Init
    <2> QED  BY <2>1, <2>2, <2>3, <2>4, <2>5 DEF TypeOK
  <1>2. LayoutOK
    BY DEF LayoutOK
  <1>3. \A c \in Cpu : pc[c] \in {"meml", "idle"}
    OBVIOUS
  <1>4. BootOK /\ LockOK /\ FeedOK
    BY <1>3, PmmAssumption DEF BootOK, LockOK, Busy, FeedOK, Scanned, Scanning,
       Leaving, Taking
  <1>5. BitsManaged /\ UseOK /\ HintSound
    BY <1>3 DEF BitsManaged, UseOK, Freeing, HintSound
  <1> QED  BY <1>1, <1>2, <1>4, <1>5 DEF IInv

(* While the regions are being set up nobody is busy.                      *)
LEMMA BootQuiet ==
  ASSUME IInv, pc[BSP] \in {"meml", "hung", "init"}
  PROVE  /\ ~up /\ page_stk = <<>> /\ owned = {} /\ mutex = 0
         /\ \A c \in Cpu : pc[c] \in {"meml", "hung", "init", "idle"}
PROOF
  BY DEF IInv, BootOK

(* Preserved by one iteration of meml_init.                                *)
LEMMA Step_Collect ==
  ASSUME IInv, Collect
  PROVE  IInv'
PROOF
  <1> USE DEF pmm_vars, local_vars
  <1>0. TypeOK /\ UNCHANGED <<pmm_vars, local_vars, mem_map>> /\ LayoutOK
    BY DEF IInv, Collect, meml_collect
  <1> DEFINE e == mem_map[ml_pos]
             new == [base |-> e.base, size |-> e.length]
  <1>a. /\ ml_pos \in DOMAIN mem_map /\ ml_pos' = ml_pos + 1 /\ ml_pos \in Nat
        /\ ml_ents' = IF Eligible(e) THEN Append(ml_ents, new) ELSE ml_ents
    <2>1. mem_map \in Seq(MemMapEntry)
      BY <1>0, MemLayoutAssumption DEF TypeOK
    <2> QED  BY <2>1, <1>0 DEF Collect, meml_collect, MemlMore, TypeOK, LayoutOK
  <1>b. e \in MemMapEntry /\ new \in meml_ent
    <2>1. mem_map \in Seq(MemMapEntry)
      BY <1>0, MemLayoutAssumption DEF TypeOK
    <2>2. e \in MemMapEntry
      BY <2>1, <1>a
    <2> QED  BY <2>2 DEF MemMapEntry, meml_ent
  <1>c. ml_ents \in Seq(meml_ent) /\ Len(ml_ents) \in Nat
    BY <1>0 DEF TypeOK
  <1> HIDE DEF new, e
  <1>d. /\ ml_ents' \in Seq(meml_ent) /\ Len(ml_ents') >= Len(ml_ents)
        /\ \A k \in DOMAIN ml_ents : k \in DOMAIN ml_ents' /\ ml_ents'[k] = ml_ents[k]
        /\ \A k \in DOMAIN ml_ents' : k \in DOMAIN ml_ents
             \/ (k = Len(ml_ents) + 1 /\ ml_ents'[k] = new /\ Eligible(e))
    <2>1. CASE Eligible(e)
      <3>1. ml_ents' = Append(ml_ents, new)
        BY <2>1, <1>a
      <3>2. /\ ml_ents' \in Seq(meml_ent) /\ Len(ml_ents') = Len(ml_ents) + 1
            /\ ml_ents'[Len(ml_ents) + 1] = new
            /\ \A k \in DOMAIN ml_ents : ml_ents'[k] = ml_ents[k]
        BY <3>1, <1>b, <1>c
      <3> QED  BY <2>1, <3>2, <1>c
    <2>2. CASE ~Eligible(e)
      BY <2>2, <1>a, <1>c
    <2> QED  BY <2>1, <2>2
  <1>1. TypeOK'
    BY <1>0, <1>a, <1>d DEF TypeOK
  <1>2. LayoutOK'
    <2>1. \A k \in DOMAIN ml_ents' : \E a \in DOMAIN mem_map :
            a < ml_pos' /\ FromMap(ml_ents'[k], a)
      <3> TAKE k \in DOMAIN ml_ents'
      <3>1. CASE k \in DOMAIN ml_ents
        <4>1. PICK a \in DOMAIN mem_map : a < ml_pos /\ FromMap(ml_ents[k], a)
          BY <3>1, <1>0 DEF LayoutOK
        <4>2. a < ml_pos'
          <5>1. a \in Nat
            <6>1. mem_map \in Seq(MemMapEntry)
              BY <1>0, MemLayoutAssumption DEF TypeOK
            <6> QED  BY <6>1
          <5> QED  BY <5>1, <4>1, <1>a
        <4> QED  BY <4>1, <4>2, <3>1, <1>d
      <3>2. CASE k \notin DOMAIN ml_ents
        <4>1. FromMap(ml_ents'[k], ml_pos)
          BY <3>2, <1>d DEF FromMap, new, e
        <4> QED  BY <4>1, <1>a
      <3> QED  BY <3>1, <3>2
    <2>2. \A k, l \in DOMAIN ml_ents' : k # l => SizesApart(ml_ents'[k], ml_ents'[l])
      <3>1. ASSUME NEW k \in DOMAIN ml_ents, Eligible(e)
            PROVE  SizesApart(ml_ents[k], new) /\ SizesApart(new, ml_ents[k])
        <4>1. PICK a \in DOMAIN mem_map : a < ml_pos /\ FromMap(ml_ents[k], a)
          BY <1>0 DEF LayoutOK
        <4>2. a # ml_pos
          BY <4>1, <1>a
        <4>3. Apart(mem_map[a], mem_map[ml_pos])
          BY <4>2, <1>0, <1>a, MemLayoutAssumption DEF TypeOK
        <4> QED  BY <4>1, <4>3 DEF FromMap, Apart, SizesApart, new, e
      <3>2. \A k, l \in DOMAIN ml_ents : k # l => SizesApart(ml_ents[k], ml_ents[l])
        BY <1>0 DEF LayoutOK
      <3> QED  BY <3>1, <3>2, <1>d
    <2>3. Len(page_bms') <= Len(ml_ents')
      BY <1>0, <1>c, <1>d DEF LayoutOK, TypeOK
    <2>4. \A k \in DOMAIN page_bms' : page_bms'[k] = BitmapOf(ml_ents'[k])
      <3>1. \A k \in DOMAIN page_bms : k \in DOMAIN ml_ents
        BY <1>0, <1>c DEF LayoutOK, TypeOK
      <3> QED  BY <3>1, <1>0, <1>d DEF LayoutOK
    <2>5. ml_pos' >= 1
      BY <1>0, <1>a DEF LayoutOK
    <2> QED  BY <2>1, <2>2, <2>3, <2>4, <2>5, <1>0 DEF LayoutOK, FromMap
  <1>3. BootOK' /\ LockOK'
    BY <1>0 DEF IInv, BootOK, LockOK, Busy
  <1>4. FeedOK'
    BY <1>0 DEF IInv, FeedOK, Scanned, Scanning, Leaving, Taking, Full
  <1>5. BitsManaged' /\ HintSound' /\ UseOK'
    BY <1>0 DEF IInv, BitsManaged, Managed, HintSound, UseOK, Freeing
  <1> QED  BY <1>1, <1>2, <1>3, <1>4, <1>5 DEF IInv

(* Preserved by meml_init returning.                                       *)
LEMMA Step_Collected ==
  ASSUME IInv, Collected
  PROVE  IInv'
PROOF
  <1> USE DEF meml_vars, pmm_vars, Goto
  <1>0. /\ pc[BSP] = "meml" /\ pc'[BSP] \in {"hung", "init"} /\ BSP \in Cpu
        /\ \A d \in Cpu \ {BSP} : pc'[d] = pc[d]
    BY PmmAssumption DEF IInv, TypeOK, Collected
  <1>a. /\ ~up /\ page_stk = <<>>
        /\ \A c \in Cpu : pc[c] \in {"meml", "hung", "init", "idle"}
    BY <1>0, BootQuiet
  <1>b. \A c \in Cpu : pc'[c] \in {"meml", "hung", "init", "idle"}
    BY <1>0, <1>a
  <1>1. TypeOK'
    <2>1. pc' \in [Cpu -> Labels]
      BY DEF IInv, TypeOK, Collected, Labels
    <2> QED  BY <2>1, <1>b DEF IInv, TypeOK, Collected
  <1>2. LayoutOK' /\ BitsManaged' /\ HintSound'
    BY DEF IInv, Collected, LayoutOK, FromMap, BitsManaged, Managed, HintSound
  <1>3. BootOK' /\ LockOK'
    BY <1>0, <1>a, <1>b DEF IInv, Collected, BootOK, LockOK, Busy
  <1>4. FeedOK'
    BY <1>b, FeedNone DEF Busy
  <1>5. UseOK'
    <2>1. \A d \in Cpu : pc[d] # "free" /\ pc'[d] # "free"
      BY <1>a, <1>b
    <2> QED  BY <2>1, UseFrame DEF IInv, Collected
  <1> QED  BY <1>1, <1>2, <1>3, <1>4, <1>5 DEF IInv

(* Preserved by pmm_init starting the first feed.                          *)
LEMMA Step_InitFeed ==
  ASSUME IInv, InitFeed
  PROVE  IInv'
PROOF
  <1> USE DEF meml_vars, Goto
  <1>0. /\ pc[BSP] = "init" /\ pc'[BSP] = "outer" /\ i'[BSP] = 1 /\ BSP \in Cpu
        /\ \A d \in Cpu \ {BSP} : pc'[d] = pc[d]
    BY PmmAssumption DEF IInv, TypeOK, InitFeed
  <1>a. /\ ~up /\ page_stk = <<>>
        /\ \A c \in Cpu : pc[c] \in {"meml", "hung", "init", "idle"}
    BY <1>0, BootQuiet
  <1>b. page_stk' = page_stk
    BY <1>a DEF InitFeed
  <1>1. TypeOK'
    <2>a. pc \in [Cpu -> Labels] /\ i \in [Cpu -> Nat \ {0}]
      BY DEF IInv, TypeOK
    <2>b. pc' = [pc EXCEPT ![BSP] = "outer"] /\ i' = [i EXCEPT ![BSP] = 1]
      BY DEF InitFeed
    <2>1. pc' \in [Cpu -> Labels] /\ i' \in [Cpu -> Nat \ {0}]
      <3>1. pc' \in [Cpu -> Labels]
        BY <2>a, <2>b DEF Labels
      <3>2. i' \in [Cpu -> Nat \ {0}]
        <4>1. 1 \in Nat \ {0}
          OBVIOUS
        <4> QED  BY <4>1, <2>a, <2>b, Zenon
      <3> QED  BY <3>1, <3>2
    <2>2. \A d \in Cpu : pc'[d] \notin {"inner", "hint"}
      BY <1>0, <1>a
    <2> QED  BY <2>1, <2>2, <1>b DEF IInv, TypeOK, InitFeed
  <1>2. LayoutOK' /\ BitsManaged' /\ HintSound'
    BY DEF IInv, InitFeed, LayoutOK, FromMap, BitsManaged, Managed, HintSound
  <1>3. BootOK' /\ LockOK'
    <2>1. BootOK'
      BY <1>0, <1>a, <1>b DEF IInv, InitFeed, BootOK
    <2>2. LockOK'
      <3>1. \A c \in Cpu : Busy(c)' => c = BSP
        BY <1>0, <1>a DEF Busy
      <3>2. up' = up
        BY DEF InitFeed
      <3> QED  BY <3>1, <3>2, <1>a DEF LockOK
    <2> QED  BY <2>1, <2>2
  <1>4. FeedOK'
    <2>1. Busy(BSP)' /\ Scanned(BSP)'
      BY <1>0 DEF IInv, TypeOK, InitFeed, Busy, Scanned
    <2> QED  BY <2>1, <1>0, <1>3, FeedAlone DEF Scanning, Leaving, Taking
  <1>5. UseOK'
    <2>1. \A d \in Cpu : pc[d] # "free" /\ pc'[d] # "free"
      BY <1>0, <1>a
    <2> QED  BY <2>1, <1>b, UseFrame DEF IInv, InitFeed
  <1> QED  BY <1>1, <1>2, <1>3, <1>4, <1>5 DEF IInv

(* Preserved by pmm_init setting up a region.                              *)
LEMMA Step_InitRegion ==
  ASSUME IInv, InitRegion
  PROVE  IInv'
PROOF
  <1> USE DEF meml_vars, local_vars
  <1> DEFINE n == Len(page_bms) + 1
             bm == BitmapOf(ml_ents[n])
  <1>0. /\ pc[BSP] = "init" /\ TypeOK /\ LayoutOK
        /\ UNCHANGED <<meml_vars, page_stk, mutex, up, owned, local_vars>>
    BY DEF IInv, InitRegion
  <1>a. /\ ~up /\ page_stk = <<>> /\ owned = {} /\ mutex = 0
        /\ \A c \in Cpu : pc[c] \in {"meml", "hung", "init", "idle"}
    BY <1>0, BootQuiet
  <1>b. page_bms' = Append(page_bms, bm) /\ first_free' = Append(first_free, 0)
    BY DEF InitRegion
  <1>c. PICK bits \in SUBSET (bm.base .. bm.base + bm.npage - 1) :
          data' = data \cup bits /\ junk' = junk \cup bits
    BY DEF InitRegion
  <1>d. Len(page_bms) \in Nat /\ n \in DOMAIN ml_ents /\ page_bms \in Seq(bitmap)
    <2>1. Len(page_bms) < Len(ml_ents)
      BY DEF InitRegion
    <2>2. Len(page_bms) \in Nat /\ page_bms \in Seq(bitmap) /\ ml_ents \in Seq(meml_ent)
      BY <1>0 DEF TypeOK
    <2> QED  BY <2>1, <2>2
  <1>e. bm \in bitmap /\ bm.base \in Nat /\ bm.npage \in Nat
    <2>1. PICK a \in DOMAIN mem_map : a < ml_pos /\ FromMap(ml_ents[n], a)
      BY <1>0, <1>d DEF LayoutOK
    <2>2. mem_map \in Seq(MemMapEntry)
      BY <1>0, MemLayoutAssumption DEF TypeOK
    <2>3. mem_map[a] \in MemMapEntry
      BY <2>1, <2>2
    <2>4. ml_ents[n].base \in Nat /\ ml_ents[n].size \in Nat /\ ml_ents[n].size >= 2
      BY <2>1, <2>3, MemLayoutAssumption DEF FromMap, Eligible, MemMapEntry
    <2> HIDE DEF n
    <2> QED  BY <2>4, NpageBmArith DEF BitmapOf, bitmap
  <1>f. \A a \in bits : Covers(bm, a) /\ a \in Nat
    BY <1>c, <1>e DEF Covers
  <1> HIDE DEF bm
  <1>g. /\ page_bms' \in Seq(bitmap) /\ Len(page_bms') = n
        /\ page_bms'[n] = bm /\ n \in DOMAIN page_bms'
        /\ \A k \in DOMAIN page_bms : k \in DOMAIN page_bms' /\ page_bms'[k] = page_bms[k]
        /\ \A k \in DOMAIN page_bms' : k \in DOMAIN page_bms \/ k = n
    BY <1>b, <1>d, <1>e
  <1>h. first_free \in Seq(Nat) /\ Len(first_free) = Len(page_bms)
    BY <1>0 DEF TypeOK
  <1>i. /\ first_free' \in Seq(Nat) /\ Len(first_free') = n /\ first_free'[n] = 0
        /\ \A k \in DOMAIN page_bms : first_free'[k] = first_free[k]
    BY <1>b, <1>d, <1>h
  <1>1. TypeOK'
    <2>1. \A c \in Cpu : pc'[c] \notin {"inner", "hint"}
      BY <1>0, <1>a
    <2>2. data' \in SUBSET Nat /\ junk' \in SUBSET Nat
      BY <1>0, <1>c, <1>f DEF TypeOK
    <2> QED  BY <2>1, <2>2, <1>0, <1>g, <1>i DEF TypeOK
  <1>2. LayoutOK'
    <2>1. Len(page_bms') <= Len(ml_ents')
      BY <1>0, <1>d, <1>g DEF TypeOK
    <2>2. \A k \in DOMAIN page_bms' : page_bms'[k] = BitmapOf(ml_ents'[k])
      BY <1>0, <1>g DEF LayoutOK, bm
    <2> QED  BY <2>1, <2>2, <1>0 DEF LayoutOK, FromMap
  <1>3. BootOK' /\ LockOK'
    BY <1>0 DEF IInv, BootOK, LockOK, Busy
  <1>4. FeedOK'
    BY <1>0, <1>a, FeedNone DEF Busy
  <1>5. BitsManaged'
    <2> SUFFICES ASSUME NEW a \in data'
                 PROVE  \E k \in DOMAIN page_bms' : Covers(page_bms'[k], a)
      BY DEF BitsManaged, Managed
    <2>1. CASE a \in data
      BY <2>1, <1>g DEF IInv, BitsManaged, Managed
    <2>2. CASE a \in bits
      BY <2>2, <1>f, <1>g
    <2> QED  BY <2>1, <2>2, <1>c
  <1>6. UseOK'
    <2>1. UseOK /\ \A d \in Cpu : pc[d] # "free" /\ pc'[d] # "free"
      BY <1>0, <1>a DEF IInv
    <2>2. data = junk
      BY <2>1, <1>a DEF UseOK, Freeing
    <2> QED  BY <2>1, <2>2, <1>0, <1>a, <1>c DEF UseOK, Freeing
  <1>7. HintSound'
    <2> SUFFICES ASSUME NEW k \in DOMAIN page_bms', NEW g \in 0 .. first_free'[k] - 1,
                        g < page_bms'[k].npage
                 PROVE  Frame(page_bms'[k], g) \in data'
      BY DEF HintSound
    <2>1. CASE k \in DOMAIN page_bms
      BY <2>1, <1>c, <1>g, <1>i DEF IInv, HintSound
    <2>2. CASE k = n
      BY <2>2, <1>i
    <2> QED  BY <2>1, <2>2, <1>g
  <1> QED  BY <1>1, <1>2, <1>3, <1>4, <1>5, <1>6, <1>7 DEF IInv

(* Preserved by bm_feed_stk entering the loop over a region.               *)
LEMMA Step_feed_outer ==
  ASSUME IInv, NEW c \in Cpu, feed_outer(c)
  PROVE  IInv'
PROOF
  <1> USE DEF meml_vars, pmm_vars, Goto
  <1>0. i[c] \in DOMAIN page_bms /\ i[c] \in DOMAIN first_free
    BY DEF IInv, TypeOK, feed_outer
  <1>1. TypeOK'
    <2>1. pc' \in [Cpu -> Labels] /\ j' \in [Cpu -> Nat]
      BY <1>0 DEF IInv, TypeOK, feed_outer, Labels
    <2>2. \A d \in Cpu : pc'[d] \in {"inner", "hint"} => i'[d] \in DOMAIN page_bms'
      BY <1>0 DEF IInv, TypeOK, feed_outer
    <2> QED  BY <2>1, <2>2 DEF IInv, TypeOK, feed_outer
  <1>2. LayoutOK' /\ BitsManaged' /\ HintSound'
    BY DEF IInv, feed_outer, LayoutOK, FromMap, BitsManaged, Managed, HintSound
  <1>3. BootOK' /\ LockOK'
    <2>1. BootOK'
      BY PmmAssumption DEF IInv, TypeOK, feed_outer, BootOK
    <2>2. LockOK'
      BY DEF IInv, TypeOK, feed_outer, LockOK, Busy
    <2> QED  BY <2>1, <2>2
  <1>4. UseOK'
    <2>1. \A d \in Cpu : pc'[d] = "free" <=> pc[d] = "free"
      BY DEF IInv, TypeOK, feed_outer
    <2> QED  BY <2>1, UseFrame DEF IInv, feed_outer
  <1>5. FeedOK'
    <2>1. pc'[c] = "inner" /\ Busy(c)' /\ i' = i /\ j'[c] = first_free[i[c]]
      BY DEF IInv, TypeOK, feed_outer, Busy
    <2>2. Scanned(c)'
      BY <2>1 DEF IInv, FeedOK, feed_outer, Scanned, Full
    <2>3. Scanning(c)'
      BY <2>1, <1>0 DEF IInv, TypeOK, feed_outer, Scanning
    <2> QED  BY <2>1, <2>2, <2>3, <1>3, FeedAlone DEF Leaving, Taking
  <1> QED  BY <1>1, <1>2, <1>3, <1>4, <1>5 DEF IInv

(* Preserved by bm_feed_stk reaching the end of a region.                  *)
LEMMA Step_feed_end ==
  ASSUME IInv, NEW c \in Cpu, feed_end(c)
  PROVE  IInv'
PROOF
  <1> USE DEF meml_vars, pmm_vars, Goto
  <1>0. i[c] \in DOMAIN page_bms /\ TypeOK
    BY DEF IInv, TypeOK, feed_end
  <1>1. TypeOK'
    <2>1. pc' \in [Cpu -> Labels]
      BY <1>0 DEF IInv, TypeOK, feed_end, Labels
    <2>2. \A d \in Cpu : pc'[d] \in {"inner", "hint"} => i'[d] \in DOMAIN page_bms'
      BY <1>0 DEF IInv, TypeOK, feed_end
    <2> QED  BY <2>1, <2>2 DEF IInv, TypeOK, feed_end
  <1>2. LayoutOK' /\ BitsManaged' /\ HintSound'
    BY DEF IInv, feed_end, LayoutOK, FromMap, BitsManaged, Managed, HintSound
  <1>3. BootOK' /\ LockOK'
    <2>1. BootOK'
      BY PmmAssumption DEF IInv, TypeOK, feed_end, BootOK
    <2>2. LockOK'
      BY DEF IInv, TypeOK, feed_end, LockOK, Busy
    <2> QED  BY <2>1, <2>2
  <1>4. UseOK'
    <2>1. \A d \in Cpu : pc'[d] = "free" <=> pc[d] = "free"
      BY DEF IInv, TypeOK, feed_end
    <2> QED  BY <2>1, UseFrame DEF IInv, feed_end
  <1>5. FeedOK'
    <2>1. pc'[c] = "hint" /\ Busy(c)' /\ UNCHANGED <<i, j>>
      BY DEF IInv, TypeOK, feed_end, Busy
    <2>2. Scanned(c)'
      BY <2>1 DEF IInv, FeedOK, feed_end, Scanned, Full
    <2>3. Leaving(c)'
      <3>1. Full(i[c])
        <4> SUFFICES ASSUME NEW g \in 0 .. page_bms[i[c]].npage - 1
                     PROVE  Frame(page_bms[i[c]], g) \in data
          BY DEF Full
        <4>1. g < first_free[i[c]] \/ g \in first_free[i[c]] .. j[c] - 1
          BY <1>0, ScanTypes DEF feed_end
        <4>2. CASE g < first_free[i[c]]
          BY <4>2, <1>0, ScanTypes DEF IInv, HintSound
        <4>3. CASE g \in first_free[i[c]] .. j[c] - 1
          <5>1. Scanning(c) /\ pc[c] = "inner"
            BY DEF IInv, FeedOK, feed_end
          <5> QED  BY <5>1, <4>3, <1>0, ScanTypes DEF Scanning
        <4> QED  BY <4>1, <4>2, <4>3
      <3>2. first_free[i[c]] < page_bms[i[c]].npage =>
              Frame(page_bms[i[c]], first_free[i[c]]) \in data
        BY <3>1, <1>0, ScanTypes DEF Full
      <3> QED  BY <3>1, <3>2, <2>1 DEF feed_end, Leaving, Full
    <2> QED  BY <2>1, <2>2, <2>3, <1>3, FeedAlone DEF Scanning, Taking
  <1> QED  BY <1>1, <1>2, <1>3, <1>4, <1>5 DEF IInv
(* Preserved by bm_feed_stk looking at one page: the pushed frame was in   *)
(* no other use.                                                           *)
LEMMA Step_feed_page ==
  ASSUME IInv, NEW c \in Cpu, feed_page(c)
  PROVE  IInv'
PROOF
  <1> USE DEF meml_vars, pmm_vars, Goto, Return, k_mutex_lock, k_mutex_unlock
  <1> DEFINE bm == page_bms[i[c]]
             frame == Frame(bm, j[c])
  <1>0. TypeOK /\ i[c] \in DOMAIN page_bms
    BY DEF IInv, TypeOK, feed_page
  <1>a. /\ frame \in Nat /\ Covers(bm, frame) /\ Managed(frame)
        /\ j[c] < bm.npage /\ Len(page_stk) < PAGE_STK_CAP
    <2>1. Scanning(c) /\ pc[c] = "inner" /\ j[c] < bm.npage
      BY DEF IInv, FeedOK, feed_page
    <2> QED  BY <2>1, <1>0, ScanTypes DEF Scanning, Covers, Frame, Managed
  <1>b. /\ page_stk' \in Seq(Nat) /\ Len(page_stk') <= PAGE_STK_CAP
        /\ frame \notin data => /\ Len(page_stk') = Len(page_stk) + 1
                               /\ page_stk'[Len(page_stk) + 1] = frame
        /\ frame \in data => page_stk' = page_stk
        /\ \A n \in DOMAIN page_stk : n \in DOMAIN page_stk' /\ page_stk'[n] = page_stk[n]
        /\ \A n \in DOMAIN page_stk' : n \in DOMAIN page_stk
             \/ (n = Len(page_stk) + 1 /\ frame \notin data)
    <2>1. page_stk \in Seq(Nat) /\ PAGE_STK_CAP \in Nat
      BY <1>0, PmmAssumption DEF TypeOK
    <2>2. page_stk' = IF frame \in data THEN page_stk ELSE Append(page_stk, frame)
      BY DEF feed_page
    <2> HIDE DEF frame, bm
    <2>3. CASE frame \in data
      <3>1. page_stk' = page_stk /\ Len(page_stk) \in Nat
        BY <2>1, <2>2, <2>3
      <3> QED  BY <2>1, <2>3, <3>1, <1>a
    <2>4. CASE frame \notin data
      <3>1. page_stk' = Append(page_stk, frame) /\ Len(page_stk) \in Nat
        BY <2>1, <2>2, <2>4
      <3>2. /\ page_stk' \in Seq(Nat) /\ Len(page_stk') = Len(page_stk) + 1
            /\ page_stk'[Len(page_stk) + 1] = frame
            /\ \A n \in DOMAIN page_stk : page_stk'[n] = page_stk[n]
        BY <2>1, <3>1, <1>a
      <3> QED  BY <2>1, <2>4, <3>1, <3>2, <1>a
    <2> QED  BY <2>3, <2>4
  <1>c. /\ data' = data \cup {frame} /\ data' \subseteq Nat
        /\ UNCHANGED <<meml_vars, page_bms, first_free, mutex, up, owned, junk, i, arg>>
    BY <1>a DEF feed_page, IInv, TypeOK
  <1>d. \/ pc' = [pc EXCEPT ![c] = "hint"] /\ j' = j /\ Len(page_stk') >= PAGE_STK_CAP
        \/ /\ pc' = pc /\ j' = [j EXCEPT ![c] = @ + 1]
           /\ ~(Len(page_stk') >= PAGE_STK_CAP)
    BY DEF feed_page
  <1>e. pc[c] = "inner"
    BY DEF feed_page
  <1> HIDE DEF frame, bm
  <1>p. pc[c] = "inner" /\ \A d \in Cpu : pc'[d] = pc[d] \/ (d = c /\ pc'[d] = "hint")
    <2>1. pc \in [Cpu -> Labels]
      BY <1>0 DEF TypeOK
    <2>2. CASE pc' = [pc EXCEPT ![c] = "hint"]
      BY <2>1, <2>2, <1>e
    <2>3. CASE pc' = pc
      BY <2>3, <1>e
    <2> QED  BY <2>2, <2>3, <1>d
  <1>1. TypeOK'
    <2>a. pc \in [Cpu -> Labels] /\ j \in [Cpu -> Nat]
      BY <1>0 DEF TypeOK
    <2>1. pc' \in [Cpu -> Labels] /\ j' \in [Cpu -> Nat]
      BY <2>a, <1>d DEF Labels
    <2>2. \A d \in Cpu : pc'[d] \in {"inner", "hint"} => i'[d] \in DOMAIN page_bms'
      BY <1>0, <1>c, <1>d DEF TypeOK
    <2> QED  BY <2>1, <2>2, <1>0, <1>b, <1>c DEF TypeOK
  <1>2. LayoutOK' /\ BitsManaged' /\ HintSound'
    BY <1>a, <1>c DEF IInv, LayoutOK, FromMap, BitsManaged, Managed, HintSound
  <1>3. BootOK' /\ LockOK'
    <2>1. pc[BSP] \in {"meml", "hung", "init"} => FALSE
      BY <1>p, <1>c, PmmAssumption DEF IInv, BootOK
    <2>2. BootOK'
      BY <2>1, <1>p, <1>c, PmmAssumption DEF IInv, BootOK
    <2>3. LockOK'
      BY <1>p, <1>c DEF IInv, LockOK, Busy
    <2> QED  BY <2>2, <2>3
  <1>4. UseOK'
    <2>1. UseOK /\ page_bms' = page_bms /\ arg' = arg /\ owned' = owned /\ junk' = junk
      BY <1>c DEF IInv
    <2>2. \A d \in Cpu : pc'[d] = "free" <=> pc[d] = "free"
      BY <1>p
    <2>3. \A m, n \in DOMAIN page_stk' : page_stk'[m] = page_stk'[n] => m = n
      BY <2>1, <1>b DEF UseOK
    <2>4. \A n \in DOMAIN page_stk' :
            page_stk'[n] \in data' /\ page_stk'[n] \notin owned /\ page_stk'[n] \notin junk
      BY <2>1, <1>b, <1>c DEF UseOK
    <2>5. \A d \in Cpu : pc[d] = "free" /\ Managed(arg[d]) =>
            /\ arg[d] \in data' /\ arg[d] \notin owned /\ arg[d] \notin junk
            /\ \A n \in DOMAIN page_stk' : page_stk'[n] # arg[d]
      BY <2>1, <1>b, <1>c DEF UseOK
    <2>6. \A b \in data' :
            \/ b \in owned \/ b \in junk
            \/ \E n \in DOMAIN page_stk' : page_stk'[n] = b
            \/ \E d \in Cpu : pc'[d] = "free" /\ arg[d] = b
      <3> TAKE b \in data'
      <3>1. CASE b \in data
        BY <3>1, <2>1, <2>2, <1>b DEF UseOK, Freeing
      <3>2. CASE b \notin data
        <4>1. Len(page_stk) + 1 \in DOMAIN page_stk'
          BY <3>2, <1>0, <1>b, <1>c DEF TypeOK
        <4> QED  BY <4>1, <3>2, <1>b, <1>c
      <3> QED  BY <3>1, <3>2
    <2> QED  BY <2>1, <2>2, <2>3, <2>4, <2>5, <2>6, <1>c DEF UseOK, Freeing, Managed
  <1>5. FeedOK'
    <2>1. Busy(c)' /\ pc'[c] \in {"inner", "hint"}
      BY <1>p DEF Busy
    <2>2. Scanned(c) /\ Scanning(c)
      BY DEF IInv, FeedOK
    <2>3. page_stk' = <<>> => page_stk = <<>> /\ frame \in data
      BY <1>b, <1>0 DEF TypeOK
    <2>4. Scanned(c)'
      BY <2>2, <2>3, <1>p, <1>c DEF Scanned, Full
    <2>5. Scanning(c)'
      <3> SUFFICES ASSUME pc'[c] = "inner"
                   PROVE  /\ Len(page_stk') < PAGE_STK_CAP
                          /\ j'[c] >= first_free[i[c]]
                          /\ \A g \in first_free[i[c]] .. j'[c] - 1 :
                               g < bm.npage => Frame(bm, g) \in data'
        BY <1>c DEF Scanning, bm
      <3>1. j'[c] = j[c] + 1 /\ Len(page_stk') < PAGE_STK_CAP
        <4>1. Len(page_stk') \in Nat /\ PAGE_STK_CAP \in Nat /\ j \in [Cpu -> Nat]
              /\ pc \in [Cpu -> Labels]
          <5>1. page_stk' \in Seq(Nat)
            BY <1>b
          <5>2. Len(page_stk') \in Nat
            BY <5>1
          <5> QED  BY <5>2, <1>0, PmmAssumption DEF TypeOK
        <4> QED  BY <4>1, <1>d
      <3>2. /\ j[c] >= first_free[i[c]]
            /\ \A g \in first_free[i[c]] .. j[c] - 1 :
                 g < bm.npage => Frame(bm, g) \in data
        BY <2>2, <1>p DEF Scanning, bm
      <3>3. j[c] \in Nat /\ first_free[i[c]] \in Nat
        BY <1>0, ScanTypes
      <3>4. Frame(bm, j[c]) \in data'
        BY <1>c DEF frame
      <3> QED  BY <3>1, <3>2, <3>3, <3>4, <1>c
    <2>6. Leaving(c)'
      <3> SUFFICES ASSUME pc'[c] = "hint"
                   PROVE  /\ first_free[i[c]] < bm.npage =>
                               Frame(bm, first_free[i[c]]) \in data'
                          /\ page_stk' # <<>>
        BY <1>c DEF Leaving, bm
      <3>1. Len(page_stk') >= PAGE_STK_CAP
        BY <1>d, <1>p
      <3>2. page_stk' # <<>>
        BY <3>1, <1>b, PmmAssumption
      <3>3. j[c] \in Nat /\ first_free[i[c]] \in Nat
        BY <1>0, ScanTypes
      <3>4. /\ j[c] >= first_free[i[c]]
            /\ \A g \in first_free[i[c]] .. j[c] - 1 :
                 g < bm.npage => Frame(bm, g) \in data
        BY <2>2, <1>p DEF Scanning, bm
      <3>5. Frame(bm, j[c]) \in data'
        BY <1>c DEF frame
      <3>6. first_free[i[c]] = j[c] \/ first_free[i[c]] \in first_free[i[c]] .. j[c] - 1
        BY <3>3, <3>4
      <3> QED  BY <3>2, <3>4, <3>5, <3>6, <1>c
    <2> QED  BY <2>1, <2>4, <2>5, <2>6, <1>3, FeedAlone DEF Taking
  <1> QED  BY <1>1, <1>2, <1>3, <1>4, <1>5 DEF IInv

(* Preserved by bm_feed_stk moving a hint: everything it passes is set.    *)
LEMMA Step_feed_hint ==
  ASSUME IInv, NEW c \in Cpu, feed_hint(c)
  PROVE  IInv'
PROOF
  <1> USE DEF meml_vars, pmm_vars, Goto, Return, k_mutex_lock, k_mutex_unlock
  <1> DEFINE bm == page_bms[i[c]]
             start == first_free[i[c]] + 1
  <1>0. TypeOK /\ i[c] \in DOMAIN page_bms /\ pc[c] = "hint"
    BY DEF IInv, TypeOK, feed_hint
  <1>a. bm.npage \in Nat /\ bm.base \in Nat /\ first_free[i[c]] \in Nat
        /\ i[c] \in DOMAIN first_free /\ i[c] \in Nat
    BY <1>0, ScanTypes
  <1>b. PICK f \in start .. start + bm.npage :
          bm_find_first_free(bm, start, f) /\ first_free' = [first_free EXCEPT ![i[c]] = f]
    BY DEF feed_hint
  <1>c. /\ UNCHANGED <<meml_vars, page_bms, data, page_stk, mutex, up, owned, junk, arg>>
        /\ i' = [i EXCEPT ![c] = @ + 1] /\ j' = [j EXCEPT ![c] = 0]
        /\ pc' = [pc EXCEPT ![c] = "outer"]
    BY DEF feed_hint
  <1> HIDE DEF bm
  <1>1. TypeOK'
    <2>1. /\ pc' \in [Cpu -> Labels] /\ i' \in [Cpu -> Nat \ {0}] /\ j' \in [Cpu -> Nat]
      BY <1>0, <1>c DEF TypeOK, Labels
    <2>2. \A d \in Cpu : pc'[d] \in {"inner", "hint"} => i'[d] \in DOMAIN page_bms'
      BY <1>0, <1>c DEF TypeOK
    <2>3. first_free' \in Seq(Nat) /\ Len(first_free') = Len(first_free)
      BY <1>0, <1>a, <1>b DEF TypeOK
    <2> QED  BY <2>1, <2>2, <2>3, <1>0, <1>c DEF TypeOK
  <1>2. LayoutOK' /\ BitsManaged'
    BY <1>c DEF IInv, LayoutOK, FromMap, BitsManaged, Managed
  <1>3. BootOK' /\ LockOK'
    <2>1. BootOK'
      BY <1>0, <1>c, PmmAssumption DEF IInv, TypeOK, BootOK
    <2>2. LockOK'
      BY <1>0, <1>c DEF IInv, TypeOK, LockOK, Busy
    <2> QED  BY <2>1, <2>2
  <1>4. UseOK'
    <2>1. \A d \in Cpu : pc'[d] = "free" <=> pc[d] = "free"
      BY <1>0, <1>c DEF TypeOK
    <2> QED  BY <2>1, <1>c, UseFrame DEF IInv
  <1>5. FeedOK'
    <2>1. Busy(c)' /\ pc'[c] = "outer" /\ i'[c] = i[c] + 1
      BY <1>0, <1>c DEF TypeOK, Busy
    <2>2. Scanned(c) /\ Leaving(c)
      BY DEF IInv, FeedOK
    <2>3. Scanned(c)'
      <3> SUFFICES ASSUME page_stk = <<>>, NEW k \in DOMAIN page_bms, k < i[c] + 1
                   PROVE  Full(k)
        BY <2>1, <1>c DEF Scanned, Full
      <3>1. k < i[c] \/ k = i[c]
        BY <1>0, <1>a DEF TypeOK
      <3> QED  BY <3>1, <2>2, <1>0 DEF Scanned, Leaving
    <2> QED  BY <2>1, <2>3, <1>3, FeedAlone DEF Scanning, Leaving, Taking
  <1>6. HintSound'
    <2> SUFFICES ASSUME NEW k \in DOMAIN page_bms, NEW g \in 0 .. first_free'[k] - 1,
                        g < page_bms[k].npage
                 PROVE  Frame(page_bms[k], g) \in data
      BY <1>c DEF HintSound
    <2>1. CASE k # i[c]
      <3>1. first_free'[k] = first_free[k]
        BY <2>1, <1>0, <1>b DEF TypeOK
      <3> QED  BY <3>1 DEF IInv, HintSound
    <2>2. CASE k = i[c]
      <3>1. first_free'[k] = f
        BY <2>2, <1>a, <1>b
      <3>2. g < first_free[k] \/ g = first_free[k] \/ g \in start .. f - 1
        BY <3>1, <2>2, <1>a, <1>b
      <3>3. CASE g < first_free[k]
        BY <3>3, <2>2, <1>a DEF IInv, HintSound
      <3>4. CASE g = first_free[k]
        BY <3>4, <2>2, <1>0 DEF IInv, FeedOK, Leaving
      <3>5. CASE g \in start .. f - 1
        BY <3>5, <2>2, <1>b DEF bm_find_first_free, bm
      <3> QED  BY <3>2, <3>3, <3>4, <3>5
    <2> QED  BY <2>1, <2>2
  <1> QED  BY <1>1, <1>2, <1>3, <1>4, <1>5, <1>6 DEF IInv
(* Preserved by bm_feed_stk returning: an empty stack means all regions    *)
(* are full.                                                               *)
LEMMA Step_feed_done ==
  ASSUME IInv, NEW c \in Cpu, feed_done(c)
  PROVE  IInv'
PROOF
  <1> USE DEF meml_vars, pmm_vars, Goto, Return, k_mutex_lock, k_mutex_unlock
  <1>1. TypeOK'
    <2>1. pc' \in [Cpu -> Labels] /\ i' \in [Cpu -> Nat \ {0}] /\ j' \in [Cpu -> Nat]
          /\ arg' \in [Cpu -> Nat]
      BY DEF IInv, TypeOK, feed_done, Labels, PHYS_ADDR_NULL
    <2>2. \A d \in Cpu : pc'[d] \in {"inner", "hint"} => i'[d] \in DOMAIN page_bms'
      BY DEF IInv, TypeOK, feed_done
    <2> QED  BY <2>1, <2>2 DEF IInv, TypeOK, feed_done, k_mutex_t
  <1>2. LayoutOK' /\ BitsManaged' /\ HintSound'
    BY DEF IInv, feed_done, LayoutOK, FromMap, BitsManaged, Managed, HintSound
  <1>3. BootOK' /\ LockOK'
    <2>1. BootOK'
      BY PmmAssumption DEF IInv, TypeOK, feed_done, BootOK, LockOK, Busy
    <2>2. LockOK'
      BY DEF IInv, TypeOK, feed_done, BootOK, LockOK, Busy, k_mutex_t
    <2> QED  BY <2>1, <2>2
  <1>4. UseOK'
    <2>1. \A d \in Cpu : pc'[d] = "free" <=> pc[d] = "free"
      BY DEF IInv, TypeOK, feed_done
    <2>2. \A d \in Cpu : pc[d] = "free" => arg'[d] = arg[d]
      BY DEF IInv, TypeOK, feed_done
    <2> QED  BY <2>1, <2>2, UseFrame DEF IInv, feed_done
  <1>5. FeedOK'
    <2>1. CASE ~up
      <3>1. \A d \in Cpu : ~Busy(d)'
        BY <2>1 DEF IInv, TypeOK, LockOK, feed_done, Busy
      <3> QED  BY <3>1, FeedNone
    <2>2. CASE up
      <3>1. pc'[c] = "take" /\ Busy(c)'
        BY <2>2 DEF IInv, TypeOK, feed_done, Busy
      <3>2. Taking(c)'
        <4> SUFFICES ASSUME page_stk = <<>>, NEW k \in DOMAIN page_bms
                     PROVE  Full(k)
          BY DEF feed_done, Taking, Full
        <4>1. k < i[c]
          BY PmmAssumption DEF IInv, TypeOK, feed_done
        <4> QED  BY <4>1 DEF IInv, FeedOK, Scanned, feed_done
      <3> QED  BY <3>1, <3>2, <1>3, FeedAlone DEF Scanned, Scanning, Leaving
    <2> QED  BY <2>1, <2>2 DEF IInv, TypeOK
  <1> QED  BY <1>1, <1>2, <1>3, <1>4, <1>5 DEF IInv

(* Preserved by pmm_alloc taking the lock.                                 *)
LEMMA Step_alloc_lock ==
  ASSUME IInv, NEW c \in Cpu, alloc_lock(c)
  PROVE  IInv'
PROOF
  <1> USE DEF meml_vars, pmm_vars, Goto, Return, k_mutex_lock, k_mutex_unlock
  <1>1. TypeOK'
    <2>1. pc' \in [Cpu -> Labels] /\ i' \in [Cpu -> Nat \ {0}] /\ j' \in [Cpu -> Nat]
          /\ arg' \in [Cpu -> Nat]
      BY DEF IInv, TypeOK, alloc_lock, Labels, PHYS_ADDR_NULL
    <2>2. \A d \in Cpu : pc'[d] \in {"inner", "hint"} => i'[d] \in DOMAIN page_bms'
      BY DEF IInv, TypeOK, alloc_lock
    <2> QED  BY <2>1, <2>2 DEF IInv, TypeOK, alloc_lock, k_mutex_t
  <1>2. LayoutOK' /\ BitsManaged' /\ HintSound'
    BY DEF IInv, alloc_lock, LayoutOK, FromMap, BitsManaged, Managed, HintSound
  <1>3. BootOK' /\ LockOK'
    <2>1. BootOK'
      BY PmmAssumption DEF IInv, TypeOK, alloc_lock, BootOK, LockOK, Busy
    <2>2. LockOK'
      BY DEF IInv, TypeOK, alloc_lock, BootOK, LockOK, Busy, k_mutex_t
    <2> QED  BY <2>1, <2>2
  <1>4. UseOK'
    <2>1. \A d \in Cpu : pc'[d] = "free" <=> pc[d] = "free"
      BY DEF IInv, TypeOK, alloc_lock
    <2>2. \A d \in Cpu : pc[d] = "free" => arg'[d] = arg[d]
      BY DEF IInv, TypeOK, alloc_lock
    <2> QED  BY <2>1, <2>2, UseFrame DEF IInv, alloc_lock
  <1>5. FeedOK'
    <2>1. Busy(c)' /\ pc'[c] \in {"outer", "take"} /\ i'[c] = 1 /\ page_stk' = page_stk
      BY DEF IInv, TypeOK, alloc_lock, Busy
    <2>2. pc'[c] = "take" => page_stk # <<>>
      BY DEF IInv, TypeOK, alloc_lock
    <2>3. Scanned(c)'
      BY <2>1 DEF IInv, TypeOK, alloc_lock, Scanned
    <2> QED  BY <2>1, <2>2, <2>3, <1>3, FeedAlone DEF Scanning, Leaving, Taking
  <1> QED  BY <1>1, <1>2, <1>3, <1>4, <1>5 DEF IInv

(* Preserved by pmm_alloc returning PHYS_ADDR_NULL.                        *)
LEMMA Step_alloc_fail ==
  ASSUME IInv, NEW c \in Cpu, alloc_fail(c)
  PROVE  IInv'
PROOF
  <1> USE DEF meml_vars, pmm_vars, Goto, Return, k_mutex_lock, k_mutex_unlock
  <1>1. TypeOK'
    <2>1. pc' \in [Cpu -> Labels] /\ i' \in [Cpu -> Nat \ {0}] /\ j' \in [Cpu -> Nat]
          /\ arg' \in [Cpu -> Nat]
      BY DEF IInv, TypeOK, alloc_fail, Labels, PHYS_ADDR_NULL
    <2>2. \A d \in Cpu : pc'[d] \in {"inner", "hint"} => i'[d] \in DOMAIN page_bms'
      BY DEF IInv, TypeOK, alloc_fail
    <2> QED  BY <2>1, <2>2 DEF IInv, TypeOK, alloc_fail, k_mutex_t
  <1>2. LayoutOK' /\ BitsManaged' /\ HintSound'
    BY DEF IInv, alloc_fail, LayoutOK, FromMap, BitsManaged, Managed, HintSound
  <1>3. BootOK' /\ LockOK'
    <2>1. BootOK'
      BY PmmAssumption DEF IInv, TypeOK, alloc_fail, BootOK, LockOK, Busy
    <2>2. LockOK'
      BY DEF IInv, TypeOK, alloc_fail, BootOK, LockOK, Busy, k_mutex_t
    <2> QED  BY <2>1, <2>2
  <1>4. UseOK'
    <2>1. \A d \in Cpu : pc'[d] = "free" <=> pc[d] = "free"
      BY DEF IInv, TypeOK, alloc_fail
    <2>2. \A d \in Cpu : pc[d] = "free" => arg'[d] = arg[d]
      BY DEF IInv, TypeOK, alloc_fail
    <2> QED  BY <2>1, <2>2, UseFrame DEF IInv, alloc_fail
  <1>5. FeedOK'
    <2>1. \A d \in Cpu : ~Busy(d)'
      BY DEF IInv, TypeOK, LockOK, alloc_fail, Busy
    <2> QED  BY <2>1, FeedNone
  <1> QED  BY <1>1, <1>2, <1>3, <1>4, <1>5 DEF IInv

(* Preserved by pmm_avl finding the bitmap.                                *)
LEMMA Step_avl_find ==
  ASSUME IInv, NEW c \in Cpu, avl_find(c)
  PROVE  IInv'
PROOF
  <1> USE DEF meml_vars, pmm_vars, Goto, Return, k_mutex_lock, k_mutex_unlock
  <1>1. TypeOK'
    <2>1. pc' \in [Cpu -> Labels] /\ i' \in [Cpu -> Nat \ {0}] /\ j' \in [Cpu -> Nat]
          /\ arg' \in [Cpu -> Nat]
      BY DEF IInv, TypeOK, avl_find, Labels, PHYS_ADDR_NULL
    <2>2. \A d \in Cpu : pc'[d] \in {"inner", "hint"} => i'[d] \in DOMAIN page_bms'
      BY DEF IInv, TypeOK, avl_find
    <2> QED  BY <2>1, <2>2 DEF IInv, TypeOK, avl_find, k_mutex_t
  <1>2. LayoutOK' /\ BitsManaged' /\ HintSound'
    BY DEF IInv, avl_find, LayoutOK, FromMap, BitsManaged, Managed, HintSound
  <1>3. BootOK' /\ LockOK'
    <2>1. BootOK'
      BY PmmAssumption DEF IInv, TypeOK, avl_find, BootOK, LockOK, Busy
    <2>2. LockOK'
      BY DEF IInv, TypeOK, avl_find, BootOK, LockOK, Busy, k_mutex_t
    <2> QED  BY <2>1, <2>2
  <1>4. UseOK'
    <2>1. \A d \in Cpu : pc'[d] = "free" <=> pc[d] = "free"
      BY DEF IInv, TypeOK, avl_find
    <2>2. \A d \in Cpu : pc[d] = "free" => arg'[d] = arg[d]
      BY DEF IInv, TypeOK, avl_find
    <2> QED  BY <2>1, <2>2, UseFrame DEF IInv, avl_find
  <1>5. FeedOK'
    <2>1. \A d \in Cpu : ~Busy(d)'
      BY DEF IInv, TypeOK, LockOK, avl_find, Busy
    <2> QED  BY <2>1, FeedNone
  <1> QED  BY <1>1, <1>2, <1>3, <1>4, <1>5 DEF IInv

(* Preserved by pmm_avl taking the lock.                                   *)
LEMMA Step_avl_lock ==
  ASSUME IInv, NEW c \in Cpu, avl_lock(c)
  PROVE  IInv'
PROOF
  <1> USE DEF meml_vars, pmm_vars, Goto, Return, k_mutex_lock, k_mutex_unlock
  <1>1. TypeOK'
    <2>0. arg' \in [Cpu -> Nat]
      <3>1. \A k \in DOMAIN page_bms : page_bms[k].base \in Nat /\ page_bms[k].npage \in Nat
        BY BitmapTypes DEF IInv
      <3>2. ManagedFrames \subseteq Nat
        BY <3>1 DEF ManagedFrames
      <3> QED  BY <3>2 DEF IInv, TypeOK, avl_lock, PHYS_ADDR_NULL
    <2>1. pc' \in [Cpu -> Labels] /\ i' \in [Cpu -> Nat \ {0}] /\ j' \in [Cpu -> Nat]
          /\ arg' \in [Cpu -> Nat]
      BY <2>0 DEF IInv, TypeOK, avl_lock, Labels
    <2>2. \A d \in Cpu : pc'[d] \in {"inner", "hint"} => i'[d] \in DOMAIN page_bms'
      BY DEF IInv, TypeOK, avl_lock
    <2>3. /\ mutex' \in k_mutex_t
          /\ UNCHANGED <<meml_vars, page_bms, first_free, data, page_stk, up, owned,
                         junk>>
      BY DEF avl_lock, k_mutex_t
    <2> QED  BY <2>1, <2>2, <2>3 DEF IInv, TypeOK
  <1>2. LayoutOK' /\ BitsManaged' /\ HintSound'
    BY DEF IInv, avl_lock, LayoutOK, FromMap, BitsManaged, Managed, HintSound
  <1>3. BootOK' /\ LockOK'
    <2>1. BootOK'
      BY PmmAssumption DEF IInv, TypeOK, avl_lock, BootOK, LockOK, Busy
    <2>2. LockOK'
      BY DEF IInv, TypeOK, avl_lock, BootOK, LockOK, Busy, k_mutex_t
    <2> QED  BY <2>1, <2>2
  <1>4. UseOK'
    <2>1. \A d \in Cpu : pc'[d] = "free" <=> pc[d] = "free"
      BY DEF IInv, TypeOK, avl_lock
    <2>2. \A d \in Cpu : pc[d] = "free" => arg'[d] = arg[d]
      BY DEF IInv, TypeOK, avl_lock
    <2> QED  BY <2>1, <2>2, UseFrame DEF IInv, avl_lock
  <1>5. FeedOK'
    <2>1. Busy(c)' /\ pc'[c] = "avl"
      BY DEF IInv, TypeOK, avl_lock, Busy
    <2> QED  BY <2>1, <1>3, FeedAlone DEF Scanned, Scanning, Leaving, Taking
  <1> QED  BY <1>1, <1>2, <1>3, <1>4, <1>5 DEF IInv

(* Preserved by pmm_avl reading the bit.                                   *)
LEMMA Step_avl_rd ==
  ASSUME IInv, NEW c \in Cpu, avl_rd(c)
  PROVE  IInv'
PROOF
  <1> USE DEF meml_vars, pmm_vars, Goto, Return, k_mutex_lock, k_mutex_unlock
  <1>1. TypeOK'
    <2>1. pc' \in [Cpu -> Labels] /\ i' \in [Cpu -> Nat \ {0}] /\ j' \in [Cpu -> Nat]
          /\ arg' \in [Cpu -> Nat]
      BY DEF IInv, TypeOK, avl_rd, Labels, PHYS_ADDR_NULL
    <2>2. \A d \in Cpu : pc'[d] \in {"inner", "hint"} => i'[d] \in DOMAIN page_bms'
      BY DEF IInv, TypeOK, avl_rd
    <2> QED  BY <2>1, <2>2 DEF IInv, TypeOK, avl_rd, k_mutex_t
  <1>2. LayoutOK' /\ BitsManaged' /\ HintSound'
    BY DEF IInv, avl_rd, LayoutOK, FromMap, BitsManaged, Managed, HintSound
  <1>3. BootOK' /\ LockOK'
    <2>1. BootOK'
      BY PmmAssumption DEF IInv, TypeOK, avl_rd, BootOK, LockOK, Busy
    <2>2. LockOK'
      BY DEF IInv, TypeOK, avl_rd, BootOK, LockOK, Busy, k_mutex_t
    <2> QED  BY <2>1, <2>2
  <1>4. UseOK'
    <2>1. \A d \in Cpu : pc'[d] = "free" <=> pc[d] = "free"
      BY DEF IInv, TypeOK, avl_rd
    <2>2. \A d \in Cpu : pc[d] = "free" => arg'[d] = arg[d]
      BY DEF IInv, TypeOK, avl_rd
    <2> QED  BY <2>1, <2>2, UseFrame DEF IInv, avl_rd
  <1>5. FeedOK'
    <2> SUFFICES ASSUME NEW d \in Cpu
                 PROVE  (Scanned(d) /\ Scanning(d) /\ Leaving(d) /\ Taking(d))'
      BY DEF FeedOK
    <2>1. CASE d = c
      <3>1. pc'[c] \in {"idle", "avl_true", "avl_false"}
        BY DEF IInv, TypeOK, avl_rd
      <3> QED  BY <2>1, <3>1 DEF Scanned, Scanning, Leaving, Taking
    <2>2. CASE d # c
      <3>1. pc'[d] = pc[d] /\ UNCHANGED <<pmm_vars, i, j>>
        BY <2>2 DEF IInv, TypeOK, avl_rd
      <3> QED
        BY <3>1 DEF IInv, FeedOK, Scanned, Scanning, Leaving, Taking, Full
    <2> QED  BY <2>1, <2>2
  <1> QED  BY <1>1, <1>2, <1>3, <1>4, <1>5 DEF IInv

(* Preserved by pmm_avl returning.                                         *)
LEMMA Step_avl_return ==
  ASSUME IInv, NEW c \in Cpu, avl_return(c)
  PROVE  IInv'
PROOF
  <1> USE DEF meml_vars, pmm_vars, Goto, Return, k_mutex_lock, k_mutex_unlock
  <1>1. TypeOK'
    <2>1. pc' \in [Cpu -> Labels] /\ i' \in [Cpu -> Nat \ {0}] /\ j' \in [Cpu -> Nat]
          /\ arg' \in [Cpu -> Nat]
      BY DEF IInv, TypeOK, avl_return, Labels, PHYS_ADDR_NULL
    <2>2. \A d \in Cpu : pc'[d] \in {"inner", "hint"} => i'[d] \in DOMAIN page_bms'
      BY DEF IInv, TypeOK, avl_return
    <2> QED  BY <2>1, <2>2 DEF IInv, TypeOK, avl_return, k_mutex_t
  <1>2. LayoutOK' /\ BitsManaged' /\ HintSound'
    BY DEF IInv, avl_return, LayoutOK, FromMap, BitsManaged, Managed, HintSound
  <1>3. BootOK' /\ LockOK'
    <2>1. BootOK'
      BY PmmAssumption DEF IInv, TypeOK, avl_return, BootOK, LockOK, Busy
    <2>2. LockOK'
      BY DEF IInv, TypeOK, avl_return, BootOK, LockOK, Busy, k_mutex_t
    <2> QED  BY <2>1, <2>2
  <1>4. UseOK'
    <2>1. \A d \in Cpu : pc'[d] = "free" <=> pc[d] = "free"
      BY DEF IInv, TypeOK, avl_return
    <2>2. \A d \in Cpu : pc[d] = "free" => arg'[d] = arg[d]
      BY DEF IInv, TypeOK, avl_return
    <2> QED  BY <2>1, <2>2, UseFrame DEF IInv, avl_return
  <1>5. FeedOK'
    <2> SUFFICES ASSUME NEW d \in Cpu
                 PROVE  (Scanned(d) /\ Scanning(d) /\ Leaving(d) /\ Taking(d))'
      BY DEF FeedOK
    <2>1. CASE d = c
      <3>1. pc'[c] \in {"idle", "avl_true", "avl_false"}
        BY DEF IInv, TypeOK, avl_return
      <3> QED  BY <2>1, <3>1 DEF Scanned, Scanning, Leaving, Taking
    <2>2. CASE d # c
      <3>1. pc'[d] = pc[d] /\ UNCHANGED <<pmm_vars, i, j>>
        BY <2>2 DEF IInv, TypeOK, avl_return
      <3> QED
        BY <3>1 DEF IInv, FeedOK, Scanned, Scanning, Leaving, Taking, Full
    <2> QED  BY <2>1, <2>2
  <1> QED  BY <1>1, <1>2, <1>3, <1>4, <1>5 DEF IInv
(* What is left of a sequence after its last elements are dropped.         *)
LEMMA Prefix ==
  ASSUME NEW S, NEW s \in Seq(S), NEW n \in Nat, n <= Len(s)
  PROVE  /\ SubSeq(s, 1, n) \in Seq(S)
         /\ Len(SubSeq(s, 1, n)) = n
         /\ \A k \in 1 .. n : SubSeq(s, 1, n)[k] = s[k]
PROOF
  <1>1. SubSeq(s, 1, n) \in Seq(S)
    OBVIOUS
  <1>2. Len(SubSeq(s, 1, n)) = n
    OBVIOUS
  <1>3. \A k \in 1 .. n : SubSeq(s, 1, n)[k] = s[k]
    OBVIOUS
  <1> QED  BY <1>1, <1>2, <1>3

(* Preserved by pmm_alloc popping the stack: the frame changes from        *)
(* stacked to owned.                                                       *)
LEMMA Step_alloc_pop ==
  ASSUME IInv, NEW c \in Cpu, alloc_pop(c)
  PROVE  IInv'
PROOF
  <1> USE DEF meml_vars, pmm_vars, Goto, Return, k_mutex_lock, k_mutex_unlock
  <1> DEFINE top == Len(page_stk)
  <1>a. page_stk \in Seq(Nat) /\ top \in Nat /\ top >= 1 /\ top \in DOMAIN page_stk
    BY DEF IInv, TypeOK, alloc_pop
  <1>b. /\ page_stk' \in Seq(Nat) /\ Len(page_stk') = top - 1
        /\ \A n \in DOMAIN page_stk' :
             n \in DOMAIN page_stk /\ n < top /\ page_stk'[n] = page_stk[n]
        /\ \A n \in DOMAIN page_stk : n < top => n \in DOMAIN page_stk'
    <2>1. page_stk' = SubSeq(page_stk, 1, top - 1)
      BY DEF alloc_pop
    <2>2. page_stk' \in Seq(Nat) /\ Len(page_stk') = top - 1
      <3>1. top - 1 \in Nat /\ top - 1 <= Len(page_stk) /\ page_stk \in Seq(Nat)
        BY <1>a
      <3>2. /\ SubSeq(page_stk, 1, top - 1) \in Seq(Nat)
            /\ Len(SubSeq(page_stk, 1, top - 1)) = top - 1
        BY <3>1, Prefix, Zenon
      <3> QED  BY <3>2, <2>1, Zenon
    <2>3. DOMAIN page_stk' = 1 .. top - 1 /\ DOMAIN page_stk = 1 .. top
      BY <2>2, <1>a
    <2>4. \A n \in 1 .. top - 1 : page_stk'[n] = page_stk[n]
      BY <2>1, <1>a, Prefix
    <2> QED  BY <2>2, <2>3, <2>4, <1>a
  <1>c. owned' = owned \cup {page_stk[top]} /\ owned' \subseteq Nat
    <2>1. owned' = owned \cup {page_stk[top]}
      BY DEF alloc_pop
    <2>2. page_stk[top] \in Nat
      BY <1>a
    <2> QED  BY <2>1, <2>2 DEF IInv, TypeOK
  <1>1. TypeOK'
    <2>1. pc' \in [Cpu -> Labels] /\ i' \in [Cpu -> Nat \ {0}] /\ j' \in [Cpu -> Nat]
          /\ arg' \in [Cpu -> Nat]
      BY DEF IInv, TypeOK, alloc_pop, Labels, PHYS_ADDR_NULL
    <2>2. \A d \in Cpu : pc'[d] \in {"inner", "hint"} => i'[d] \in DOMAIN page_bms'
      BY DEF IInv, TypeOK, alloc_pop
    <2>3. Len(page_stk') <= PAGE_STK_CAP
      BY <1>a, <1>b, PmmAssumption DEF IInv, TypeOK
    <2>4. UNCHANGED <<meml_vars, page_bms, first_free, data, up, junk>>
      BY DEF alloc_pop
    <2>5. TypeOK /\ mutex' \in k_mutex_t
      BY DEF IInv, alloc_pop, k_mutex_t
    <2> QED  BY <2>1, <2>2, <2>3, <2>4, <2>5, <1>b, <1>c DEF TypeOK
  <1>2. LayoutOK' /\ BitsManaged' /\ HintSound'
    BY DEF IInv, alloc_pop, LayoutOK, FromMap, BitsManaged, Managed, HintSound
  <1>3. BootOK' /\ LockOK'
    <2>1. BootOK'
      BY PmmAssumption DEF IInv, TypeOK, alloc_pop, BootOK, LockOK, Busy
    <2>2. LockOK'
      BY DEF IInv, TypeOK, alloc_pop, BootOK, LockOK, Busy, k_mutex_t
    <2> QED  BY <2>1, <2>2
  <1>4. UseOK'
    <2>1. UseOK /\ page_bms' = page_bms /\ arg' = arg /\ data' = data /\ junk' = junk
      BY DEF IInv, alloc_pop
    <2>2. \A d \in Cpu : pc'[d] = "free" <=> pc[d] = "free"
      BY DEF IInv, TypeOK, alloc_pop
    <2>3. \A n \in DOMAIN page_stk : n < top \/ n = top
      BY <1>a
    <2>4. /\ \A m, n \in DOMAIN page_stk' : page_stk'[m] = page_stk'[n] => m = n
          /\ \A n \in DOMAIN page_stk' :
               /\ page_stk'[n] \in data /\ page_stk'[n] \notin owned'
               /\ page_stk'[n] \notin junk
      BY <2>1, <1>a, <1>b, <1>c DEF UseOK
    <2>5. \A b \in owned' : b \in data /\ b \notin junk
      BY <2>1, <1>a, <1>c DEF UseOK
    <2>6. \A d \in Cpu : pc[d] = "free" /\ Managed(arg[d]) =>
            /\ arg[d] \in data /\ arg[d] \notin owned' /\ arg[d] \notin junk
            /\ \A n \in DOMAIN page_stk' : page_stk'[n] # arg[d]
      BY <2>1, <1>a, <1>b, <1>c DEF UseOK
    <2>7. \A b \in data :
            \/ b \in owned' \/ b \in junk
            \/ \E n \in DOMAIN page_stk' : page_stk'[n] = b
            \/ \E d \in Cpu : pc'[d] = "free" /\ arg[d] = b
      BY <2>1, <2>2, <2>3, <1>a, <1>b, <1>c DEF UseOK, Freeing
    <2> QED  BY <2>1, <2>2, <2>4, <2>5, <2>6, <2>7 DEF UseOK, Freeing, Managed
  <1>5. FeedOK'
    <2>1. \A d \in Cpu : ~Busy(d)'
      BY DEF IInv, TypeOK, LockOK, alloc_pop, Busy
    <2> QED  BY <2>1, FeedNone
  <1> QED  BY <1>1, <1>2, <1>3, <1>4, <1>5 DEF IInv

(* Preserved by pmm_free taking the lock.                                  *)
LEMMA Step_free_lock ==
  ASSUME IInv, NEW c \in Cpu, free_lock(c)
  PROVE  IInv'
PROOF
  <1> USE DEF meml_vars, pmm_vars, Goto, Return, k_mutex_lock, k_mutex_unlock
  <1>a. PICK b \in owned \cup {PHYS_ADDR_NULL} :
          arg' = [arg EXCEPT ![c] = b] /\ owned' = owned \ {b}
    BY DEF free_lock
  <1>b. b \in Nat /\ owned' \subseteq Nat
    BY <1>a DEF IInv, TypeOK, PHYS_ADDR_NULL
  <1>1. TypeOK'
    <2>1. pc' \in [Cpu -> Labels] /\ i' \in [Cpu -> Nat \ {0}] /\ j' \in [Cpu -> Nat]
          /\ arg' \in [Cpu -> Nat]
      BY <1>a, <1>b DEF IInv, TypeOK, free_lock, Labels
    <2>2. \A d \in Cpu : pc'[d] \in {"inner", "hint"} => i'[d] \in DOMAIN page_bms'
      BY DEF IInv, TypeOK, free_lock
    <2> QED  BY <2>1, <2>2, <1>b DEF IInv, TypeOK, free_lock, k_mutex_t
  <1>2. LayoutOK' /\ BitsManaged' /\ HintSound'
    BY DEF IInv, free_lock, LayoutOK, FromMap, BitsManaged, Managed, HintSound
  <1>3. BootOK' /\ LockOK'
    <2>1. BootOK'
      BY PmmAssumption DEF IInv, TypeOK, free_lock, BootOK, LockOK, Busy
    <2>2. LockOK'
      BY DEF IInv, TypeOK, free_lock, BootOK, LockOK, Busy, k_mutex_t
    <2> QED  BY <2>1, <2>2
  <1>4. UseOK'
    <2>1. /\ UseOK
          /\ UNCHANGED <<page_bms, data, page_stk, junk>>
          /\ pc'[c] = "free" /\ arg'[c] = b
      BY <1>a DEF IInv, TypeOK, free_lock
    <2>2. \A d \in Cpu : pc[d] # "free" /\ (d # c => pc'[d] # "free")
      BY DEF IInv, TypeOK, BootOK, LockOK, Busy, free_lock
    <2>3. Managed(b) => b \in owned
      <3>1. b # PHYS_ADDR_NULL => b \in owned
        BY <1>a
      <3>2. ~Managed(PHYS_ADDR_NULL)
        BY RegionsApart, BitmapTypes DEF IInv, Managed, Covers, PHYS_ADDR_NULL
      <3> QED  BY <3>1, <3>2
    <2>4. Managed(b) =>
            /\ b \in data /\ b \notin owned' /\ b \notin junk
            /\ \A n \in DOMAIN page_stk : page_stk[n] # b
      BY <2>1, <2>3, <1>a DEF UseOK
    <2>5. \A e \in data :
            \/ e \in owned' \/ e \in junk
            \/ \E n \in DOMAIN page_stk : page_stk[n] = e
            \/ \E d \in Cpu : pc'[d] = "free" /\ arg'[d] = e
      BY <2>1, <2>2, <1>a DEF UseOK, Freeing
    <2> QED  BY <2>1, <2>2, <2>4, <2>5, <1>a DEF UseOK, Freeing, Managed
  <1>5. FeedOK'
    <2>1. Busy(c)' /\ pc'[c] = "free"
      BY DEF IInv, TypeOK, free_lock, Busy
    <2> QED  BY <2>1, <1>3, FeedAlone DEF Scanned, Scanning, Leaving, Taking
  <1> QED  BY <1>1, <1>2, <1>3, <1>4, <1>5 DEF IInv

(* Preserved by pmm_free of an address no bitmap covers.                   *)
LEMMA Step_free_foreign ==
  ASSUME IInv, NEW c \in Cpu, free_foreign(c)
  PROVE  IInv'
PROOF
  <1> USE DEF meml_vars, pmm_vars, Goto, Return, k_mutex_lock, k_mutex_unlock
  <1>1. TypeOK'
    <2>1. pc' \in [Cpu -> Labels] /\ i' \in [Cpu -> Nat \ {0}] /\ j' \in [Cpu -> Nat]
          /\ arg' \in [Cpu -> Nat]
      BY DEF IInv, TypeOK, free_foreign, Labels, PHYS_ADDR_NULL
    <2>2. \A d \in Cpu : pc'[d] \in {"inner", "hint"} => i'[d] \in DOMAIN page_bms'
      BY DEF IInv, TypeOK, free_foreign
    <2> QED  BY <2>1, <2>2 DEF IInv, TypeOK, free_foreign, k_mutex_t
  <1>2. LayoutOK' /\ BitsManaged' /\ HintSound'
    BY DEF IInv, free_foreign, LayoutOK, FromMap, BitsManaged, Managed, HintSound
  <1>3. BootOK' /\ LockOK'
    <2>1. BootOK'
      BY PmmAssumption DEF IInv, TypeOK, free_foreign, BootOK, LockOK, Busy
    <2>2. LockOK'
      BY DEF IInv, TypeOK, free_foreign, BootOK, LockOK, Busy, k_mutex_t
    <2> QED  BY <2>1, <2>2
  <1>4. UseOK'
    <2>1. /\ UseOK /\ pc[c] = "free"
          /\ UNCHANGED <<page_bms, page_stk, owned, junk>>
      BY DEF IInv, free_foreign
    <2>2. \A d \in Cpu : pc'[d] # "free" /\ (d # c => pc[d] # "free")
      BY <2>1 DEF IInv, TypeOK, LockOK, Busy, free_foreign
    <2>3. data' = data /\ arg[c] \notin data
      BY DEF IInv, BitsManaged, free_foreign
    <2> QED  BY <2>1, <2>2, <2>3 DEF UseOK, Freeing
  <1>5. FeedOK'
    <2>1. \A d \in Cpu : ~Busy(d)'
      BY DEF IInv, TypeOK, LockOK, free_foreign, Busy
    <2> QED  BY <2>1, FeedNone
  <1> QED  BY <1>1, <1>2, <1>3, <1>4, <1>5 DEF IInv

(* Preserved by pmm_free clearing a bit and pulling the hint down.         *)
LEMMA Step_free_found ==
  ASSUME IInv, NEW c \in Cpu, free_found(c)
  PROVE  IInv'
PROOF
  <1> USE DEF meml_vars, pmm_vars, Goto, Return, k_mutex_lock, k_mutex_unlock
  <1>0. TypeOK /\ arg[c] \in Nat
    BY DEF IInv, TypeOK
  <1> DEFINE ind(k) == arg[c] - page_bms[k].base
  <1>a. PICK k \in DOMAIN page_bms :
          /\ Covers(page_bms[k], arg[c])
          /\ first_free' = [first_free EXCEPT ![k] = IF ind(k) < @ THEN ind(k) ELSE @]
    BY DEF free_found
  <1>b. /\ data' = data \ {arg[c]} /\ UNCHANGED <<page_bms, page_stk, owned, junk>>
    BY DEF free_found
  <1>c. /\ k \in DOMAIN first_free /\ first_free[k] \in Nat
        /\ page_bms[k].base \in Nat /\ page_bms[k].npage \in Nat
        /\ ind(k) \in Nat
    <2>1. k \in DOMAIN first_free /\ first_free[k] \in Nat
      BY <1>0 DEF TypeOK
    <2>2. page_bms[k].base \in Nat /\ page_bms[k].npage \in Nat
      BY <1>0, BitmapTypes
    <2> QED  BY <2>1, <2>2, <1>0, <1>a DEF Covers
  <1> HIDE DEF ind
  <1>1. TypeOK'
    <2>1. pc' \in [Cpu -> Labels] /\ i' \in [Cpu -> Nat \ {0}] /\ j' \in [Cpu -> Nat]
          /\ arg' \in [Cpu -> Nat]
      BY DEF IInv, TypeOK, free_found, Labels, PHYS_ADDR_NULL
    <2>2. \A d \in Cpu : pc'[d] \in {"inner", "hint"} => i'[d] \in DOMAIN page_bms'
      BY DEF IInv, TypeOK, free_found
    <2>3. first_free' \in Seq(Nat) /\ Len(first_free') = Len(first_free)
      BY <1>0, <1>a, <1>c DEF TypeOK
    <2>4. data' \subseteq Nat
      BY <1>0, <1>b DEF TypeOK
    <2>5. UNCHANGED <<meml_vars, page_bms, page_stk, up, owned, junk>>
      BY DEF free_found
    <2>6. mutex' \in k_mutex_t
      BY DEF free_found, k_mutex_t
    <2> QED  BY <2>1, <2>2, <2>3, <2>4, <2>5, <2>6, <1>0 DEF TypeOK
  <1>2. LayoutOK' /\ BitsManaged'
    BY <1>b DEF IInv, free_found, LayoutOK, FromMap, BitsManaged, Managed
  <1>3. BootOK' /\ LockOK'
    <2>1. BootOK'
      BY PmmAssumption DEF IInv, TypeOK, free_found, BootOK, LockOK, Busy
    <2>2. LockOK'
      BY DEF IInv, TypeOK, free_found, BootOK, LockOK, Busy, k_mutex_t
    <2> QED  BY <2>1, <2>2
  <1>4. UseOK'
    <2>1. /\ UseOK /\ pc[c] = "free"
          /\ UNCHANGED <<page_bms, page_stk, owned, junk>>
      BY DEF IInv, free_found
    <2>2. \A d \in Cpu : pc'[d] # "free" /\ (d # c => pc[d] # "free")
      BY <2>1 DEF IInv, TypeOK, LockOK, Busy, free_found
    <2>3. Managed(arg[c])
      BY <1>a DEF Managed
    <2>4. /\ arg[c] \notin owned /\ arg[c] \notin junk
          /\ \A n \in DOMAIN page_stk : page_stk[n] # arg[c]
      BY <2>1, <2>3 DEF UseOK
    <2> QED  BY <2>1, <2>2, <2>4, <1>b DEF UseOK, Freeing
  <1>5. FeedOK'
    <2>1. \A d \in Cpu : ~Busy(d)'
      BY DEF IInv, TypeOK, LockOK, free_found, Busy
    <2> QED  BY <2>1, FeedNone
  <1>6. HintSound'
    <2> SUFFICES ASSUME NEW l \in DOMAIN page_bms, NEW g \in 0 .. first_free'[l] - 1,
                        g < page_bms[l].npage
                 PROVE  Frame(page_bms[l], g) \in data /\ Frame(page_bms[l], g) # arg[c]
      BY <1>b DEF HintSound
    <2>1. l \in DOMAIN first_free /\ first_free[l] \in Nat
      BY <1>0 DEF TypeOK
    <2>2. page_bms[l].base \in Nat /\ page_bms[l].npage \in Nat
      BY <1>0, BitmapTypes
    <2>3. first_free'[l] <= first_free[l] /\ first_free'[l] \in Nat
      <3>1. CASE l = k
        BY <3>1, <2>1, <1>a, <1>c, <1>0 DEF TypeOK
      <3>2. CASE l # k
        BY <3>2, <2>1, <1>a, <1>0 DEF TypeOK
      <3> QED  BY <3>1, <3>2
    <2>4. Frame(page_bms[l], g) \in data
      BY <2>1, <2>3 DEF IInv, HintSound
    <2>5. CASE l = k
      <3>1. g < ind(k)
        BY <2>5, <1>a, <1>c, <2>1
      <3> QED  BY <3>1, <2>2, <2>4, <2>5, <1>0, <1>c DEF ind, Frame
    <2>6. CASE l # k
      <3>1. Covers(page_bms[l], Frame(page_bms[l], g)) /\ Frame(page_bms[l], g) \in Nat
        BY <2>1, <2>2, <2>3 DEF Covers, Frame
      <3> QED  BY <3>1, <2>4, <2>6, <1>a, <1>0, RegionsApart DEF IInv
    <2> QED  BY <2>5, <2>6
  <1> QED  BY <1>1, <1>2, <1>3, <1>4, <1>5, <1>6 DEF IInv

-----------------------------------------------------------------------------
(* Every step of every processor preserves the invariant.                  *)
LEMMA NextIInv == IInv /\ [Next]_vars => IInv'
PROOF
  <1> SUFFICES ASSUME IInv, [Next]_vars PROVE IInv'
    OBVIOUS
  <1>1. CASE Boot
    BY <1>1, Step_Collect, Step_Collected, Step_InitRegion, Step_InitFeed DEF Boot
  <1>2. ASSUME NEW c \in Cpu, Inside(c) PROVE IInv'
    BY <1>2, Step_feed_outer, Step_feed_page, Step_feed_end, Step_feed_hint,
       Step_feed_done, Step_alloc_fail, Step_alloc_pop, Step_free_foreign,
       Step_free_found, Step_avl_find, Step_avl_rd, Step_avl_return
       DEF Inside, Feed
  <1>3. ASSUME NEW c \in Cpu, Call(c) PROVE IInv'
    BY <1>3, Step_alloc_lock, Step_free_lock, Step_avl_lock DEF Call
  <1>4. CASE UNCHANGED vars
    <2>1. /\ UNCHANGED <<mem_map, ml_ents, ml_pos, page_bms, first_free, data>>
          /\ UNCHANGED <<page_stk, mutex, up, owned, junk, pc, i, j, arg>>
      BY <1>4 DEF vars, meml_vars, pmm_vars, local_vars
    <2>2. TypeOK' /\ LayoutOK'
      BY <2>1 DEF IInv, TypeOK, LayoutOK, FromMap
    <2>3. BootOK' /\ LockOK'
      BY <2>1 DEF IInv, BootOK, LockOK, Busy
    <2>4. FeedOK'
      BY <2>1 DEF IInv, FeedOK, Scanned, Scanning, Leaving, Taking, Full
    <2>5. BitsManaged' /\ HintSound' /\ UseOK'
      BY <2>1 DEF IInv, BitsManaged, Managed, HintSound, UseOK, Freeing
    <2> QED  BY <2>2, <2>3, <2>4, <2>5 DEF IInv
  <1> QED  BY <1>1, <1>2, <1>3, <1>4 DEF Next, Hung

(* Every reachable state satisfies the inductive invariant.                *)
THEOREM Invariance == Spec => []IInv
PROOF
  BY InitIInv, NextIInv, PTL DEF Spec

(* Every variable keeps its type; in particular the push of bm_feed_stk    *)
(* never writes past page_stk, for any capacity.                           *)
THEOREM TypeCorrect == Spec => []TypeOK
PROOF
  <1>1. IInv => TypeOK
    BY DEF IInv
  <1> QED  BY <1>1, Invariance, PTL

(* The element-wise accounting gives the two properties of Pmm.            *)
LEMMA UseImplies == IInv => NoDoubleUse /\ Conservation
PROOF
  <1> SUFFICES ASSUME IInv PROVE NoDoubleUse /\ Conservation
    OBVIOUS
  <1>1. UseOK /\ BitsManaged
    BY DEF IInv
  <1>2. NoDoubleUse
    BY <1>1 DEF UseOK, NoDoubleUse, Stacked, Returning
  <1>3. Stacked \cup owned \cup Returning \cup junk \subseteq data
    BY <1>1 DEF UseOK, Stacked, Returning
  <1>4. ASSUME NEW a \in data
        PROVE  a \in Stacked \cup owned \cup Returning \cup junk
    <2>1. ASSUME NEW c \in Cpu, Freeing(c, a)
          PROVE  a \in Returning
      <3>1. Managed(arg[c]) /\ pc[c] = "free" /\ arg[c] = a
        BY <2>1, <1>1 DEF BitsManaged, Freeing
      <3> QED  BY <3>1 DEF Returning
    <2>2. ASSUME NEW n \in DOMAIN page_stk, page_stk[n] = a
          PROVE  a \in Stacked
      BY <2>2 DEF Stacked
    <2> QED  BY <2>1, <2>2, <1>1 DEF UseOK
  <1> QED  BY <1>2, <1>3, <1>4 DEF Conservation

(* For any interleaving of pmm_alloc and pmm_free no frame is on the stack *)
(* twice, or on the stack while a caller owns it.                          *)
THEOREM NeverUsedTwice == Spec => []NoDoubleUse
PROOF
  BY UseImplies, Invariance, PTL

(* Any number of pmm_alloc and pmm_free calls on any number of processors  *)
(* loses no frame and invents none.                                        *)
THEOREM FramesConserved == Spec => []Conservation
PROOF
  BY UseImplies, Invariance, PTL

(* The cached index first_free is sound for any region and any interleaving*)
(* of refills and frees.                                                   *)
THEOREM HintsAreSound == Spec => []HintSound
PROOF
  <1>1. IInv => HintSound
    BY DEF IInv
  <1> QED  BY <1>1, Invariance, PTL

(* pmm_alloc reports failure only when every managed frame is in use or    *)
(* was marked used in the memory pmm_init found.                           *)
THEOREM FailsOnlyWhenExhausted == Spec => []NullOnlyWhenExhausted
PROOF
  <1>1. IInv => NullOnlyWhenExhausted
    <2> SUFFICES ASSUME IInv, NEW c \in Cpu, pc[c] = "take", page_stk = <<>>,
                        NEW a \in ManagedFrames
                 PROVE  a \in owned \cup junk
      BY DEF NullOnlyWhenExhausted
    <2>1. PICK k \in DOMAIN page_bms :
            a \in page_bms[k].base .. page_bms[k].base + page_bms[k].npage - 1
      BY DEF ManagedFrames
    <2>2. page_bms[k].base \in Nat /\ page_bms[k].npage \in Nat
      BY BitmapTypes DEF IInv
    <2>3. Full(k)
      BY DEF IInv, FeedOK, Taking
    <2>4. a \in data
      <3>1. a - page_bms[k].base \in 0 .. page_bms[k].npage - 1
            /\ Frame(page_bms[k], a - page_bms[k].base) = a
        BY <2>1, <2>2 DEF Frame
      <3> QED  BY <3>1, <2>3 DEF Full
    <2>5. \A d \in Cpu : pc[d] # "free"
      BY DEF IInv, LockOK, Busy
    <2> QED  BY <2>4, <2>5 DEF IInv, UseOK, Freeing
  <1> QED  BY <1>1, Invariance, PTL

(* Callers only get frames of usable memory, above the bitmap that         *)
(* describes them, and never the null address.                             *)
THEOREM GrantsAreUsable == Spec => []GrantsUsable
PROOF
  <1>1. IInv => GrantsUsable
    <2> SUFFICES ASSUME IInv, NEW a \in owned
                 PROVE  /\ a # PHYS_ADDR_NULL
                        /\ \E k \in DOMAIN ml_ents :
                             /\ ml_ents[k].base + NpageBm(ml_ents[k].size) <= a
                             /\ a < ml_ents[k].base + ml_ents[k].size
      BY DEF GrantsUsable
    <2>1. PICK k \in DOMAIN page_bms : Covers(page_bms[k], a)
      BY DEF IInv, UseOK, BitsManaged, Managed
    <2>2. a \in Nat /\ k \in DOMAIN ml_ents
      BY DEF IInv, TypeOK, LayoutOK
    <2>3. /\ ml_ents[k].base \in Nat /\ ml_ents[k].size \in Nat
          /\ NpageBm(ml_ents[k].size) \in Nat /\ NpageBm(ml_ents[k].size) >= 1
          /\ page_bms[k].base = ml_ents[k].base + NpageBm(ml_ents[k].size)
          /\ page_bms[k].npage = ml_ents[k].size - NpageBm(ml_ents[k].size)
      BY RegionsApart DEF IInv
    <2> QED  BY <2>1, <2>2, <2>3 DEF Covers, PHYS_ADDR_NULL
  <1> QED  BY <1>1, Invariance, PTL

(* For every region size pmm_init can meet, the pages it sets aside hold   *)
(* the bitmap, and pages are left to hand out.                             *)
THEOREM BitmapsFit == Spec => []BitmapFits
PROOF
  <1>1. IInv => BitmapFits
    <2> SUFFICES ASSUME IInv, NEW k \in DOMAIN page_bms
                 PROVE  /\ (page_bms[k].npage + 7) \div 8
                             <= PAGE_SIZE * (page_bms[k].base - ml_ents[k].base)
                        /\ page_bms[k].npage > 0
      BY DEF BitmapFits
    <2> DEFINE size == ml_ents[k].size
    <2>1. /\ ml_ents[k].base \in Nat /\ size \in Nat /\ size >= 2
          /\ NpageBm(size) \in Nat
          /\ page_bms[k].base = ml_ents[k].base + NpageBm(size)
          /\ page_bms[k].npage = size - NpageBm(size)
          /\ page_bms[k].npage >= 1
      BY RegionsApart DEF IInv
    <2>2. (size - NpageBm(size) + 7) \div 8 <= PAGE_SIZE * NpageBm(size)
      BY <2>1, NpageBmArith
    <2>3. page_bms[k].base - ml_ents[k].base = NpageBm(size)
      BY <2>1
    <2> QED  BY <2>1, <2>2, <2>3
  <1> QED  BY <1>1, Invariance, PTL
=============================================================================
