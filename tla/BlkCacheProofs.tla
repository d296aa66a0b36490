---------------------------- MODULE BlkCacheProofs ----------------------------
(***************************************************************************)
(* Proofs about the one-block cache, for any block size, any device, any   *)
(* addresses and lengths and any number of processors.                     *)
(***************************************************************************)
EXTENDS BlkCache, TLAPS

(* What a caller can ask for: there is no room in memory for more.         *)
Requests == [addr : 0 .. WORD - 1, n : 0 .. WORD - BLK_SIZE]

TypeOK ==
  /\ buf \in Seq(Int)
  /\ buf # NULL => Len(buf) = BLK_SIZE
  /\ loaded_blk \in Nat
  /\ mutex \in k_mutex_t
  /\ tainted \in BOOLEAN
  /\ room \in Nat
  /\ pc \in [Cpu -> {"idle", "rd", "copy", "ok", "fault"}]
  /\ req \in [Cpu -> Requests]
  /\ DOMAIN dst = Cpu

(* One processor is in blk_cache_rd, and it has the lock.                  *)
LockOK ==
  /\ \A c, d \in Cpu : pc[c] # "idle" /\ pc[d] # "idle" => c = d
  /\ \A c \in Cpu : pc[c] # "idle" => mutex = 1

(* A read of nothing never takes the lock.                                 *)
ReqOK == \A c \in Cpu : pc[c] # "idle" => req[c].n >= 1

(* The block a processor copies from is the block it asked for.            *)
CopyOK ==
  \A c \in Cpu :
    pc[c] = "copy" => ~Spans(req[c]) /\ buf # NULL /\ lba_lb(req[c]) = loaded_blk

IInv == TypeOK /\ LockOK /\ ReqOK /\ CopyOK /\ CacheCoherent /\ BlockReadsRight

-----------------------------------------------------------------------------
(* Quotient and remainder of the addresses of the code.                    *)
LEMMA DivMod ==
  ASSUME NEW a \in Nat, NEW b \in Nat \ {0}
  PROVE  /\ a \div b \in Nat /\ a % b \in 0 .. b - 1 /\ b * (a \div b) \in Nat
         /\ b * (a \div b) = (a \div b) * b
         /\ a = b * (a \div b) + (a % b)
PROOF
  OBVIOUS

(* A request whose last address wraps counts as one across blocks.         *)
LEMMA NoWrap ==
  ASSUME NEW r \in Requests, r.n >= 1, ~Spans(r)
  PROVE  lba_ub(r) = (r.addr + r.n - 1) \div BLK_SIZE
PROOF
  <1>1. PICK a \in 0 .. WORD - 1, n \in 1 .. WORD - BLK_SIZE : a = r.addr /\ n = r.n
    BY DEF Requests
  <1>2. WORD \in Nat \ {0} /\ BLK_SIZE \in Nat \ {0} /\ a \in Nat /\ n \in Nat
    BY <1>1, BlkCacheAssumption
  <1>3. PICK e \in Nat : e = a + n - 1
    BY <1>2
  <1>4. CASE e < WORD
    <2>1. e % WORD = e
      BY <1>2, <1>4
    <2> QED  BY <1>1, <1>3, <2>1 DEF lba_ub
  <1>5. CASE e >= WORD
    <2>1. PICK w \in Nat : w = e % WORD
      BY <1>2, DivMod
    <2>2. w = e - WORD
      BY <1>1, <1>2, <1>3, <1>5, <2>1
    <2>3. w + BLK_SIZE < a
      BY <1>1, <1>2, <1>3, <2>2
    <2>4. PICK wr \in 0 .. BLK_SIZE - 1 : w = BLK_SIZE * (w \div BLK_SIZE) + wr
      BY <1>2, DivMod
    <2>7. PICK ar \in 0 .. BLK_SIZE - 1 : a = BLK_SIZE * (a \div BLK_SIZE) + ar
      BY <1>2, DivMod
    <2>5. w \div BLK_SIZE = a \div BLK_SIZE
      BY <1>1, <1>3, <2>1 DEF Spans, lba_lb, lba_ub
    <2>6. PICK p \in Nat : p = BLK_SIZE * (a \div BLK_SIZE)
      BY <1>2, DivMod
    <2> QED  BY <1>2, <2>1, <2>3, <2>4, <2>5, <2>6, <2>7
  <1> QED  BY <1>2, <1>3, <1>4, <1>5

(* The division that gives the block leaves the offset as remainder, and a *)
(* read within one block ends inside it.                                   *)
LEMMA OffsetFits ==
  ASSUME NEW r \in Requests, r.n >= 1, ~Spans(r)
  PROVE  /\ lba_lb(r) \in Nat /\ byte_addr(r) \in Nat
         /\ lba_lb(r) * BLK_SIZE \in Nat
         /\ r.addr = lba_lb(r) * BLK_SIZE + byte_addr(r)
         /\ byte_addr(r) + r.n <= BLK_SIZE
PROOF
  <1>1. PICK a \in Nat, e \in Nat : a = r.addr /\ e = r.addr + r.n - 1
    BY DEF Requests
  <1>2. BLK_SIZE \in Nat \ {0} /\ r.n \in Nat
    BY BlkCacheAssumption DEF Requests
  <1>3. a \div BLK_SIZE = e \div BLK_SIZE
    BY <1>1, NoWrap DEF Spans, lba_lb
  <1>4. /\ a \div BLK_SIZE \in Nat /\ a % BLK_SIZE \in 0 .. BLK_SIZE - 1
        /\ BLK_SIZE * (a \div BLK_SIZE) \in Nat
        /\ BLK_SIZE * (a \div BLK_SIZE) = (a \div BLK_SIZE) * BLK_SIZE
        /\ a = BLK_SIZE * (a \div BLK_SIZE) + (a % BLK_SIZE)
    BY <1>2, DivMod
  <1>5. /\ e % BLK_SIZE \in 0 .. BLK_SIZE - 1
        /\ e = BLK_SIZE * (e \div BLK_SIZE) + (e % BLK_SIZE)
    BY <1>2, DivMod
  <1>6. PICK p \in Nat, ra \in 0 .. BLK_SIZE - 1, re \in 0 .. BLK_SIZE - 1 :
          /\ p = BLK_SIZE * (a \div BLK_SIZE) /\ ra = a % BLK_SIZE
          /\ a = p + ra /\ e = p + re
    BY <1>3, <1>4, <1>5
  <1>7. ra + r.n <= BLK_SIZE
    <2>1. a = p + ra /\ e = p + re /\ e = a + r.n - 1
      BY <1>1, <1>6
    <2>2. PICK n \in Nat : n = r.n
      BY <1>2
    <2> QED  BY <1>2, <2>1, <2>2
  <1>8. r.addr = lba_lb(r) * BLK_SIZE + byte_addr(r)
    BY <1>1, <1>4 DEF lba_lb, byte_addr
  <1>9. byte_addr(r) = ra /\ lba_lb(r) = a \div BLK_SIZE
    BY <1>1, <1>6 DEF lba_lb, byte_addr
  <1>10. ra \in Nat /\ lba_lb(r) \in Nat /\ lba_lb(r) * BLK_SIZE \in Nat
    BY <1>2, <1>4, <1>9
  <1> QED  BY <1>7, <1>8, <1>9, <1>10

(* Copying out of the right block gives the bytes that were asked for.     *)
LEMMA CopyIsRight ==
  ASSUME NEW r \in Requests, r.n >= 1, ~Spans(r)
  PROVE  Copy(Block(lba_lb(r)), byte_addr(r), r.n) = Bytes(r.addr, r.n)
PROOF
  <1> DEFINE b == Block(lba_lb(r))
             off == byte_addr(r)
             base == lba_lb(r) * BLK_SIZE
  <1>1. /\ off \in Nat /\ base \in Nat /\ r.addr = base + off
        /\ off + r.n <= BLK_SIZE /\ BLK_SIZE \in Nat /\ r.n \in Nat
    BY OffsetFits, BlkCacheAssumption DEF Requests
  <1>2. Len(b) = BLK_SIZE /\ \A j \in 1 .. BLK_SIZE : b[j] = base + j - 1
    BY <1>1 DEF Block
  <1> HIDE DEF b, off, base
  <1>3. ASSUME NEW k \in 1 .. r.n
        PROVE  off + k <= Len(b) /\ b[off + k] = r.addr + k - 1
    BY <1>1, <1>2
  <1>4. Copy(b, off, r.n) = Bytes(r.addr, r.n)
    BY <1>3 DEF Copy, Bytes
  <1> QED  BY <1>4 DEF b, off

(* What blkdev_rd leaves in the cache's buffer.                            *)
LEMMA FilledOne ==
  ASSUME NEW b \in Seq(Int), Len(b) = BLK_SIZE, NEW lba \in Nat,
         NEW done \in Done(1)
  PROVE  /\ Filled(b, lba, done) \in Seq(Int)
         /\ Len(Filled(b, lba, done)) = BLK_SIZE
         /\ done # 0 => Filled(b, lba, done) = Block(lba)
PROOF
  <1>1. BLK_SIZE \in Nat /\ DOMAIN b = 1 .. BLK_SIZE
    BY BlkCacheAssumption
  <1>2. done \in {0, 1}
    BY BlkCacheAssumption DEF Done
  <1>3. CASE done = 0
    BY <1>3 DEF Filled
  <1>4. CASE done = 1
    <2>1. \A k \in 1 .. BLK_SIZE : Block(lba)[k] = lba * BLK_SIZE + k - 1
      BY DEF Block
    <2>2. Filled(b, lba, done) = [k \in 1 .. BLK_SIZE |-> Block(lba + 1 - 1)[k]]
      BY <1>1, <1>4 DEF Filled
    <2>3. Filled(b, lba, done) = [k \in 1 .. BLK_SIZE |-> Block(lba)[k]]
      BY <2>2
    <2>4. Filled(b, lba, done) = Block(lba)
      BY <2>3 DEF Block
    <2>5. lba * BLK_SIZE \in Nat
      BY <1>1
    <2>6. Block(lba) \in Seq(Int) /\ Len(Block(lba)) = BLK_SIZE
      BY <1>1, <2>5 DEF Block
    <2> QED  BY <2>4, <2>6
  <1> QED  BY <1>2, <1>3, <1>4

-----------------------------------------------------------------------------
(* blk_cache_create names a block past the last.                           *)
LEMMA InitInv == Init => IInv
PROOF
  <1> SUFFICES ASSUME Init PROVE IInv
    OBVIOUS
  <1>1. Uninit(BLK_SIZE) \in Seq(Int) /\ Len(Uninit(BLK_SIZE)) = BLK_SIZE
    BY BlkCacheAssumption DEF Uninit, Garbage
  <1>2. TypeOK
    <2> PICK left \in Rooms :
          \/ left >= BLK_SIZE /\ buf = Uninit(BLK_SIZE) /\ room = left - BLK_SIZE
          \/ left < BLK_SIZE /\ buf = NULL /\ room = left
      BY DEF Init
    <2>1. room \in Nat
      BY BlkCacheAssumption
    <2>2. NULL \in Seq(Int)
      BY DEF NULL
    <2>3. buf \in Seq(Int) /\ (buf # NULL => Len(buf) = BLK_SIZE)
      BY <1>1, <2>2
    <2>4. DOMAIN dst = Cpu /\ req \in [Cpu -> Requests]
      BY BlkCacheAssumption DEF Init, NoReq, Requests
    <2>5. loaded_blk \in Nat /\ mutex \in k_mutex_t
      BY BlkCacheAssumption DEF Init, k_mutex_t
    <2>7. tainted \in BOOLEAN
      BY DEF Init
    <2>6. pc \in [Cpu -> {"idle", "rd", "copy", "ok", "fault"}]
      BY DEF Init
    <2> QED  BY <2>1, <2>3, <2>4, <2>5, <2>6, <2>7 DEF TypeOK
  <1>3. LockOK /\ ReqOK /\ CopyOK /\ CacheCoherent /\ BlockReadsRight
    BY BlkCacheAssumption
    DEF Init, LockOK, ReqOK, CopyOK, CacheCoherent, BlockReadsRight
  <1> QED  BY <1>2, <1>3 DEF IInv

(* While a processor is in blk_cache_rd the others are not.                *)
LEMMA OthersIdle ==
  ASSUME LockOK, NEW c \in Cpu, pc[c] # "idle", NEW d \in Cpu, d # c
  PROVE  pc[d] = "idle"
PROOF
  BY DEF LockOK

(* Every step of blk_cache_rd keeps the invariant.                         *)
LEMMA StepInv == IInv /\ [Next]_vars => IInv'
PROOF
  <1> SUFFICES ASSUME IInv, [Next]_vars PROVE IInv'
    OBVIOUS
  <1> USE BlkCacheAssumption
  <1>1. ASSUME NEW c \in Cpu, rd_lock(c) PROVE IInv'
    <2>1. PICK addr \in Addrs, n \in Counts \ {0} :
            req' = [req EXCEPT ![c] = [addr |-> addr, n |-> n]]
      BY <1>1 DEF rd_lock
    <2>2. TypeOK'
      <3>1. [addr |-> addr, n |-> n] \in Requests
        BY DEF Requests
      <3> QED
        BY <1>1, <2>1, <3>1 DEF IInv, TypeOK, rd_lock, Goto, k_mutex_lock, k_mutex_t
    <2>3. LockOK'
      BY <1>1 DEF IInv, TypeOK, LockOK, rd_lock, Goto, k_mutex_lock
    <2>4. ReqOK'
      BY <1>1, <2>1 DEF IInv, TypeOK, Requests, ReqOK, rd_lock, Goto
    <2>5. CopyOK' /\ BlockReadsRight'
      <3>1. \A d \in Cpu : pc'[d] \in {"idle", "rd"}
        BY <1>1 DEF IInv, TypeOK, LockOK, rd_lock, Goto, k_mutex_lock
      <3> QED  BY <3>1 DEF CopyOK, BlockReadsRight
    <2>6. CacheCoherent'
      BY <1>1 DEF IInv, CacheCoherent, rd_lock
    <2> QED  BY <2>2, <2>3, <2>4, <2>5, <2>6 DEF IInv
  <1>2. ASSUME NEW c \in Cpu, rd_span(c) PROVE IInv'
    <2>1. /\ pc[c] = "rd" /\ Spans(req[c]) /\ pc' = [pc EXCEPT ![c] = "ok"]
          /\ UNCHANGED <<cache_vars, req>> /\ DOMAIN dst' = Cpu
          /\ \A d \in Cpu \ {c} : dst'[d] = dst[d]
      BY <1>2 DEF rd_span, Goto, IInv, TypeOK
    <2>2. room' \in Nat
      <3> DEFINE size == BLK_SIZE * rd_blk_cnt(req[c])
      <3>1. rd_blk_cnt(req[c]) \in Nat
        <4>1. req[c].n \in Nat
          BY DEF IInv, TypeOK, Requests
        <4>2. req[c].n + BLK_SIZE - 1 \in Nat
          BY <4>1
        <4> QED  BY <4>2, DivMod DEF rd_blk_cnt
      <3>2. size \in Nat
        BY <3>1
      <3>3. size <= room /\ room' = room - size
        BY <1>2 DEF rd_span, Granted, RoomAfter
      <3> QED  BY <3>2, <3>3 DEF IInv, TypeOK
    <2>3. TypeOK'
      BY <2>1, <2>2 DEF IInv, TypeOK, cache_vars
    <2>4. LockOK' /\ ReqOK' /\ CopyOK'
      BY <2>1 DEF IInv, TypeOK, LockOK, ReqOK, CopyOK, cache_vars
    <2>5. CacheCoherent'
      BY <2>1 DEF IInv, CacheCoherent, cache_vars
    <2>6. BlockReadsRight'
      <3>1. \A d \in Cpu : pc'[d] = "ok" => d = c
        BY <2>1 DEF IInv, TypeOK, LockOK
      <3>2. Spans(req'[c])
        BY <2>1
      <3> QED  BY <3>1, <3>2 DEF BlockReadsRight, InOneBlock
    <2> QED  BY <2>3, <2>4, <2>5, <2>6 DEF IInv
  <1>3. ASSUME NEW c \in Cpu, rd_fail(c) PROVE IInv'
    <2>1. /\ pc[c] = "rd" /\ pc' = [pc EXCEPT ![c] = "idle"]
          /\ mutex = 1 /\ mutex' = 0 /\ req' = [req EXCEPT ![c] = NoReq]
          /\ UNCHANGED <<buf, loaded_blk, tainted, dst>>
          /\ room' = IF Spans(req[c]) THEN RoomAfter(BLK_SIZE * rd_blk_cnt(req[c]))
                                      ELSE room
      BY <1>3 DEF rd_fail, Goto, k_mutex_unlock
    <2>2. room' \in Nat
      <3> DEFINE size == BLK_SIZE * rd_blk_cnt(req[c])
      <3>1. rd_blk_cnt(req[c]) \in Nat
        <4>1. req[c].n \in Nat
          BY DEF IInv, TypeOK, Requests
        <4>2. req[c].n + BLK_SIZE - 1 \in Nat
          BY <4>1
        <4> QED  BY <4>2, DivMod DEF rd_blk_cnt
      <3>2. size \in Nat
        BY <3>1
      <3> QED  BY <2>1, <3>2 DEF IInv, TypeOK, RoomAfter
    <2>3. TypeOK'
      BY <2>1, <2>2 DEF IInv, TypeOK, k_mutex_t, Requests, NoReq
    <2>4. \A d \in Cpu : pc'[d] = "idle"
      BY <2>1, OthersIdle DEF IInv, TypeOK
    <2>5. LockOK' /\ ReqOK' /\ CopyOK' /\ BlockReadsRight'
      BY <2>4 DEF LockOK, ReqOK, CopyOK, BlockReadsRight
    <2>6. CacheCoherent'
      BY <2>1 DEF IInv, CacheCoherent
    <2> QED  BY <2>3, <2>5, <2>6 DEF IInv
  <1>4. ASSUME NEW c \in Cpu, rd_load(c) PROVE IInv'
    <2>1. /\ pc[c] = "rd" /\ ~Spans(req[c]) /\ buf # NULL
          /\ loaded_blk' = lba_lb(req[c]) /\ pc' = [pc EXCEPT ![c] = "copy"]
          /\ UNCHANGED <<mutex, room, req, dst>>
      BY <1>4 DEF rd_load, Goto
    <2>2. PICK done \in Done(1) :
            buf' = Filled(buf, lba_lb(req[c]), done) /\ tainted' = (done = 0)
      BY <1>4 DEF rd_load
    <2>3. lba_lb(req[c]) \in Nat
      <3>1. req[c].addr \in Nat
        BY DEF IInv, TypeOK, Requests
      <3> QED  BY <3>1, DivMod DEF lba_lb
    <2>4. /\ buf' \in Seq(Int) /\ Len(buf') = BLK_SIZE
          /\ ~tainted' => buf' = Block(loaded_blk')
      <3>1. buf \in Seq(Int) /\ Len(buf) = BLK_SIZE
        BY <2>1 DEF IInv, TypeOK
      <3>2. /\ Filled(buf, lba_lb(req[c]), done) \in Seq(Int)
            /\ Len(Filled(buf, lba_lb(req[c]), done)) = BLK_SIZE
            /\ done # 0 => Filled(buf, lba_lb(req[c]), done) = Block(lba_lb(req[c]))
        BY <2>3, <3>1, FilledOne
      <3> QED  BY <2>1, <2>2, <3>2
    <2>5. TypeOK'
      BY <2>1, <2>2, <2>3, <2>4 DEF IInv, TypeOK
    <2>6. LockOK' /\ ReqOK'
      BY <2>1 DEF IInv, TypeOK, LockOK, ReqOK
    <2>7. \A d \in Cpu : d # c => pc'[d] = "idle"
      BY <2>1, OthersIdle DEF IInv, TypeOK
    <2>8. buf' # NULL
      BY <2>4 DEF NULL
    <2>9. CopyOK' /\ BlockReadsRight'
      BY <2>1, <2>7, <2>8 DEF CopyOK, BlockReadsRight, IInv, TypeOK
    <2>10. CacheCoherent'
      BY <2>4 DEF CacheCoherent
    <2> QED  BY <2>5, <2>6, <2>9, <2>10 DEF IInv
  <1>5. ASSUME NEW c \in Cpu, rd_hit(c) PROVE IInv'
    <2>1. /\ pc[c] = "rd" /\ ~Spans(req[c]) /\ lba_lb(req[c]) = loaded_blk
          /\ buf # NULL /\ pc' = [pc EXCEPT ![c] = "copy"]
          /\ UNCHANGED <<cache_vars, room, req, dst>>
      BY <1>5 DEF rd_hit, Goto
    <2>2. TypeOK' /\ LockOK' /\ ReqOK'
      BY <2>1 DEF IInv, TypeOK, LockOK, ReqOK, cache_vars
    <2>3. \A d \in Cpu : d # c => pc'[d] = "idle"
      BY <2>1, OthersIdle DEF IInv, TypeOK
    <2>4. CopyOK' /\ BlockReadsRight'
      BY <2>1, <2>3 DEF CopyOK, BlockReadsRight, IInv, TypeOK, cache_vars
    <2>5. CacheCoherent'
      BY <2>1 DEF IInv, CacheCoherent, cache_vars
    <2> QED  BY <2>2, <2>4, <2>5 DEF IInv
  <1>6. ASSUME NEW c \in Cpu, rd_fault(c) PROVE IInv'
    <2>1. /\ pc[c] = "rd" /\ pc' = [pc EXCEPT ![c] = "fault"]
          /\ UNCHANGED <<cache_vars, room, req, dst>>
      BY <1>6 DEF rd_fault, Goto
    <2>2. TypeOK' /\ LockOK' /\ ReqOK'
      BY <2>1 DEF IInv, TypeOK, LockOK, ReqOK, cache_vars
    <2>3. \A d \in Cpu : d # c => pc'[d] = "idle"
      BY <2>1, OthersIdle DEF IInv, TypeOK
    <2>4. CopyOK' /\ BlockReadsRight'
      BY <2>1, <2>3 DEF CopyOK, BlockReadsRight, IInv, TypeOK
    <2>5. CacheCoherent'
      BY <2>1 DEF IInv, CacheCoherent, cache_vars
    <2> QED  BY <2>2, <2>4, <2>5 DEF IInv
  <1>7. ASSUME NEW c \in Cpu, rd_copy(c) PROVE IInv'
    <2>1. /\ pc[c] = "copy" /\ pc' = [pc EXCEPT ![c] = "ok"]
          /\ dst' = [dst EXCEPT ![c] = Copy(buf, byte_addr(req[c]), req[c].n)]
          /\ UNCHANGED <<cache_vars, room, req>>
      BY <1>7 DEF rd_copy, Goto
    <2>2. TypeOK' /\ LockOK' /\ ReqOK'
      BY <2>1 DEF IInv, TypeOK, LockOK, ReqOK, cache_vars
    <2>3. \A d \in Cpu : d # c => pc'[d] = "idle"
      BY <2>1, OthersIdle DEF IInv, TypeOK
    <2>4. CopyOK'
      BY <2>1, <2>3 DEF CopyOK, IInv, TypeOK
    <2>5. CacheCoherent'
      BY <2>1 DEF IInv, CacheCoherent, cache_vars
    <2>6. ASSUME InOneBlock(req[c]), ~tainted
          PROVE  dst'[c] = Bytes(req[c].addr, req[c].n)
      <3>1. /\ ~Spans(req[c]) /\ buf # NULL /\ lba_lb(req[c]) = loaded_blk
            /\ req[c].n >= 1 /\ req[c] \in Requests
        BY <2>1 DEF IInv, CopyOK, ReqOK, TypeOK
      <3>2. buf = Block(lba_lb(req[c]))
        BY <2>6, <3>1 DEF IInv, CacheCoherent, InOneBlock
      <3>3. dst'[c] = Copy(buf, byte_addr(req[c]), req[c].n)
        BY <2>1 DEF IInv, TypeOK
      <3> QED  BY <3>1, <3>2, <3>3, CopyIsRight
    <2>7. BlockReadsRight'
      BY <2>1, <2>3, <2>6 DEF BlockReadsRight, cache_vars
    <2> QED  BY <2>2, <2>4, <2>5, <2>7 DEF IInv
  <1>8. ASSUME NEW c \in Cpu, rd_return(c) PROVE IInv'
    <2>1. /\ pc[c] = "ok" /\ pc' = [pc EXCEPT ![c] = "idle"]
          /\ mutex = 1 /\ mutex' = 0 /\ req' = [req EXCEPT ![c] = NoReq]
          /\ dst' = [dst EXCEPT ![c] = <<>>]
          /\ UNCHANGED <<buf, loaded_blk, tainted, room>>
      BY <1>8 DEF rd_return, Goto, k_mutex_unlock
    <2>2. TypeOK'
      BY <2>1 DEF IInv, TypeOK, k_mutex_t, Requests, NoReq
    <2>3. \A d \in Cpu : pc'[d] = "idle"
      BY <2>1, OthersIdle DEF IInv, TypeOK
    <2>4. LockOK' /\ ReqOK' /\ CopyOK' /\ BlockReadsRight'
      BY <2>3 DEF LockOK, ReqOK, CopyOK, BlockReadsRight
    <2>5. CacheCoherent'
      BY <2>1 DEF IInv, CacheCoherent
    <2> QED  BY <2>2, <2>4, <2>5 DEF IInv
  <1>9. CASE UNCHANGED vars
    <2>1. UNCHANGED <<buf, loaded_blk, mutex, tainted, room, pc, req, dst>>
      BY <1>9 DEF vars, cache_vars
    <2> QED
      BY <2>1 DEF IInv, TypeOK, LockOK, ReqOK, CopyOK, CacheCoherent,
                  BlockReadsRight, lba_lb, lba_ub, Spans, InOneBlock
  <1> QED
    BY <1>1, <1>2, <1>3, <1>4, <1>5, <1>6, <1>7, <1>8, <1>9
    DEF Next, Inside, Stopped

-----------------------------------------------------------------------------
(* The inductive invariant holds in every state.                           *)
LEMMA Invariant == Spec => []IInv
PROOF
  BY InitInv, StepInv, PTL DEF Spec

(* Whatever reads were refused, crossed blocks or ran on other processors, *)
(* blk_cache_rd never serves a block under another block's number: buf is  *)
(* the block loaded_blk names.                                             *)
THEOREM BufferIsTheBlock == Spec => []CacheCoherent
PROOF
  <1>1. IInv => CacheCoherent
    BY DEF IInv
  <1> QED  BY <1>1, Invariant, PTL

(* Hit or miss, and with any number of processors sharing the cache, a     *)
(* blk_cache_rd within one block that returns 0 returns the device's bytes *)
(* from the address it was given.                                          *)
THEOREM ReadsWithinBlockRight == Spec => []BlockReadsRight
PROOF
  <1>1. IInv => BlockReadsRight
    BY DEF IInv
  <1> QED  BY <1>1, Invariant, PTL
=============================================================================
