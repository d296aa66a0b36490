------------------------------- MODULE BlkCache -------------------------------
(***************************************************************************)
(* The one-block cache that gives byte-level reads of a block device       *)
(* (kernel/src/blk_cache.c).                                               *)
(*                                                                         *)
(* A read within one block is served from buf, which is loaded first when  *)
(* it holds another block.  A read across blocks is done with a temporary  *)
(* buffer.  Both call blkdev_rd, which refuses blocks the device does not  *)
(* have and otherwise returns 0 whatever its driver did; the ATA driver    *)
(* puts every sector it reads at the front of the buffer (module Ata) and  *)
(* may fail after any of them.                                             *)
(*                                                                         *)
(* Both buffers come from the kernel heap, nobody looks whether there was  *)
(* one, and kheap_free is empty: each read across blocks costs the heap a  *)
(* buffer for good.  Address 0 is not mapped, and the handler of the page  *)
(* fault does not return (module Isr).                                     *)
(*                                                                         *)
(* A byte of the device is named by its address: no two bytes are alike,   *)
(* and nothing writes them (ata_pio_dev_wr is a stub).                     *)
(***************************************************************************)
EXTENDS Integers, Sequences, Katomic

CONSTANTS
  Cpu,
  WORD,             \* 2^64
  BLK_SIZE, NBLK,   \* the device
  Addrs, Counts,    \* byte addresses and lengths callers ask for
  DriverFails,      \* whether the driver may fail
  Rooms             \* bytes the heap may have left when the cache is made

ASSUME BlkCacheAssumption ==
  /\ WORD \in Nat /\ BLK_SIZE \in Nat \ {0, 1} /\ BLK_SIZE <= WORD
  /\ NBLK \in Nat
  /\ Addrs \subseteq 0 .. WORD - 1
  /\ Counts \subseteq 0 .. WORD - BLK_SIZE
  /\ DriverFails \in BOOLEAN
  /\ Rooms \subseteq Nat

VARIABLES
  buf, loaded_blk, mutex,   \* struct blk_cache
  room,                     \* bytes the heap has left
  pc, req, dst,             \* per processor: label, [addr, n], bytes returned
  tainted                   \* history: the driver failed when buf was loaded

cache_vars == <<buf, loaded_blk, mutex, tainted>>
vars == <<cache_vars, room, pc, req, dst>>

-----------------------------------------------------------------------------
Garbage == -1
NULL == <<>>

Block(lba) == [k \in 1 .. BLK_SIZE |-> lba * BLK_SIZE + k - 1]
Bytes(addr, n) == [k \in 1 .. n |-> addr + k - 1]
Uninit(n) == [k \in 1 .. n |-> Garbage]

(* The bytes of a buffer from an offset on; what lies behind the buffer is *)
(* not the device's.                                                       *)
Copy(b, off, n) ==
  [k \in 1 .. n |-> IF off + k <= Len(b) THEN b[off + k] ELSE Garbage]

(* addr + n - 1 wraps.  No other sum here does: there is no room in memory *)
(* for n bytes and a block more, and a block has two bytes at least.       *)
lba_lb(r) == r.addr \div BLK_SIZE
lba_ub(r) == ((r.addr + r.n - 1) % WORD) \div BLK_SIZE
byte_addr(r) == r.addr % BLK_SIZE
rd_blk_cnt(r) == (r.n + BLK_SIZE - 1) \div BLK_SIZE
Spans(r) == lba_lb(r) # lba_ub(r)

(* kheap_alloc gives size bytes, or NULL.                                  *)
Granted(size) == size <= room
RoomAfter(size) == IF size <= room THEN room - size ELSE room

(* blkdev_rd                                                               *)
Refused(lba, cnt) == lba + cnt > NBLK

(* What a buffer holds after the driver was asked for cnt blocks and got   *)
(* done of them: the last one, at the front.                               *)
Filled(b, lba, done) ==
  IF done = 0 THEN b
  ELSE [k \in DOMAIN b |-> IF k <= BLK_SIZE THEN Block(lba + done - 1)[k] ELSE b[k]]

Done(cnt) == IF DriverFails THEN 0 .. cnt ELSE {cnt}

-----------------------------------------------------------------------------
NoReq == [addr |-> 0, n |-> 0]

(* blk_cache_create: no block is loaded yet, which loaded_blk = NBLK says. *)
Init ==
  /\ \E left \in Rooms :
       \/ left >= BLK_SIZE /\ buf = Uninit(BLK_SIZE) /\ room = left - BLK_SIZE
       \/ left < BLK_SIZE /\ buf = NULL /\ room = left
  /\ loaded_blk = NBLK /\ mutex = 0
  /\ pc = [c \in Cpu |-> "idle"]
  /\ req = [c \in Cpu |-> NoReq]
  /\ dst = [c \in Cpu |-> <<>>]
  /\ tainted = FALSE

Goto(c, label) == pc' = [pc EXCEPT ![c] = label]

(* blk_cache_rd; a read of nothing returns before the lock.                *)
rd_lock_dropped(c) ==
  /\ pc[c] = "idle"
  /\ mutex' = 1
  /\ \E addr \in Addrs, n \in Counts \ {0} :
       req' = [req EXCEPT ![c] = [addr |-> addr, n |-> n]]
  /\ Goto(c, "rd")
  /\ UNCHANGED <<buf, loaded_blk, dst, tainted, room>>
rd_lock(c) ==
  /\ pc[c] = "idle"
  /\ k_mutex_lock(mutex)
  /\ \E addr \in Addrs, n \in Counts \ {0} :
       req' = [req EXCEPT ![c] = [addr |-> addr, n |-> n]]
  /\ Goto(c, "rd")
  /\ UNCHANGED <<buf, loaded_blk, dst, tainted, room>>

(* Across blocks: read into a fresh buffer, copy out of it.                *)
rd_span(c) ==
  LET r == req[c]
      cnt == rd_blk_cnt(r)
  IN
  /\ pc[c] = "rd" /\ Spans(r)
  /\ Granted(BLK_SIZE * cnt) /\ ~Refused(lba_lb(r), cnt)
  /\ \E done \in Done(cnt) :
       LET rd_buf == Filled(Uninit(BLK_SIZE * cnt), lba_lb(r), done)
       IN  dst' = [dst EXCEPT ![c] = Copy(rd_buf, byte_addr(r), r.n)]
  /\ room' = RoomAfter(BLK_SIZE * cnt)
  /\ Goto(c, "ok")
  /\ UNCHANGED <<cache_vars, req>>

(* blkdev_rd refused: return 1.  A buffer for several blocks is not freed  *)
(* here either.                                                            *)
rd_fail_loaded(c) ==
  LET r == req[c] IN
  /\ pc[c] = "rd"
  /\ \/ Spans(r) /\ Refused(lba_lb(r), rd_blk_cnt(r))
     \/ ~Spans(r) /\ lba_lb(r) # loaded_blk /\ Refused(lba_lb(r), 1)
  /\ loaded_blk' = lba_lb(r)
  /\ k_mutex_unlock(mutex)
  /\ req' = [req EXCEPT ![c] = NoReq]
  /\ Goto(c, "idle")
  /\ UNCHANGED <<buf, tainted, dst, room>>
rd_fail_locked(c) ==
  LET r == req[c] IN
  /\ pc[c] = "rd"
  /\ \/ Spans(r) /\ Refused(lba_lb(r), rd_blk_cnt(r))
     \/ ~Spans(r) /\ lba_lb(r) # loaded_blk /\ Refused(lba_lb(r), 1)
  /\ room' = IF Spans(r) THEN RoomAfter(BLK_SIZE * rd_blk_cnt(r)) ELSE room
  /\ req' = [req EXCEPT ![c] = NoReq]
  /\ Goto(c, "idle")
  /\ UNCHANGED <<buf, loaded_blk, mutex, tainted, dst>>
rd_fail(c) ==
  LET r == req[c] IN
  /\ pc[c] = "rd"
  /\ \/ Spans(r) /\ Refused(lba_lb(r), rd_blk_cnt(r))
     \/ ~Spans(r) /\ lba_lb(r) # loaded_blk /\ Refused(lba_lb(r), 1)
  /\ room' = IF Spans(r) THEN RoomAfter(BLK_SIZE * rd_blk_cnt(r)) ELSE room
  /\ k_mutex_unlock(mutex)
  /\ req' = [req EXCEPT ![c] = NoReq]
  /\ Goto(c, "idle")
  /\ UNCHANGED <<buf, loaded_blk, tainted, dst>>

(* Within a block that is not loaded: load it.                             *)
rd_load(c) ==
  LET r == req[c] IN
  /\ pc[c] = "rd" /\ ~Spans(r) /\ lba_lb(r) # loaded_blk /\ buf # NULL
  /\ ~Refused(lba_lb(r), 1)
  /\ \E done \in Done(1) :
       /\ buf' = Filled(buf, lba_lb(r), done)
       /\ tainted' = (done = 0)
  /\ loaded_blk' = lba_lb(r)
  /\ Goto(c, "copy")
  /\ UNCHANGED <<mutex, room, req, dst>>

rd_hit(c) ==
  /\ pc[c] = "rd" /\ ~Spans(req[c]) /\ lba_lb(req[c]) = loaded_blk /\ buf # NULL
  /\ Goto(c, "copy")
  /\ UNCHANGED <<cache_vars, room, req, dst>>

(* The driver or the copy uses a buffer that is NULL: the processor faults *)
(* with the lock held.                                                     *)
rd_fault(c) ==
  LET r == req[c] IN
  /\ pc[c] = "rd"
  /\ \/ /\ Spans(r) /\ ~Granted(BLK_SIZE * rd_blk_cnt(r))
        /\ ~Refused(lba_lb(r), rd_blk_cnt(r))
     \/ /\ ~Spans(r) /\ buf = NULL
        /\ lba_lb(r) = loaded_blk \/ ~Refused(lba_lb(r), 1)
  /\ Goto(c, "fault")
  /\ UNCHANGED <<cache_vars, room, req, dst>>

rd_copy(c) ==
  /\ pc[c] = "copy"
  /\ dst' = [dst EXCEPT ![c] = Copy(buf, byte_addr(req[c]), req[c].n)]
  /\ Goto(c, "ok")
  /\ UNCHANGED <<cache_vars, room, req>>

(* Unlock and return 0.                                                    *)
rd_return(c) ==
  /\ pc[c] = "ok"
  /\ k_mutex_unlock(mutex)
  /\ req' = [req EXCEPT ![c] = NoReq]
  /\ dst' = [dst EXCEPT ![c] = <<>>]
  /\ Goto(c, "idle")
  /\ UNCHANGED <<buf, loaded_blk, tainted, room>>

Inside(c) ==
  \/ rd_span(c) \/ rd_fail(c) \/ rd_load(c) \/ rd_hit(c) \/ rd_fault(c)
  \/ rd_copy(c) \/ rd_return(c)

(* After a fault the others wait for the lock.                             *)
Stopped == (\E c \in Cpu : pc[c] = "fault") /\ UNCHANGED vars

Next == (\E c \in Cpu : rd_lock(c) \/ Inside(c)) \/ Stopped

Spec == Init /\ [][Next]_vars

(* A processor inside blk_cache_rd keeps executing, and so does its driver.*)
FairSpec == Spec /\ \A c \in Cpu : WF_vars(Inside(c))

-----------------------------------------------------------------------------
(* Unless the driver failed to load it, buf is the block loaded_blk says   *)
(* it is, whatever reads were refused or crossed blocks in between.        *)
CacheCoherent == buf # NULL /\ loaded_blk < NBLK /\ ~tainted => buf = Block(loaded_blk)

InOneBlock(r) == ~Spans(r) /\ lba_lb(r) < NBLK

(* A read within one block of the device that returns 0 returns the bytes  *)
(* of the device: hit or miss, and with other processors reading through   *)
(* the same cache.                                                         *)
BlockReadsRight ==
  \A c \in Cpu :
    pc[c] = "ok" /\ InOneBlock(req[c]) /\ ~tainted
      => dst[c] = Bytes(req[c].addr, req[c].n)

(* Every read gives the lock back as long as the heap had room for the     *)
(* cache's buffer and still has room for the largest read: what the reads  *)
(* across blocks leak is the only thing that can stop the cache, and reads *)
(* within a block cost nothing.                                            *)
LargestRead == CHOOSE m \in Counts : \A n \in Counts : n <= m
Spent == buf = NULL \/ room < BLK_SIZE * rd_blk_cnt([addr |-> 0, n |-> LargestRead])
LockReleased == mutex = 1 ~> mutex = 0 \/ Spent

(* blk_cache.h:12 calls this a byte-level read interface for block devices:*)
(* a read of bytes the device has that returns 0 returns those bytes.      *)
BytesAreRead ==
  \A c \in Cpu :
    /\ pc[c] = "ok" /\ ~tainted
    /\ req[c].addr + req[c].n <= NBLK * BLK_SIZE
    => dst[c] = Bytes(req[c].addr, req[c].n)
=============================================================================
