--------------------------------- MODULE Vmm ---------------------------------
(***************************************************************************)
(* Virtual memory: the four-level page tables (arch/paging.c) and the      *)
(* kernel's own map built on them (kernel/src/vmm.c).                      *)
(*                                                                         *)
(* Every page table is a page frame of physical memory, mem[frame] is what *)
(* a frame holds when it is read as a table.  paging_map() walks down from *)
(* the pml4, allocates and clears the tables that are missing and links    *)
(* them in, and writes the last entry in two stores.  The processor's own  *)
(* table walker may look at the tables between any two of these steps.     *)
(*                                                                         *)
(* The kernel reaches a table by using its physical address as a virtual   *)
(* one, so the map it builds must map its own tables where they are.       *)
(***************************************************************************)
EXTENDS Integers, Sequences, FiniteSets

CONSTANTS
  RADIX,        \* entries in a table, per level (512 at each in the code)
  Frame,        \* page frames of physical memory
  LowPages,     \* how many pages the first megabyte has
  Usable,       \* the frames of all usable regions, in layout order
  Frees,        \* sets of frames the allocator may have at the start
  KernelMap,    \* the kernel's image: sequence of [vaddr, paddr]
  KStkVaddrs,   \* virtual pages of the new kernel stack, in order
  CurVaddrs,    \* virtual pages given to vmm_map_cur and vmm_unmap_cur
  Grants(_)     \* which of the free frames pmm_alloc may return

NPAGES == RADIX[1] * RADIX[2] * RADIX[3] * RADIX[4]
VAddr == 0 .. NPAGES - 1
Level == 1 .. 4
PHYS_ADDR_NULL == 0
MAX_RADIX == CHOOSE r \in {RADIX[l] : l \in Level} :
               \A l \in Level : RADIX[l] <= r

UsableFrames == {Usable[j] : j \in DOMAIN Usable}

(* Stack and heap lie in the upper half of the address space (K_STK_BASE,  *)
(* KH_START), above every physical address.                                *)
ASSUME VmmAssumption ==
  /\ RADIX \in [Level -> Nat \ {0}]
  /\ Frame \subseteq Nat /\ PHYS_ADDR_NULL \in Frame
  /\ LowPages \in Nat /\ 0 .. LowPages - 1 \subseteq Frame \cap VAddr
  /\ Usable \in Seq(Frame \cap VAddr)
  /\ \A S \in Frees : S \subseteq UsableFrames \ {PHYS_ADDR_NULL}
  /\ KernelMap \in Seq([vaddr : VAddr, paddr : Frame])
  /\ KStkVaddrs \in Seq(VAddr \ UsableFrames)
  /\ CurVaddrs \subseteq VAddr \ UsableFrames

VARIABLES
  mem,        \* page-table entries held by each frame
  free,       \* frames the allocator still has
  pml4,       \* the kernel's map
  active,     \* the map is loaded into cr3
  todo,       \* what vmm_init has yet to map, in order
  stage,
  call,       \* the paging_map or paging_unmap in progress
  tlb,        \* translations the processor has cached
  tables,     \* history: frames in use as tables
  asked,      \* history: what each virtual page was last mapped to
  exhausted   \* history: pmm_alloc has failed

vmm_vars == <<mem, free, pml4, active, todo, stage, call, tlb, tables, asked, exhausted>>

-----------------------------------------------------------------------------
(* Entries and flags.                                                      *)

page_dir_t == [p : BOOLEAN, addr : Frame, rw : BOOLEAN]

Zero == [p |-> FALSE, addr |-> PHYS_ADDR_NULL, rw |-> FALSE]

(* What a frame holds before it is cleared: anything, at worst entries     *)
(* that look valid.                                                        *)
Junk == [p |-> TRUE, addr |-> PHYS_ADDR_NULL, rw |-> TRUE]

Table(e) == [ind \in 0 .. MAX_RADIX - 1 |-> e]

(* vmm_map's conversion of VF_WRITE, and the flags of an entry.            *)
Entry(frame, flags) ==
  [p |-> TRUE, addr |-> frame, rw |-> "VF_WRITE" \in flags]

(* The index a virtual page has into its table of level l.                 *)
vaddr_to_pg_ind(v, l) ==
  CASE l = 4 -> v % RADIX[4]
    [] l = 3 -> (v \div RADIX[4]) % RADIX[3]
    [] l = 2 -> (v \div (RADIX[4] * RADIX[3])) % RADIX[2]
    [] l = 1 -> (v \div (RADIX[4] * RADIX[3] * RADIX[2])) % RADIX[1]

-----------------------------------------------------------------------------
(* The processor's walk: the entries on the path to a virtual page, and    *)
(* the translation, which is writable when every level is.                 *)
Unmapped == [addr |-> PHYS_ADDR_NULL, rw |-> FALSE, p |-> FALSE]

Step(e, v, l) == IF e.p THEN mem[e.addr][vaddr_to_pg_ind(v, l)] ELSE Zero

Walk(v) ==
  LET e1 == mem[pml4][vaddr_to_pg_ind(v, 1)]
      e2 == Step(e1, v, 2)
      e3 == Step(e2, v, 3)
      e4 == Step(e3, v, 4)
  IN  IF e4.p
      THEN [addr |-> e4.addr, rw |-> e1.rw /\ e2.rw /\ e3.rw /\ e4.rw, p |-> TRUE]
      ELSE Unmapped

-----------------------------------------------------------------------------
(* pmm_alloc as its callers see it: a free frame, or PHYS_ADDR_NULL when   *)
(* there is none (module Pmm).                                             *)
pmm_alloc(f) ==
  \/ f \in free \cap Grants(free) /\ free' = free \ {f} /\ UNCHANGED exhausted
  \/ free = {} /\ f = PHYS_ADDR_NULL /\ exhausted' = TRUE /\ UNCHANGED free

NoCall == [op |-> "none", vaddr |-> 0, paddr |-> 0, flags |-> {}, l |-> 1,
           cur |-> 0, new |-> 0]

Request(v, p) == [vaddr |-> v, paddr |-> p]

(* What vmm_init maps after paging_create_map: the first megabyte (which   *)
(* paging_create_map maps itself), the kernel, every usable region where   *)
(* it is, and the stack's pages, whose frames are allocated one by one.    *)
ToBeAllocated == -1
Identity(frames) == [j \in DOMAIN frames |-> Request(frames[j], frames[j])]
BootMapsUnusable ==
  [j \in 1 .. LowPages |-> Request(j - 1, j - 1)]
  \o KernelMap
  \o [j \in DOMAIN KStkVaddrs |-> Request(KStkVaddrs[j], ToBeAllocated)]
BootMaps ==
  [j \in 1 .. LowPages |-> Request(j - 1, j - 1)]
  \o KernelMap
  \o Identity(Usable)
  \o [j \in DOMAIN KStkVaddrs |-> Request(KStkVaddrs[j], ToBeAllocated)]

-----------------------------------------------------------------------------
VmmInit ==
  /\ mem = [f \in Frame |-> Table(Junk)]
  /\ free \in Frees /\ pml4 = PHYS_ADDR_NULL /\ active = FALSE
  /\ todo = <<>> /\ stage = "create" /\ call = NoCall /\ tlb = <<>>
  /\ tables = {} /\ exhausted = FALSE
  /\ asked = [v \in VAddr |-> Unmapped]

(* paging_create_map: a cleared pml4.                                      *)
create_map ==
  /\ stage = "create"
  /\ \E f \in Frame :
       /\ pmm_alloc(f)
       /\ pml4' = f
       /\ mem' = [mem EXCEPT ![f] = Table(Zero)]
       /\ tables' = {f}
  /\ todo' = BootMaps
  /\ stage' = "boot"
  /\ UNCHANGED <<active, call, tlb, asked>>

Begin(op, v, p, flags) ==
  /\ call' = [op |-> op, vaddr |-> v, paddr |-> p, flags |-> flags, l |-> 1,
              cur |-> pml4, new |-> 0]
  /\ stage' = "walk"

(* The loops of paging_create_map and vmm_init: map the next page.  All of *)
(* them ask for a writable page.                                           *)
boot_map ==
  /\ stage = "boot" /\ todo # <<>>
  /\ LET req == Head(todo) IN
     \/ /\ req.paddr # ToBeAllocated
        /\ Begin("map", req.vaddr, req.paddr, {"VF_WRITE"})
        /\ UNCHANGED <<free, exhausted>>
     \/ /\ req.paddr = ToBeAllocated
        /\ \E f \in Frame :
             pmm_alloc(f) /\ Begin("map", req.vaddr, f, {"VF_WRITE"})
  /\ todo' = Tail(todo)
  /\ UNCHANGED <<mem, pml4, active, tlb, tables, asked>>

(* cpu_switch_mem_ctx loads cr3, which empties the TLB.                    *)
switch_mem_ctx ==
  /\ stage = "boot" /\ todo = <<>>
  /\ active' = TRUE /\ tlb' = <<>> /\ stage' = "idle"
  /\ UNCHANGED <<mem, free, pml4, todo, call, tables, asked, exhausted>>

-----------------------------------------------------------------------------
(* paging_map                                                              *)

Ind == vaddr_to_pg_ind(call.vaddr, call.l)
Cur == mem[call.cur][Ind]

(* some_next_pg_dir takes a table at address 0 for a missing one.          *)
Lost == call.op = "unmap" /\ call.cur = PHYS_ADDR_NULL

(* next_pg_dir and some_next_pg_dir: the next table is there.              *)
descend ==
  /\ stage = "walk" /\ call.l < 4 /\ Cur.p /\ ~Lost
  /\ call' = [call EXCEPT !.cur = Cur.addr, !.l = @ + 1]
  /\ UNCHANGED <<mem, free, pml4, active, todo, stage, tlb, tables, asked, exhausted>>

(* next_pg_dir: it is not; allocate a frame and clear it.                  *)
new_dir_uncleared ==
  /\ stage = "walk" /\ call.op = "map" /\ call.l < 4 /\ ~Cur.p
  /\ \E f \in Frame :
       /\ pmm_alloc(f)
       /\ tables' = tables \cup {f}
       /\ call' = [call EXCEPT !.new = f]
  /\ stage' = "link"
  /\ UNCHANGED <<mem, pml4, active, todo, tlb, asked>>
new_dir ==
  /\ stage = "walk" /\ call.op = "map" /\ call.l < 4 /\ ~Cur.p
  /\ \E f \in Frame :
       /\ pmm_alloc(f)
       /\ mem' = [mem EXCEPT ![f] = Table(Zero)]
       /\ tables' = tables \cup {f}
       /\ call' = [call EXCEPT !.new = f]
  /\ stage' = "link"
  /\ UNCHANGED <<pml4, active, todo, tlb, asked>>

(* The new table becomes present with the flags of this mapping.           *)
link_dir_readonly ==
  /\ stage = "link"
  /\ mem' = [mem EXCEPT ![call.cur][Ind] = Entry(call.new, {})]
  /\ call' = [call EXCEPT !.cur = call.new, !.l = @ + 1, !.new = 0]
  /\ stage' = "walk"
  /\ UNCHANGED <<free, pml4, active, todo, tlb, tables, asked, exhausted>>
link_dir ==
  /\ stage = "link"
  /\ mem' = [mem EXCEPT ![call.cur][Ind] = Entry(call.new, call.flags)]
  /\ call' = [call EXCEPT !.cur = call.new, !.l = @ + 1, !.new = 0]
  /\ stage' = "walk"
  /\ UNCHANGED <<free, pml4, active, todo, tlb, tables, asked, exhausted>>

(* The last entry is written twice: first the bare address, then with its  *)
(* flags.                                                                  *)
map_addr ==
  /\ stage = "walk" /\ call.op = "map" /\ call.l = 4
  /\ mem' = [mem EXCEPT ![call.cur][Ind] =
                          [Zero EXCEPT !.addr = call.paddr]]
  /\ stage' = "flags"
  /\ UNCHANGED <<free, pml4, active, todo, call, tlb, tables, asked, exhausted>>

map_flags ==
  /\ stage = "flags"
  /\ mem' = [mem EXCEPT ![call.cur][Ind] = Entry(call.paddr, call.flags)]
  /\ asked' = [asked EXCEPT ![call.vaddr] =
                 [addr |-> call.paddr, rw |-> "VF_WRITE" \in call.flags, p |-> TRUE]]
  /\ stage' = "ret"
  /\ UNCHANGED <<free, pml4, active, todo, call, tlb, tables, exhausted>>

-----------------------------------------------------------------------------
(* paging_unmap                                                            *)

unmap_absent ==
  /\ stage = "walk" /\ call.op = "unmap"
  /\ Lost \/ (call.l < 4 /\ ~Cur.p)
  /\ asked' = [asked EXCEPT ![call.vaddr] = Unmapped]
  /\ stage' = "ret"
  /\ UNCHANGED <<mem, free, pml4, active, todo, call, tlb, tables, exhausted>>

unmap_clear ==
  /\ stage = "walk" /\ call.op = "unmap" /\ call.l = 4 /\ ~Lost
  /\ mem' = [mem EXCEPT ![call.cur][Ind] = Zero]
  /\ asked' = [asked EXCEPT ![call.vaddr] = Unmapped]
  /\ stage' = "ret"
  /\ UNCHANGED <<free, pml4, active, todo, call, tlb, tables, exhausted>>

-----------------------------------------------------------------------------
(* vmm_map_cur and vmm_unmap_cur on the loaded map: the callers give       *)
(* vmm_map_cur a frame they checked against PHYS_ADDR_NULL.                *)
map_cur(v) ==
  /\ stage = "idle"
  /\ \E f \in Frame \ {PHYS_ADDR_NULL} :
       pmm_alloc(f) /\ Begin("map", v, f, {"VF_WRITE"})
  /\ UNCHANGED <<mem, pml4, active, todo, tlb, tables, asked>>

unmap_cur(v) ==
  /\ stage = "idle"
  /\ Begin("unmap", v, 0, {})
  /\ UNCHANGED <<mem, free, pml4, active, todo, tlb, tables, asked, exhausted>>

(* Back in vmm_map_cur or vmm_unmap_cur: paging_invlpg, then return.  In   *)
(* vmm_init the next page follows.                                         *)
map_ret_noflush ==
  /\ stage = "ret"
  /\ stage' = IF active THEN "idle" ELSE "boot"
  /\ call' = NoCall
  /\ UNCHANGED <<mem, free, pml4, active, todo, tlb, tables, asked, exhausted>>
map_ret ==
  /\ stage = "ret"
  /\ stage' = IF active THEN "idle" ELSE "boot"
  /\ tlb' = IF active
            THEN [v \in DOMAIN tlb \ {call.vaddr} |-> tlb[v]]
            ELSE tlb
  /\ call' = NoCall
  /\ UNCHANGED <<mem, free, pml4, active, todo, tables, asked, exhausted>>

(* The processor may cache a translation whenever it finds one.            *)
tlb_fill(v) ==
  /\ active /\ v \notin DOMAIN tlb /\ Walk(v).p
  /\ tlb' = [w \in DOMAIN tlb \cup {v} |-> IF w = v THEN Walk(v) ELSE tlb[w]]
  /\ UNCHANGED <<mem, free, pml4, active, todo, stage, call, tables, asked, exhausted>>

-----------------------------------------------------------------------------
VmmNext ==
  \/ create_map \/ boot_map \/ switch_mem_ctx
  \/ descend \/ new_dir \/ link_dir \/ map_addr \/ map_flags
  \/ unmap_absent \/ unmap_clear \/ map_ret
  \/ \E v \in CurVaddrs : map_cur(v) \/ unmap_cur(v) \/ tlb_fill(v)

VmmSpec == VmmInit /\ [][VmmNext]_vmm_vars

-----------------------------------------------------------------------------
(* Between calls, the four levels translate every virtual page exactly to  *)
(* what it was last mapped to, writable if that was asked, and no page     *)
(* that was unmapped or never mapped: paging_map and paging_unmap through  *)
(* shared tables disturb nothing.  From the first failed pmm_alloc on,     *)
(* next_pg_dir uses frame 0 as a table and nothing is promised.            *)
MapHonest ==
  stage \in {"boot", "idle"} /\ ~exhausted => \A v \in VAddr : Walk(v) = asked[v]

(* A concurrent table walk never sees anything half-built: a step of       *)
(* paging_map or paging_unmap changes at most the translation of the page  *)
(* it works on, and only to the requested frame or to nothing.             *)
WalkerSafe ==
  [][~exhausted' /\ stage # "create" =>
       \A v \in VAddr : Walk(v)' # Walk(v) =>
         /\ v = call.vaddr
         /\ Walk(v)' \in {Unmapped, [addr |-> call.paddr, p |-> TRUE,
                                     rw |-> "VF_WRITE" \in call.flags]}]_vmm_vars

(* Once the new map is loaded, every frame in use as a page table is       *)
(* mapped, writable, at its own address: vmm_init maps usable memory       *)
(* before the switch, and later tables come from that memory.  next_pg_dir *)
(* dereferences physical addresses and depends on it.                      *)
TablesReachable ==
  active /\ ~exhausted =>
    \A f \in tables : Walk(f) = [addr |-> f, rw |-> TRUE, p |-> TRUE]

(* Between calls no cached translation is stale: vmm_map_cur and           *)
(* vmm_unmap_cur invalidate the page after changing the tables, and the    *)
(* processor may have refilled it from the tables at any point before.     *)
TlbCoherent ==
  stage = "idle" /\ ~exhausted => \A v \in DOMAIN tlb : tlb[v] = Walk(v)
=============================================================================
