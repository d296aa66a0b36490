------------------------------ MODULE MemLayout ------------------------------
(***************************************************************************)
(* The table of usable physical memory (kernel/src/mem_layout.c).          *)
(*                                                                         *)
(* meml_init() walks the memory map the boot loader hands over and copies  *)
(* the usable entries that are large enough into ml_ents, up to a fixed    *)
(* number of entries.  Everything that later hands out or maps memory      *)
(* (Pmm, Vmm) reads that table through meml_get().                         *)
(*                                                                         *)
(* Addresses are page numbers: the boot loader's usable entries are page   *)
(* aligned, and every user of the table divides by PAGE_SIZE.              *)
(***************************************************************************)
EXTENDS Integers, Sequences

CONSTANTS
  MemMaps,        \* the boot loader's possible maps: sequences of entries (external)
  MEML_MAX_ENTS,  \* capacity of ml_ents
  MIN_ENT_PAGES   \* shortest entry that is kept, in pages (0x10 in the code)

PAGE_SIZE == 4096

(* An entry of the boot loader's map; base and length count pages.         *)
MemMapEntry == [usable : BOOLEAN, base : Nat, length : Nat]

(* An entry of the table, in pages.                                        *)
meml_ent == [base : Nat, size : Nat]

(* Two entries of the boot loader's map do not overlap.                    *)
Apart(e, f) == e.base + e.length <= f.base \/ f.base + f.length <= e.base

ASSUME MemLayoutAssumption ==
  /\ MEML_MAX_ENTS \in Nat \ {0}
  /\ MIN_ENT_PAGES \in Nat /\ MIN_ENT_PAGES >= 2
  /\ \A map \in MemMaps :
       /\ map \in Seq(MemMapEntry)
       /\ \A a, b \in DOMAIN map : a # b => Apart(map[a], map[b])

VARIABLES
  mem_map,   \* the map of this machine, mem_map_req.response (external)
  ml_ents,   \* the table, a sequence of [base, size] in pages
  ml_pos     \* loop index of meml_init

meml_vars == <<mem_map, ml_ents, ml_pos>>

MemlInit == mem_map \in MemMaps /\ ml_ents = <<>> /\ ml_pos = 1

(* The entries meml_init keeps.                                            *)
Eligible(e) == e.usable /\ e.length >= MIN_ENT_PAGES

(* The loop condition of meml_init.                                        *)
MemlMore == ml_pos <= Len(mem_map) /\ Len(ml_ents) < MEML_MAX_ENTS

(* One iteration of the loop of meml_init.                                 *)
meml_collect ==
  LET e == mem_map[ml_pos] IN
  /\ MemlMore
  /\ ml_ents' = IF Eligible(e)
                THEN Append(ml_ents, [base |-> e.base, size |-> e.length])
                ELSE ml_ents
  /\ ml_pos' = ml_pos + 1
  /\ UNCHANGED mem_map
=============================================================================
