-------------------------------- MODULE MCVmm --------------------------------
(* Twenty-four virtual pages.  Frames 0 to 15 are mapped where they are,   *)
(* the kernel's image is frame 16; kernel and stack share their tables,    *)
(* the heap's last table does not exist until the heap is used.            *)
EXTENDS Vmm

MCRadix == <<2, 1, 3, 4>>
MCUsable == [n \in 1 .. 15 |-> n]
MCKernelMap == <<Request(17, 16)>>
MCKStk == <<16>>

(* Plenty, barely enough to boot, enough for the first heap page but not   *)
(* for its table, and too little to boot.                                  *)
MCFrees == {1 .. 15, 3 .. 15, 4 .. 15, 5 .. 15, 1 .. 12, {1, 2, 14, 15},
            (1 .. 15) \ {4, 8}, {1, 2, 3, 5, 6, 7, 9, 10, 11, 13, 14, 15}}

(* The allocator hands out its highest frame first.                        *)
HighestFirst(S) == {f \in S : \A g \in S : g <= f}
=============================================================================
