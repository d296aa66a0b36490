-------------------------------- MODULE MCPmm --------------------------------
(* Two processors and small memory maps.                                   *)
EXTENDS Pmm

Entry(u, b, n) == [usable |-> u, base |-> b, length |-> n]

(* Two usable regions of 3 and 4 pages (2 and 3 frames after their         *)
(* bitmaps), a reserved entry, one that is too short and one too many.     *)
TwoRegions == <<Entry(TRUE, 0, 3), Entry(FALSE, 3, 2), Entry(TRUE, 5, 2),
                Entry(TRUE, 8, 4), Entry(TRUE, 20, 9)>>

OneRegion == <<Entry(FALSE, 0, 9), Entry(TRUE, 9, 4)>>

NoRegion == <<Entry(FALSE, 0, 9), Entry(TRUE, 9, 1)>>

MCMemMaps == {TwoRegions, OneRegion, NoRegion}
=============================================================================
