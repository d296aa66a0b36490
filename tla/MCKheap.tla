------------------------------- MODULE MCKheap -------------------------------
(* A heap of at most four 64-byte pages at address 256.                    *)
EXTENDS Kheap

(* Empty, not a multiple of 16, a multiple of 16, and longer than a page.  *)
MCSizes == {0, 7, 32, 90}
=============================================================================
