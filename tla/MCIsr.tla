-------------------------------- MODULE MCIsr --------------------------------
(* A fault, a trap, a double fault, the lines' vectors before and after    *)
(* remapping, an exception with an error code, an absent one, the first    *)
(* and a spurious device vector, and the system call.                      *)
EXTENDS Isr

MCVectors == {0, 1, 3, 8, 11, 14, 15, 32, 39, 128}
MCStray == {32, 39}
=============================================================================
