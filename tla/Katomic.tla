------------------------------- MODULE Katomic -------------------------------
(***************************************************************************)
(* The kernel's only lock (kernel/src/katomic.c, arch/aatomic.S).          *)
(*                                                                         *)
(* A k_mutex_t is one byte.  aatomic_set() repeats a compare-and-exchange  *)
(* from 0 to 1 until it succeeds, aatomic_clr() one from 1 to 0: a failed  *)
(* exchange changes nothing, so each is an action that is disabled until   *)
(* its exchange can succeed.  There is no owner, no queue and no timeout.  *)
(***************************************************************************)
EXTENDS Naturals

k_mutex_t == 0 .. 1

k_mutex_lock(m) == m = 0 /\ m' = 1

k_mutex_unlock(m) == m = 1 /\ m' = 0
=============================================================================
