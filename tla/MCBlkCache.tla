------------------------------ MODULE MCBlkCache ------------------------------
(* Two blocks of three bytes.                                              *)
EXTENDS BlkCache
=============================================================================
