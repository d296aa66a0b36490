-------------------------------- MODULE MCAta --------------------------------
(* Two buses, only one of which is cached: the one that is used first.     *)
(* One bus has both devices, one of them with 48-bit addresses; the other  *)
(* has none, and may float.                                                *)
EXTENDS Ata

CONSTANTS b1, b2

Devices == {<<b1, 0>>, <<b1, 1>>}
Devices48 == {<<b1, 0>>}
=============================================================================
