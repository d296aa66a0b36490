-------------------------------- MODULE MCRtc --------------------------------
(* Two processors, all four modes, and seconds at which every register     *)
(* rolls over: 9:59:59 in the morning, 12:59:59, and the end of a year.    *)
EXTENDS Rtc

CONSTANT c1

T(y, mo, d, h, mi, s) ==
  [year |-> y, month |-> mo, day |-> d, hour |-> h, min |-> mi, sec |-> s]

MCTimes ==
  << T(2019, 9, 30, 9, 59, 59), T(2019, 9, 30, 10, 0, 0),
     T(2029, 12, 31, 23, 59, 59), T(2030, 1, 1, 0, 0, 0),
     T(2030, 1, 1, 12, 59, 59), T(2030, 1, 1, 13, 0, 0) >>

MCModes == [bin : BOOLEAN, h24 : BOOLEAN]
=============================================================================
