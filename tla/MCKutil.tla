------------------------------- MODULE MCKutil -------------------------------
(* Two processors.  The boot processor prints with every conversion, starts *)
(* the other one and prints on; the other one prints and may wait for a    *)
(* key.                                                                    *)
EXTENDS Kutil

CONSTANTS c1, c2

Conv(conv, mod, arg) == [conv |-> conv, mod |-> mod, arg |-> arg]

(* Every conversion, with zero, with numbers around a power of the base,   *)
(* and with numbers wider than the modifier.                               *)
Numbers ==
  << Conv("x", "Q", 2147483647), Conv("x", "D", 48879), Conv("x", "W", 65552),
     Conv("x", "B", 511), Conv("x", NONE, 0), Conv("x", NONE, 16), Conv("x", NONE, 255),
     Conv("b", "Q", 5), Conv("b", "D", 1), Conv("b", "W", 65537), Conv("b", "B", 256),
     Conv("b", NONE, 0), Conv("b", NONE, 8), Conv("b", NONE, 7),
     Conv("u", NONE, 0), Conv("u", NONE, 100), Conv("u", NONE, 2147483647),
     Conv("u", "B", 999), Conv("s", NONE, <<>>), Conv("s", NONE, <<65, 66>>),
     Conv("c", NONE, 321), Conv("z", NONE, 0), Lit(37) >>

Warn == <<Lit(65), Conv("u", NONE, 10)>>
Info == <<Conv("x", "B", 10), Conv("s", NONE, <<66, 67>>)>>
Err == <<Lit(68), Conv("b", NONE, 2), Lit(69)>>
Plain == <<Lit(70)>>

MCCalls ==
  [c \in Cpu |->
     IF c = BSP
     THEN ku_println("LT_DEBUG", Numbers) \o start_cpus \o ku_print("LT_WARN", Warn)
          \o au_println("LT_INFO", Info)
     ELSE ku_println("LT_ERR", Err) \o sp_read_ch \o ku_println("LT_NONE", Plain)]

MCItem ==
  UNION {Range(msg) : msg \in {Numbers, Warn, Info, Err, Plain}}
    \cup {Lit(ARCH), Lit(HANGING)}
=============================================================================
