-------------------------------- MODULE LogSpec --------------------------------
(***************************************************************************)
(* What the kernel's printing promises: one voice at a time.  A message    *)
(* that has begun is written to its end, character by character and        *)
(* without a loss, before another begins.  Newlines are not bound to the   *)
(* message they end, and may come out at any place.                        *)
(***************************************************************************)
EXTENDS Sequences

CONSTANTS
  Messages,   \* what may be printed, [prefix, words]: texts
  NL          \* the newline

VARIABLES
  wire,   \* what has been written
  word,   \* what is left of the word that is being written
  rest    \* the words of the message still to come

log_vars == <<wire, word, rest>>

Init == wire = <<>> /\ word = <<>> /\ rest = <<>>

Begin ==
  /\ word = <<>> /\ rest = <<>>
  /\ \E m \in Messages : word' = m.prefix /\ rest' = m.words
  /\ UNCHANGED wire

NextWord ==
  /\ word = <<>> /\ rest # <<>>
  /\ word' = Head(rest) /\ rest' = Tail(rest)
  /\ UNCHANGED wire

Say ==
  /\ word # <<>>
  /\ wire' = Append(wire, Head(word)) /\ word' = Tail(word)
  /\ UNCHANGED rest

Newline == wire' = Append(wire, NL) /\ UNCHANGED <<word, rest>>

Next == Begin \/ NextWord \/ Say \/ Newline

Spec == Init /\ [][Next]_log_vars
=============================================================================
