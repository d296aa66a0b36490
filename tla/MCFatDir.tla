------------------------------ MODULE MCFatDir -------------------------------
(* A root directory of three entries and its end mark, and one             *)
(* subdirectory (cluster 2) of one entry and its end mark.  Files are at   *)
(* cluster 3.  "A" is the upper case of "a".  Long-name entries come first *)
(* or second in the root, one in the middle of its name and one that ends  *)
(* it, and one name of a path is too long for its buffer.                  *)
EXTENDS FatDir

MCLower(c) == IF c = "A" THEN "a" ELSE c

End == [kind |-> "end"]
Unused == [kind |-> "unused"]
Lfn(order) == [kind |-> "lfn", order |-> order]
Std(name, dir, ro) ==
  [kind |-> "std", name |-> name, dir |-> dir, ro |-> ro,
   cluster |-> IF dir THEN 2 ELSE 3]

RootEntries ==
  {End, Unused, Std(<<"A">>, TRUE, FALSE), Std(<<"A">>, FALSE, TRUE),
   Std(<<"A", "b">>, FALSE, FALSE), Std(<<"b">>, TRUE, FALSE),
   Std(<<"b", "A">>, FALSE, FALSE)}
LongNames == {Lfn(18), Lfn(65)}
SubEntries == {End, Unused, Std(<<"A">>, FALSE, FALSE), Std(<<"b">>, FALSE, TRUE)}
Pad == Std(<<"b">>, FALSE, FALSE)

MCDisks ==
  {<<e1, e2, e3, End, s, End, Pad, End>> :
     e1 \in RootEntries \cup LongNames, e2 \in RootEntries \cup LongNames, e3 \in RootEntries, s \in SubEntries}
MCPaths ==
  [names : {<<>>, <<<<"a">>>>, <<<<"b", "a">>>>, <<<<"a">>, <<"a">>>>, <<<<"A">>, <<"b">>>>,
           <<<<"a">>, <<"b", "a", "b">>>>},
   tail : {"none", "slash", "slashes"}]
MCStackInfo ==
  {[name |-> <<>>, dir |-> d, ro |-> FALSE, cluster |-> 0] : d \in BOOLEAN}
=============================================================================
