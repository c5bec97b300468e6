--------------------------- MODULE MCKeyRegistry ---------------------------
(***************************************************************************)
(* KeyRegistry with two application threads, the keys "main", `a' (in      *)
(* every configuration) and `b' (in some of them), and some of four texts: *)
(* `only_a' names just a; `twin' main, a and b, with the same sum of bytes *)
(* as `only_a'; `both' main, a and b, with another; `empty' names nothing. *)
(***************************************************************************)
EXTENDS KeyRegistryProps, TLC

CONSTANTS both, only_a, twin, empty, main, a, b

FromText(l) == [enable |-> TRUE, level |-> l, fromfile |-> TRUE]

MCParsed ==
  [c \in Contents |->
     CASE c = both   -> [k \in Keys |-> FromText(Debug)]
       [] c = only_a -> [k \in Keys |-> IF k = a THEN FromText(High) ELSE NULL]
       [] c = twin   -> [k \in Keys |-> FromText(High)]
       [] c = empty  -> NULL]

MCSum == [c \in Contents |-> CASE c = both -> 3 [] c \in {only_a, twin} -> 2 [] c = empty -> 0]

\* The application's threads are interchangeable.
MCSymmetry == Permutations(Apps)
===========================================================================
