------------------------------ MODULE KeyMap ------------------------------
(***************************************************************************)
(* What the registry of keys promises: one map, changed in one step at a   *)
(* time.  A configuration replaces it as a whole, a key that it does not   *)
(* have is entered, a setting alters one entry that it has, and nothing    *)
(* else.  There are no threads, locks, iterators, checksums or files here. *)
(* Nothing is promised of a map that is broken.                            *)
(***************************************************************************)
CONSTANTS
  Keys, Main,     (* the keys, and the key "main"                          *)
  Nothing,        (* where the map has no entry                            *)
  Texts,          (* the maps that configurations give                     *)
  Default,        (* the entry of a key that was not known                 *)
  MainDefault,    (* the entry that "main" gets after a configuration      *)
  Alters          (* <<e, f>> for each setting that makes f of an entry e  *)

VARIABLES map, broken

Init == map = [k \in Keys |-> Nothing] /\ broken = FALSE

Replace == map' \in Texts

Enter == \E k \in Keys : map[k] = Nothing /\ map' = [map EXCEPT ![k] = Default]

EnterMain == map' = [map EXCEPT ![Main] = MainDefault]

Set == \E k \in Keys : <<map[k], map'[k]>> \in Alters /\ map' = [map EXCEPT ![k] = map'[k]]

Break == broken' = TRUE

Next ==
  \/ (Replace \/ Enter \/ EnterMain \/ Set) /\ UNCHANGED broken
  \/ Break

Spec == Init /\ [][Next]_<<map, broken>>
===========================================================================
