---------------------------- MODULE MCNoteLives ----------------------------
(* NoteLives with roles for three devices: one writes the first word and no  *)
(* other, goes away and comes back late; another stays connected; the third  *)
(* may do anything. Behaviours that need a copy or a dead socket are left to *)
(* the run with two devices.                                                 *)
EXTENDS NoteLives

CONSTANTS late, stays

Roles ==
  /\ ~clashed /\ lapses \subseteq {"caught"}
  /\ \A d \in Devices : link[d] # "silent" /\ note[d].copies = {}
  /\ link[stays] = "up" /\ note[late].pending = "none"
  /\ Len(note[late].doc[late]) = (IF words = 0 THEN 0 ELSE 1)
=============================================================================
