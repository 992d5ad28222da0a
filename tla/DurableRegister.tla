---------------------------- MODULE DurableRegister ----------------------------
(***************************************************************************)
(* What the attachment index promises: one register that survives crashes. *)
(* Its content is the set of updates it reflects.  A restart reads what is *)
(* stable; the stable content only grows; it can be spoilt only while      *)
(* nothing has ever been stored, and a spoilt register is served read-only.*)
(* This is the abstract specification that BlobIndexStore's two files and  *)
(* write queue implement.                                                  *)
(***************************************************************************)
EXTENDS Naturals

CONSTANTS
  Updates,    \* the updates callers apply (entry changes and cursor moves)
  Nothing,    \* the register was never stored
  Spoilt      \* a first write was torn: there is nothing to restore

VARIABLES
  up,         \* an instance of the index is serving callers
  mem,        \* what that instance shows its callers
  readOnly,   \* the instance refuses updates
  stable      \* what the next restart reads

vars == <<up, mem, readOnly, stable>>

Stored == stable \notin {Nothing, Spoilt}

Init ==
  /\ up = FALSE
  /\ mem = {}
  /\ readOnly = FALSE
  /\ stable = Nothing

Update ==
  /\ up /\ ~readOnly
  /\ \E u \in Updates : mem' = mem \cup {u}
  /\ UNCHANGED <<up, readOnly, stable>>

\* The stable content moves forward, to something the instance has held, or a first write spoils it.
Advances ==
  \/ stable = Nothing /\ stable' = Spoilt
  \/ /\ stable # Spoilt
     /\ Stored' /\ stable' \subseteq mem
     /\ Stored => stable \subseteq stable'

Store ==
  /\ up
  /\ Advances
  /\ UNCHANGED <<up, mem, readOnly>>

\* A crash may interrupt a store, which then has happened or has not.
Crash ==
  /\ up' = FALSE /\ mem' = {} /\ readOnly' = FALSE
  /\ (up /\ Advances) \/ UNCHANGED stable

Restart ==
  /\ ~up /\ up'
  /\ mem' = IF Stored THEN stable ELSE {}
  /\ readOnly' = (stable = Spoilt)
  /\ UNCHANGED stable

Next == Update \/ Store \/ Crash \/ Restart

Spec == Init /\ [][Next]_vars
================================================================================
