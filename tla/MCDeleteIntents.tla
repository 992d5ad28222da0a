-------------------------- MODULE MCDeleteIntents --------------------------
(* DeleteIntents with a budget: two deletes and two incarnations race on one *)
(* connection, one delete meets crashes, faults and a second connection, and *)
(* a restart that brings a consumed delete back meets a second edit.         *)
EXTENDS DeleteIntents

Budget ==
  /\ intents + connects <= 3 /\ next + connects <= 4
  /\ intents = 2 \/ next = 3 => restarts + faults = 0
  /\ connects = 2 => (IF writes = 0 THEN 0 ELSE 1) + restarts + 2 * faults <= 2
  /\ writes = 2 => restarts = 1 /\ connects = 2 /\ faults = 0
=============================================================================
