---------------------------- MODULE CorrelatedCalls ----------------------------
(***************************************************************************)
(* What callers of requestSyncStart are promised: a call is answered with  *)
(* the server's answer to that very call, or rejected, once; and the calls *)
(* of one path are answered in the order in which they were made.  There   *)
(* are no sockets, timers or retries here: this is the abstract            *)
(* specification that SyncBroker implements.                               *)
(***************************************************************************)
CONSTANTS
  Requests,   \* the calls, each made at most once
  PathOf      \* the path each call asks about

VARIABLES
  call,       \* the promise of each call
  ahead       \* the pending calls of the same path that were made before it

vars == <<call, ahead>>

Pending == {r \in Requests : call[r] = "pending"}

Init ==
  /\ call = [r \in Requests |-> "new"]
  /\ ahead = [r \in Requests |-> {}]

Call(r) ==
  /\ call[r] = "new"
  /\ call' = [call EXCEPT ![r] = "pending"]
  /\ ahead' = [ahead EXCEPT ![r] = {x \in Pending : PathOf[x] = PathOf[r]}]

\* The call cannot be sent at all.
Refuse(r) ==
  /\ call[r] = "new"
  /\ call' = [call EXCEPT ![r] = "rejected"]
  /\ UNCHANGED ahead

\* The first call of a path is answered, others may be given up with it; or calls are given up.
Settle(answered, rejected) ==
  /\ answered \cap rejected = {}
  /\ \A r \in answered : ahead[r] = {}
  /\ \A r, x \in answered : PathOf[r] = PathOf[x] => r = x
  /\ call' = [r \in Requests |-> IF r \in answered THEN "answered"
                                 ELSE IF r \in rejected THEN "rejected" ELSE call[r]]
  /\ ahead' = [r \in Requests |-> IF r \in answered \cup rejected THEN {}
                                  ELSE ahead[r] \ (answered \cup rejected)]

Next ==
  \/ \E r \in Requests : Call(r) \/ Refuse(r)
  \/ \E answered, rejected \in SUBSET Pending : Settle(answered, rejected)

Spec == Init /\ [][Next]_vars
================================================================================
