--------------------------- MODULE SyncBrokerProofs ---------------------------
(* Proofs about SyncBroker, for any calls, paths, number of sockets and starts. *)
EXTENDS SyncBroker, SequenceTheorems, TLAPS

(* Only the socket of now delivers frames.                                    *)
Lifecycle ==
  /\ ready # "down" => epoch \in Sockets
  /\ alive = IF ready \in {"connecting", "open"} THEN {epoch} ELSE {}

(* The broker keeps no entry while there is no socket that has been open.    *)
Idle == ready \in {"down", "connecting"} => \A p \in Paths : queue[p] = <<>>

(* The entries of a queue were made on the socket of now, each once, and only *)
(* the head may have lost its waiter.                                         *)
Queued ==
  \A p \in Paths : \A i \in 1..Len(queue[p]) :
    LET r == queue[p][i] IN
    /\ PathOf[r] = p /\ call[r] \notin {"new", "mismatched"} /\ stamp[r] = epoch
    /\ i # 1 => call[r] = "pending"
    /\ \A j \in 1..Len(queue[p]) : queue[p][j] = r => j = i

(* Nobody waits outside the queues.                                          *)
Waiting == \A r \in Requests : call[r] = "pending" => InQueue(r)

(* What the socket of now owes the client are the heads of queues, each once. *)
Owed ==
  /\ ready = "open" =>
       \A i \in 1..Len(wire[epoch]) :
         LET r == wire[epoch][i] IN
         /\ IsHead(r)
         /\ \A j \in 1..Len(wire[epoch]) : PathOf[wire[epoch][j]] = PathOf[r] => j = i
  /\ ready = "connecting" => wire[epoch] = <<>>
  /\ \A s \in Sockets : s > epoch => wire[s] = <<>>

(* What holds while no socket is replaced ...                                *)
IInv == TypeOK /\ Lifecycle /\ Idle /\ Queued /\ Waiting /\ Owed

(* ... and what is left of it meanwhile: an entry that drains has no waiter,  *)
(* without a socket the queues are empty, and the next socket sent nothing.   *)
Base ==
  /\ TypeOK /\ Waiting
  /\ \A r \in drain : call[r] \notin {"new", "pending"}
  /\ ready = "down" => \A p \in Paths : queue[p] = <<>>
  /\ ready \in {"connecting", "open"} => epoch \in Sockets
  /\ \A s \in Sockets : s > epoch => wire[s] = <<>>

(* A call that was not made yet is in no queue.                              *)
NewOutside == \A p \in Paths, r \in Requests : r \in Members(queue[p]) => call[r] # "new"

(* The head of a queue whose entry was made on the open socket is on the wire. *)
HeadIsSent ==
  /\ \A r \in Requests : stamp[r] <= epoch
  /\ ready = "connecting" => \A r \in Requests : stamp[r] < epoch
  /\ ready = "open" => \A r \in Requests :
       IsHead(r) /\ stamp[r] = epoch => r \in Members(wire[epoch])
  /\ ready \in {"connecting", "open"} => epoch \in Sockets
-----------------------------------------------------------------------------
(* Facts about sequences.                                                    *)

LEMMA SequenceFacts ==
  ASSUME NEW T, NEW q \in Seq(T)
  PROVE  /\ Len(q) \in Nat /\ (q = <<>> <=> Len(q) = 0)
         /\ \A i \in 1..Len(q) : q[i] \in T
         /\ \A t \in T : /\ Append(q, t) \in Seq(T) /\ Append(q, t) # <<>>
                         /\ Len(Append(q, t)) = Len(q) + 1
                         /\ Append(q, t)[Len(q) + 1] = t
                         /\ \A i \in 1..Len(q) : Append(q, t)[i] = q[i]
         /\ q # <<>> => /\ Len(q) \in Nat \ {0} /\ Head(q) = q[1] /\ q[1] \in T
                        /\ Tail(q) \in Seq(T) /\ Len(Tail(q)) = Len(q) - 1
                        /\ \A i \in 1..Len(Tail(q)) : Tail(q)[i] = q[i + 1]
  OBVIOUS

\* What is left of a queue after its first n entries.
LEMMA Suffix ==
  ASSUME NEW T, NEW q \in Seq(T), NEW n \in 0..Len(q)
  PROVE  LET rest == SubSeq(q, n + 1, Len(q)) IN
         /\ rest \in Seq(T) /\ Len(rest) = Len(q) - n
         /\ \A i \in 1..Len(rest) : rest[i] = q[n + i]
  OBVIOUS

\* A queue without its entry `at`.
LEMMA Without ==
  ASSUME NEW T, NEW q \in Seq(T), NEW at \in 1..Len(q)
  PROVE  LET rest == SubSeq(q, 1, at - 1) \o SubSeq(q, at + 1, Len(q)) IN
         /\ rest \in Seq(T) /\ Len(rest) = Len(q) - 1
         /\ \A i \in 1..Len(rest) : rest[i] = IF i < at THEN q[i] ELSE q[i + 1]
<1> DEFINE before == SubSeq(q, 1, at - 1)
           after == SubSeq(q, at + 1, Len(q))
<1>0. Len(q) \in Nat /\ at \in Nat
  OBVIOUS
<1>1. before \in Seq(T) /\ Len(before) = at - 1 /\ \A i \in 1..(at - 1) : before[i] = q[i]
  OBVIOUS
<1>2. after \in Seq(T) /\ Len(after) = Len(q) - at /\ \A i \in 1..(Len(q) - at) : after[i] = q[at + i]
  OBVIOUS
<1> HIDE DEF before, after
<1>3. /\ before \o after \in Seq(T) /\ Len(before \o after) = Len(before) + Len(after)
      /\ \A i \in 1..Len(before) + Len(after) :
           (before \o after)[i] = IF i <= Len(before) THEN before[i] ELSE after[i - Len(before)]
  BY <1>1, <1>2, ConcatProperties
<1>4. \A i \in 1..(Len(q) - 1) :
        (before \o after)[i] = IF i < at THEN q[i] ELSE q[i + 1]
  <2> SUFFICES ASSUME NEW i \in 1..(Len(q) - 1)
               PROVE  (before \o after)[i] = IF i < at THEN q[i] ELSE q[i + 1]
    OBVIOUS
  <2>1. CASE i < at
    BY <1>1, <1>2, <1>3, <2>1
  <2>2. CASE i >= at
    <3>1. (before \o after)[i] = after[i - (at - 1)] /\ i - (at - 1) \in 1..(Len(q) - at)
      BY <1>1, <1>2, <1>3, <2>2
    <3>2. after[i - (at - 1)] = q[at + (i - (at - 1))] /\ at + (i - (at - 1)) = i + 1
      BY <1>2, <3>1
    <3> QED BY <2>2, <3>1, <3>2
  <2>3. i < at \/ i >= at
    BY <1>0
  <2> QED BY <2>1, <2>2, <2>3
<1>5. Len(before) + Len(after) = Len(q) - 1
  BY <1>0, <1>1, <1>2
<1> QED BY <1>3, <1>4, <1>5 DEF before, after
-----------------------------------------------------------------------------
(* Typing.                                                                   *)

States == {"new", "pending", "answered", "mismatched", "rejected"}

LEMMA RejectTyped ==
  ASSUME NEW calls \in [Requests -> States], NEW S
  PROVE  /\ Reject(calls, S) \in [Requests -> States]
         /\ \A r \in Requests :
              Reject(calls, S)[r] = IF r \in S /\ calls[r] = "pending" THEN "rejected" ELSE calls[r]
  BY DEF Reject, States

LEMMA SendHeadTyped ==
  ASSUME TypeOK, NEW p \in Paths, NEW q \in Seq(Requests),
         NEW wires \in [Sockets -> Seq(Requests)], NEW calls \in [Requests -> States],
         SendHead(p, q, wires, calls)
  PROVE  /\ queue' \in [Paths -> Seq(Requests)]
         /\ call' \in [Requests -> States]
         /\ wire' \in [Sockets -> Seq(Requests)]
<1> DEFINE rest(n) == SubSeq(q, n + 1, Len(q))
<1>1. PICK failed \in 0..Len(q) :
        /\ queue' = [queue EXCEPT ![p] = rest(failed)]
        /\ call' = Reject(calls, {q[i] : i \in 1..failed})
        /\ wire' = IF rest(failed) # <<>> /\ ready = "open"
                   THEN [wires EXCEPT ![epoch] = Append(@, Head(rest(failed)))] ELSE wires
  BY DEF SendHead
<1>2. rest(failed) \in Seq(Requests)
  BY Suffix
<1> HIDE DEF rest
<1>3. queue' \in [Paths -> Seq(Requests)]
  BY <1>1, <1>2 DEF TypeOK
<1>4. call' \in [Requests -> States]
  BY <1>1, RejectTyped
<1>5. wire' \in [Sockets -> Seq(Requests)]
  <2>1. rest(failed) # <<>> => Head(rest(failed)) \in Requests
    BY <1>2, SequenceFacts
  <2>2. \A s \in Sockets, r \in Requests : Append(wires[s], r) \in Seq(Requests)
    BY SequenceFacts
  <2> QED BY <1>1, <2>1, <2>2
<1> QED BY <1>3, <1>4, <1>5

LEMMA QueueTyped ==
  ASSUME TypeOK, BrokerAssumption, NEW r \in Requests
  PROVE  /\ PathOf[r] \in Paths /\ queue[PathOf[r]] \in Seq(Requests) /\ <<r>> \in Seq(Requests)
         /\ queue[PathOf[r]] # <<>> => Tail(queue[PathOf[r]]) \in Seq(Requests)
  BY SequenceFacts DEF TypeOK, BrokerAssumption

LEMMA StepTyped == TypeOK /\ [Next]_vars => TypeOK'
<1> SUFFICES ASSUME TypeOK, [Next]_vars PROVE TypeOK'
  OBVIOUS
<1> USE BrokerAssumption
<1> DEFINE Typed(c, q, w) == /\ c \in [Requests -> States] /\ q \in [Paths -> Seq(Requests)]
                             /\ w \in [Sockets -> Seq(Requests)]
<1>0. Typed(call, queue, wire)
  BY DEF TypeOK, States
<1>1. RejectAll => Typed(call', queue', wire') /\ drain' \in SUBSET Requests /\ stamp' = stamp
  <2> SUFFICES ASSUME RejectAll PROVE Typed(call', queue', wire') /\ drain' \in SUBSET Requests /\ stamp' = stamp
    OBVIOUS
  <2>1. call' \in [Requests -> States]
    BY <1>0, RejectTyped DEF RejectAll
  <2>2. <<>> \in Seq(Requests)
    BY SequenceFacts
  <2> QED BY <1>0, <2>1, <2>2 DEF RejectAll
<1>2. CASE Start \/ StartFails \/ RetryFails \/ ReconnectTimer \/ ConnectWhileStopped
  <2>1. starting' \in Nat /\ retrying' \in Nat
    BY <1>2 DEF Start, StartFails, RetryFails, ReconnectTimer, ConnectWhileStopped, Attempt, TypeOK
  <2>2. stopped' \in BOOLEAN /\ timer' \in BOOLEAN
    BY <1>2, Zenon DEF Start, StartFails, RetryFails, ReconnectTimer, ConnectWhileStopped, TypeOK
  <2>3. UNCHANGED <<socket, broker>>
    BY <1>2, Zenon DEF Start, StartFails, RetryFails, ReconnectTimer, ConnectWhileStopped
  <2> QED BY <2>1, <2>2, <2>3 DEF TypeOK, socket, broker
<1>3. CASE Connect
  BY <1>3 DEF Connect, Attempt, TypeOK, broker, Sockets
<1>4. CASE Open \/ BeginClose \/ \E s \in Sockets : AbandonedCloses(s)
  BY <1>4 DEF Open, BeginClose, AbandonedCloses, TypeOK, broker, engine
<1>5. CASE Stop \/ Closed
  <2>1. stopped' \in BOOLEAN /\ timer' \in BOOLEAN
    BY <1>5, Zenon DEF Stop, Closed, TypeOK
  <2> QED BY <1>1, <1>5, <2>1 DEF Stop, Closed, TypeOK, States
<1>6. CASE \E s \in Sockets : Deliver(s) \/ FailFrame(s)
  <2>1. PICK s \in Sockets, isAnswer \in BOOLEAN : Frame(s, isAnswer)
    BY <1>6 DEF Deliver, FailFrame
  <2> DEFINE r == Head(wire[s])
             p == PathOf[r]
             rest == [wire EXCEPT ![s] = Tail(@)]
             owner == Head(queue[p])
             calls == IF call[owner] = "pending"
                      THEN [call EXCEPT ![owner] = Outcome(isAnswer, owner, r)] ELSE call
  <2>2. r \in Requests /\ Tail(wire[s]) \in Seq(Requests)
    BY <1>0, <2>1, SequenceFacts DEF Frame
  <2>3. p \in Paths /\ queue[p] \in Seq(Requests) /\ rest \in [Sockets -> Seq(Requests)]
    BY <1>0, <2>2 DEF BrokerAssumption
  <2>4. CASE queue[p] = <<>>
    BY <1>0, <2>1, <2>3, <2>4 DEF Frame, TypeOK, engine, socket, States
  <2>5. CASE queue[p] # <<>>
    <3>1. SendHead(p, Tail(queue[p]), rest, calls) /\ drain' = drain \ {owner}
          /\ UNCHANGED <<engine, socket, stamp>>
      BY <2>1, <2>5 DEF Frame
    <3>2. calls \in [Requests -> States]
      BY <1>0 DEF Outcome, States
    <3>3. Tail(queue[p]) \in Seq(Requests)
      BY <2>3, <2>5, SequenceFacts
    <3> HIDE DEF p, rest, calls
    <3>4. Typed(call', queue', wire')
      BY <2>3, <3>1, <3>2, <3>3, SendHeadTyped
    <3> QED BY <3>1, <3>4 DEF TypeOK, engine, socket, States
  <2> QED BY <2>4, <2>5
<1>7. CASE \E r \in Requests : Refuse(r)
  BY <1>7 DEF Refuse, TypeOK, engine, socket
<1>8. CASE \E r \in Requests : Request(r)
  <2>1. PICK r \in Requests : Request(r)
    BY <1>8
  <2> DEFINE p == PathOf[r]
             pending == [call EXCEPT ![r] = "pending"]
  <2>2. stamp' \in [Requests -> 0..MaxSockets] /\ pending \in [Requests -> States]
    BY <2>1, <1>0 DEF Request, TypeOK, States
  <2>3. Typed(call', queue', wire')
    <3>1. CASE queue[p] = <<>>
      <4>1. SendHead(p, <<r>>, wire, pending)
        BY <2>1, <3>1 DEF Request
      <4> HIDE DEF pending
      <4> QED BY <1>0, <2>2, <4>1, QueueTyped, SendHeadTyped
    <3>2. CASE queue[p] # <<>>
      <4>1. Append(queue[p], r) \in Seq(Requests)
        BY QueueTyped, SequenceFacts
      <4> QED BY <1>0, <2>1, <2>2, <3>2, <4>1 DEF Request
    <3> QED BY <3>1, <3>2
  <2> QED BY <2>1, <2>2, <2>3 DEF Request, TypeOK, engine, socket, States
<1>9. CASE \E r \in Requests : TimeoutQueued(r)
  <2>1. PICK r \in Requests : TimeoutQueued(r)
    BY <1>9
  <2> DEFINE p == PathOf[r]
             at == CHOOSE i \in 1..Len(queue[p]) : queue[p][i] = r
  <2>2. at \in 1..Len(queue[p])
    BY <2>1 DEF TimeoutQueued, InQueue, Members
  <2>3. SubSeq(queue[p], 1, at - 1) \o SubSeq(queue[p], at + 1, Len(queue[p])) \in Seq(Requests)
    <3> HIDE DEF at
    <3> QED BY <2>2, QueueTyped, Without
  <2>4. queue' = [queue EXCEPT ![p] = SubSeq(queue[p], 1, at - 1) \o SubSeq(queue[p], at + 1, Len(queue[p]))]
    BY <2>1 DEF TimeoutQueued
  <2> HIDE DEF at
  <2>5. queue' \in [Paths -> Seq(Requests)]
    BY <1>0, <2>3, <2>4
  <2> QED BY <2>1, <2>5 DEF TimeoutQueued, TypeOK, engine, socket
<1>10. CASE \E r \in Requests : TimeoutHead(r) \/ Retire(r)
  BY <1>10 DEF TimeoutHead, Retire, TypeOK, engine, socket
<1>11. CASE \E r \in Requests : ReleaseStale(r)
  <2>1. PICK r \in Requests : ReleaseStale(r)
    BY <1>11
  <2>2. Typed(call', queue', wire')
    BY <1>0, <2>1, QueueTyped, SendHeadTyped DEF ReleaseStale, IsHead
  <2> QED BY <2>1, <2>2 DEF ReleaseStale, TypeOK, engine, socket, States
<1>12. CASE UNCHANGED vars
  BY <1>12 DEF vars, TypeOK
<1> QED BY <1>2, <1>3, <1>4, <1>5, <1>6, <1>7, <1>8, <1>9, <1>10, <1>11, <1>12 DEF Next

LEMMA InitTyped == Init => TypeOK
<1> SUFFICES ASSUME Init PROVE TypeOK
  OBVIOUS
<1>1. <<>> \in Seq(Requests)
  BY SequenceFacts
<1>2. wire \in [Sockets -> Seq(Requests)] /\ queue \in [Paths -> Seq(Requests)]
  BY <1>1 DEF Init
<1>3. epoch \in 0..MaxSockets /\ stamp \in [Requests -> 0..MaxSockets]
  BY BrokerAssumption DEF Init
<1> QED BY <1>2, <1>3 DEF Init, TypeOK

\* The types, whatever the calls, frames, timers and attempts to connect do.
THEOREM TypeCorrect == Spec => []TypeOK
<1> QED BY InitTyped, StepTyped, PTL DEF Spec
-----------------------------------------------------------------------------
(* The drain deadline, for overlapping sockets too.                          *)

\* On an open socket sendHead puts the new head of its path on the wire, and takes nothing off it.
LEMMA SendHeadSends ==
  ASSUME TypeOK, ready = "open", epoch \in Sockets, NEW p \in Paths, NEW q \in Seq(Requests),
         NEW wires \in [Sockets -> Seq(Requests)], NEW calls \in [Requests -> States],
         SendHead(p, q, wires, calls)
  PROVE  /\ Members(wires[epoch]) \subseteq Members(wire'[epoch])
         /\ \A x \in Requests :
              /\ PathOf[x] # p => queue'[PathOf[x]] = queue[PathOf[x]]
              /\ PathOf[x] = p /\ IsHead(x)' => x \in Members(wire'[epoch])
<1> DEFINE rest(n) == SubSeq(q, n + 1, Len(q))
<1>1. PICK failed \in 0..Len(q) :
        /\ queue' = [queue EXCEPT ![p] = rest(failed)]
        /\ wire' = IF rest(failed) # <<>>
                   THEN [wires EXCEPT ![epoch] = Append(@, Head(rest(failed)))] ELSE wires
  BY DEF SendHead
<1>2. rest(failed) \in Seq(Requests)
  BY Suffix
<1> HIDE DEF rest
<1>3. queue' = [queue EXCEPT ![p] = rest(failed)] /\ queue'[p] = rest(failed)
  BY <1>1 DEF TypeOK
<1>4. CASE rest(failed) = <<>>
  BY <1>1, <1>3, <1>4 DEF TypeOK, IsHead
<1>5. CASE rest(failed) # <<>>
  <2>1. Head(rest(failed)) \in Requests
    BY <1>2, <1>5, SequenceFacts
  <2>2. wire'[epoch] = Append(wires[epoch], Head(rest(failed)))
    BY <1>1, <1>5
  <2>3. /\ Members(wires[epoch]) \subseteq Members(wire'[epoch])
        /\ Head(rest(failed)) \in Members(wire'[epoch])
    <3> DEFINE w == wires[epoch]
               h == Head(rest(failed))
    <3>1. /\ Len(w) \in Nat /\ Len(Append(w, h)) = Len(w) + 1 /\ Append(w, h)[Len(w) + 1] = h
          /\ \A i \in 1..Len(w) : Append(w, h)[i] = w[i]
      BY <2>1, SequenceFacts
    <3> HIDE DEF w, h
    <3>2. Members(w) \subseteq Members(Append(w, h)) /\ h \in Members(Append(w, h))
      BY <3>1 DEF Members
    <3> QED BY <2>2, <3>2 DEF w, h
  <2> QED BY <1>3, <2>3 DEF TypeOK, IsHead
<1> QED BY <1>4, <1>5

\* A queue that loses an entry behind its head keeps its head.
LEMMA HeadKept ==
  ASSUME TypeOK, BrokerAssumption, NEW r \in Requests, TimeoutQueued(r)
  PROVE  \E at \in 2..Len(queue[PathOf[r]]) :
           /\ queue[PathOf[r]][at] = r
           /\ queue' = [queue EXCEPT ![PathOf[r]] = SubSeq(@, 1, at - 1) \o SubSeq(@, at + 1, Len(@))]
           /\ queue'[PathOf[r]] # <<>> /\ Head(queue'[PathOf[r]]) = Head(queue[PathOf[r]])
<1> DEFINE p == PathOf[r]
           at == CHOOSE i \in 1..Len(queue[p]) : queue[p][i] = r
           rest == SubSeq(queue[p], 1, at - 1) \o SubSeq(queue[p], at + 1, Len(queue[p]))
<1>1. at \in 1..Len(queue[p]) /\ queue[p][at] = r
  BY DEF TimeoutQueued, InQueue, Members
<1>2. p \in Paths /\ queue[p] \in Seq(Requests)
  BY QueueTyped
<1>3. queue' = [queue EXCEPT ![p] = rest] /\ queue'[p] = rest
  BY <1>2 DEF TimeoutQueued, TypeOK
<1> HIDE DEF at
<1>4. at # 1 /\ at \in 2..Len(queue[p])
  BY <1>1, <1>2, SequenceFacts DEF TimeoutQueued, IsHead
<1>5. rest \in Seq(Requests) /\ Len(rest) = Len(queue[p]) - 1 /\ rest[1] = queue[p][1]
  BY <1>1, <1>2, <1>4, Without
<1>6. rest # <<>> /\ Head(rest) = Head(queue[p])
  <2>1. Len(rest) >= 1 /\ Len(queue[p]) >= 1
    BY <1>4, <1>5
  <2> HIDE DEF rest
  <2> QED BY <1>2, <1>5, <2>1, SequenceFacts
<1> QED BY <1>1, <1>3, <1>4, <1>6

\* Calls enter a queue when they are made, and never become new again.
LEMMA NewStep ==
  ASSUME TypeOK, [Next]_vars
  PROVE  /\ \A r \in Requests : call'[r] = "new" => call[r] = "new"
         /\ \A p \in Paths, r \in Requests :
              r \in Members(queue'[p]) => r \in Members(queue[p]) \/ (call[r] = "new" /\ call'[r] # "new")
<1> USE BrokerAssumption
<1> DEFINE Kept == \A p \in Paths : Members(queue'[p]) \subseteq Members(queue[p])
           Old == \A r \in Requests : call'[r] = "new" => call[r] = "new"
<1>1. CASE \/ Start \/ StartFails \/ RetryFails \/ ReconnectTimer \/ ConnectWhileStopped \/ UNCHANGED vars
           \/ Connect \/ Open \/ BeginClose \/ (\E s \in Sockets : AbandonedCloses(s))
           \/ \E r \in Requests : Retire(r)
  <2>1. UNCHANGED <<queue, call>>
    BY <1>1, Zenon DEF Start, StartFails, RetryFails, ReconnectTimer, ConnectWhileStopped, AbandonedCloses,
                       Connect, Open, BeginClose, Retire, broker, vars
  <2> QED BY <2>1
<1>2. CASE Stop \/ Closed
  <2>1. RejectAll
    BY <1>2 DEF Stop, Closed
  <2>2. Kept
    BY <2>1, SequenceFacts DEF RejectAll, Members
  <2>3. call \in [Requests -> States]
    BY DEF TypeOK, States
  <2>4. PICK S : call' = Reject(call, S)
    BY <2>1 DEF RejectAll
  <2>5. Old
    BY <2>3, <2>4, RejectTyped
  <2> QED BY <2>2, <2>5
<1>3. CASE \E r \in Requests : Refuse(r) \/ TimeoutHead(r)
  BY <1>3 DEF Refuse, TimeoutHead, TypeOK
<1>4. ASSUME NEW p \in Paths, NEW q \in Seq(Requests), NEW wires, NEW calls \in [Requests -> States],
             SendHead(p, q, wires, calls)
      PROVE  /\ \A r \in Requests : call'[r] = "new" => calls[r] = "new"
             /\ \A o \in Paths : Members(queue'[o]) \subseteq Members(IF o = p THEN q ELSE queue[o])
  <2> DEFINE rest(n) == SubSeq(q, n + 1, Len(q))
  <2>1. PICK failed \in 0..Len(q) :
          /\ queue' = [queue EXCEPT ![p] = rest(failed)]
          /\ call' = Reject(calls, {q[i] : i \in 1..failed})
    BY <1>4 DEF SendHead
  <2>2. rest(failed) \in Seq(Requests) /\ \A i \in 1..Len(rest(failed)) : rest(failed)[i] = q[failed + i]
        /\ Len(rest(failed)) = Len(q) - failed /\ Len(q) \in Nat
    BY Suffix
  <2> HIDE DEF rest
  <2>3. Members(rest(failed)) \subseteq Members(q)
    <3> SUFFICES ASSUME NEW i \in 1..Len(rest(failed)) PROVE rest(failed)[i] \in Members(q)
      BY DEF Members
    <3>1. failed + i \in 1..Len(q) /\ rest(failed)[i] = q[failed + i]
      BY <2>2
    <3> QED BY <3>1 DEF Members
  <2>4. \A o \in Paths : Members(queue'[o]) \subseteq Members(IF o = p THEN q ELSE queue[o])
    BY <2>1, <2>3 DEF TypeOK
  <2>5. PICK S : call' = Reject(calls, S)
    BY <2>1
  <2>6. \A r \in Requests : call'[r] = "new" => calls[r] = "new"
    BY <2>5, RejectTyped
  <2> QED BY <2>4, <2>6
<1>5. CASE \E r \in Requests : Request(r)
  <2>1. PICK r \in Requests : Request(r)
    BY <1>5
  <2> DEFINE p == PathOf[r]
             pending == [call EXCEPT ![r] = "pending"]
  <2>2. p \in Paths /\ queue[p] \in Seq(Requests) /\ <<r>> \in Seq(Requests) /\ pending \in [Requests -> States]
    BY QueueTyped DEF TypeOK, States
  <2>3. CASE queue[p] = <<>>
    <3>1. SendHead(p, <<r>>, wire, pending) /\ call[r] = "new"
      BY <2>1, <2>3 DEF Request
    <3>2. Members(<<r>>) = {r}
      BY DEF Members
    <3>3. \A x \in Requests : pending[x] = "new" => call[x] = "new" /\ x # r
      BY DEF TypeOK
    <3> HIDE DEF pending, p
    <3>4. /\ \A x \in Requests : call'[x] = "new" => pending[x] = "new"
          /\ \A o \in Paths : Members(queue'[o]) \subseteq Members(IF o = p THEN <<r>> ELSE queue[o])
      BY <1>4, <2>2, <3>1
    <3>5. \A o \in Paths : Members(queue'[o]) \subseteq Members(queue[o]) \cup {r}
      BY <3>2, <3>4
    <3> QED BY <3>1, <3>3, <3>4, <3>5
  <2>4. CASE queue[p] # <<>>
    <3>1. queue' = [queue EXCEPT ![p] = Append(@, r)] /\ call' = pending /\ call[r] = "new"
      BY <2>1, <2>4 DEF Request
    <3>2. Members(Append(queue[p], r)) \subseteq Members(queue[p]) \cup {r}
      <4> DEFINE q == queue[p]
      <4>1. /\ Len(q) \in Nat /\ Len(Append(q, r)) = Len(q) + 1 /\ Append(q, r)[Len(q) + 1] = r
            /\ \A i \in 1..Len(q) : Append(q, r)[i] = q[i]
        BY <2>2, SequenceFacts
      <4> HIDE DEF q
      <4>2. Members(Append(q, r)) \subseteq Members(q) \cup {r}
        BY <4>1 DEF Members
      <4> QED BY <4>2 DEF q
    <3> QED BY <3>1, <3>2 DEF TypeOK
  <2> QED BY <2>3, <2>4
<1>6. CASE \E r \in Requests : TimeoutQueued(r)
  <2>1. PICK r \in Requests : TimeoutQueued(r)
    BY <1>6
  <2>2. PICK at \in 2..Len(queue[PathOf[r]]) :
          queue' = [queue EXCEPT ![PathOf[r]] = SubSeq(@, 1, at - 1) \o SubSeq(@, at + 1, Len(@))]
    BY <2>1, HeadKept
  <2> DEFINE q == queue[PathOf[r]]
             rest == SubSeq(q, 1, at - 1) \o SubSeq(q, at + 1, Len(q))
  <2>3. q \in Seq(Requests) /\ at \in 1..Len(q) /\ Len(q) \in Nat
    BY QueueTyped, SequenceFacts
  <2>4. Len(rest) = Len(q) - 1 /\ \A i \in 1..Len(rest) : rest[i] = IF i < at THEN q[i] ELSE q[i + 1]
    BY <2>3, Without
  <2>5. queue' = [queue EXCEPT ![PathOf[r]] = rest]
    BY <2>2
  <2> HIDE DEF rest, q
  <2>6. Members(rest) \subseteq Members(q)
    BY <2>3, <2>4 DEF Members
  <2> QED BY <2>1, <2>5, <2>6 DEF TimeoutQueued, TypeOK, q
<1>7. CASE \E r \in Requests : ReleaseStale(r)
  <2>1. PICK r \in Requests : ReleaseStale(r)
    BY <1>7
  <2> DEFINE q == queue[PathOf[r]]
  <2>2. SendHead(PathOf[r], Tail(q), wire, call) /\ q \in Seq(Requests) /\ q # <<>>
        /\ PathOf[r] \in Paths /\ Tail(q) \in Seq(Requests) /\ call \in [Requests -> States]
    BY <2>1, QueueTyped DEF ReleaseStale, IsHead, TypeOK, States
  <2>3. Members(Tail(q)) \subseteq Members(q)
    BY <2>2, SequenceFacts DEF Members
  <2> QED BY <1>4, <2>2, <2>3
<1>8. CASE \E s \in Sockets : Deliver(s) \/ FailFrame(s)
  <2>1. PICK s \in Sockets, isAnswer \in BOOLEAN : Frame(s, isAnswer)
    BY <1>8 DEF Deliver, FailFrame
  <2> DEFINE r == Head(wire[s])
             p == PathOf[r]
             rest == [wire EXCEPT ![s] = Tail(@)]
             q == queue[p]
             owner == Head(q)
             calls == IF call[owner] = "pending"
                      THEN [call EXCEPT ![owner] = Outcome(isAnswer, owner, r)] ELSE call
  <2>2. r \in Requests
    BY <2>1, SequenceFacts DEF Frame, TypeOK
  <2>3. p \in Paths /\ q \in Seq(Requests)
    BY <2>2 DEF TypeOK
  <2>4. CASE q = <<>>
    BY <2>1, <2>4 DEF Frame
  <2>5. CASE q # <<>>
    <3>1. SendHead(p, Tail(q), rest, calls)
      BY <2>1, <2>5 DEF Frame
    <3>2. calls \in [Requests -> States] /\ \A x \in Requests : calls[x] = "new" => call[x] = "new"
      BY DEF Outcome, States, TypeOK
    <3>3. Tail(q) \in Seq(Requests) /\ Members(Tail(q)) \subseteq Members(q)
      BY <2>3, <2>5, SequenceFacts DEF Members
    <3> HIDE DEF p, rest, calls
    <3> QED BY <1>4, <2>3, <3>1, <3>2, <3>3
  <2> QED BY <2>4, <2>5
<1> QED BY <1>1, <1>2, <1>3, <1>5, <1>6, <1>7, <1>8 DEF Next

LEMMA NewOnesStay ==
  TypeOK /\ NewOutside /\ [Next]_vars => NewOutside'
  BY NewStep, Zenon DEF NewOutside

LEMMA HeadIsSentStep == TypeOK /\ NewOutside /\ HeadIsSent /\ [Next]_vars => HeadIsSent'
<1> SUFFICES ASSUME TypeOK, NewOutside, HeadIsSent, [Next]_vars PROVE HeadIsSent'
  OBVIOUS
<1> USE BrokerAssumption
<1>1. ASSUME UNCHANGED <<ready, epoch, wire, queue, stamp>> PROVE HeadIsSent'
  BY <1>1, Zenon DEF HeadIsSent, IsHead, Members
<1>2. CASE \/ Start \/ StartFails \/ RetryFails \/ ReconnectTimer \/ ConnectWhileStopped \/ UNCHANGED vars
           \/ (\E s \in Sockets : AbandonedCloses(s)) \/ \E r \in Requests : Refuse(r) \/ TimeoutHead(r)
  <2>1. UNCHANGED <<ready, epoch, wire, queue, stamp>>
    BY <1>2, Zenon DEF Start, StartFails, RetryFails, ReconnectTimer, ConnectWhileStopped, AbandonedCloses,
                       Refuse, TimeoutHead, socket, broker, vars
  <2> QED BY <1>1, <2>1
<1>3. CASE Stop \/ Closed
  BY <1>3 DEF Stop, Closed, RejectAll, HeadIsSent
<1>4. CASE Connect
  BY <1>4 DEF Connect, HeadIsSent, TypeOK, broker, Sockets
<1>5. CASE Open
  BY <1>5 DEF Open, HeadIsSent, TypeOK, broker
<1>6. CASE BeginClose \/ \E r \in Requests : Retire(r)
  <2>1. UNCHANGED <<epoch, wire, queue, stamp>> /\ (ready' = ready \/ ready' = "closing")
    BY <1>6 DEF BeginClose, Retire, broker
  <2>2. CASE ready' = ready
    BY <1>1, <2>1, <2>2
  <2>3. CASE ready' = "closing"
    BY <2>1, <2>3 DEF HeadIsSent
  <2> QED BY <2>1, <2>2, <2>3
<1>7. ASSUME NEW p \in Paths, NEW q \in Seq(Requests), NEW wires \in [Sockets -> Seq(Requests)],
             NEW calls \in [Requests -> States], SendHead(p, q, wires, calls),
             UNCHANGED <<ready, epoch>>,
             \A r \in Requests : stamp'[r] <= epoch,
             \A r \in Requests : stamp'[r] = stamp[r] \/ (PathOf[r] = p /\ ready = "open"),
             ready = "open" => \A x \in Members(wire[epoch]) :
                                 PathOf[x] = p \/ x \in Members(wires[epoch])
      PROVE  HeadIsSent'
  <2>1. ready' = "open" => \A r \in Requests :
          IsHead(r)' /\ stamp'[r] = epoch' => r \in Members(wire'[epoch'])
    <3> SUFFICES ASSUME ready = "open", NEW r \in Requests, IsHead(r)', stamp'[r] = epoch
                 PROVE  r \in Members(wire'[epoch])
      BY <1>7
    <3>1. epoch \in Sockets
      BY DEF HeadIsSent
    <3>2. /\ Members(wires[epoch]) \subseteq Members(wire'[epoch])
          /\ PathOf[r] # p => queue'[PathOf[r]] = queue[PathOf[r]]
          /\ PathOf[r] = p => r \in Members(wire'[epoch])
      BY <1>7, <3>1, SendHeadSends
    <3>3. CASE PathOf[r] # p
      <4>1. IsHead(r) /\ stamp[r] = epoch
        BY <1>7, <3>2, <3>3 DEF IsHead
      <4> QED BY <1>7, <3>2, <3>3, <4>1 DEF HeadIsSent
    <3> QED BY <3>2, <3>3
  <2> QED BY <1>7, <2>1 DEF HeadIsSent
<1>8. CASE \E s \in Sockets : Deliver(s) \/ FailFrame(s)
  <2>1. PICK s \in Sockets, isAnswer \in BOOLEAN : Frame(s, isAnswer)
    BY <1>8 DEF Deliver, FailFrame
  <2> DEFINE r == Head(wire[s])
             p == PathOf[r]
             rest == [wire EXCEPT ![s] = Tail(@)]
             owner == Head(queue[p])
             calls == IF call[owner] = "pending"
                      THEN [call EXCEPT ![owner] = Outcome(isAnswer, owner, r)] ELSE call
  <2>2. r \in Requests /\ wire[s] # <<>> /\ wire[s] \in Seq(Requests) /\ Tail(wire[s]) \in Seq(Requests)
    BY <2>1, SequenceFacts DEF Frame, TypeOK
  <2>3. p \in Paths /\ queue[p] \in Seq(Requests) /\ rest \in [Sockets -> Seq(Requests)]
    BY <2>2 DEF BrokerAssumption, TypeOK
  <2>4. Members(wire[s]) \subseteq {r} \cup Members(Tail(wire[s]))
    <3> DEFINE w == wire[s]
    <3>1. /\ Len(w) \in Nat \ {0} /\ Head(w) = w[1] /\ Len(Tail(w)) = Len(w) - 1
          /\ \A i \in 1..Len(Tail(w)) : Tail(w)[i] = w[i + 1]
      BY <2>2, SequenceFacts
    <3> HIDE DEF w
    <3>2. \A i \in 1..Len(w) : w[i] = Head(w) \/ w[i] \in Members(Tail(w))
      <4> SUFFICES ASSUME NEW i \in 1..Len(w), i # 1 PROVE w[i] \in Members(Tail(w))
        BY <3>1
      <4>1. i - 1 \in 1..Len(Tail(w)) /\ Tail(w)[i - 1] = w[i]
        BY <3>1
      <4> QED BY <4>1 DEF Members
    <3> QED BY <3>2 DEF w, Members
  <2>5. epoch \in Sockets => \A x \in Members(wire[epoch]) : PathOf[x] = p \/ x \in Members(rest[epoch])
    BY <2>4 DEF TypeOK
  <2>6. UNCHANGED <<ready, epoch, stamp>>
    BY <2>1 DEF Frame, socket
  <2>7. ready = "open" => epoch \in Sockets
    BY DEF HeadIsSent
  <2>8. CASE queue[p] = <<>>
    <3>1. wire' = rest /\ queue' = queue
      BY <2>1, <2>8 DEF Frame
    <3>2. \A x \in Requests : IsHead(x)' => PathOf[x] # p /\ IsHead(x)
      BY <2>8, <3>1 DEF IsHead
    <3> HIDE DEF rest, p
    <3> QED BY <2>5, <2>6, <2>7, <3>1, <3>2 DEF HeadIsSent
  <2>9. CASE queue[p] # <<>>
    <3>1. SendHead(p, Tail(queue[p]), rest, calls)
      BY <2>1, <2>9 DEF Frame
    <3>2. calls \in [Requests -> States]
      BY DEF Outcome, States, TypeOK
    <3>3. Tail(queue[p]) \in Seq(Requests)
      BY <2>3, <2>9, SequenceFacts
    <3>4. \A x \in Requests : stamp'[x] <= epoch
      BY <2>6 DEF HeadIsSent
    <3> HIDE DEF p, rest, calls
    <3> QED BY <1>7, <2>3, <2>5, <2>6, <2>7, <3>1, <3>2, <3>3, <3>4
  <2> QED BY <2>8, <2>9
<1>9. CASE \E r \in Requests : ReleaseStale(r)
  <2>1. PICK r \in Requests : ReleaseStale(r)
    BY <1>9
  <2>2. SendHead(PathOf[r], Tail(queue[PathOf[r]]), wire, call) /\ UNCHANGED <<ready, epoch, stamp>>
    BY <2>1 DEF ReleaseStale, socket
  <2>3. Tail(queue[PathOf[r]]) \in Seq(Requests) /\ PathOf[r] \in Paths
    BY <2>1, QueueTyped DEF ReleaseStale, IsHead
  <2>4. wire \in [Sockets -> Seq(Requests)] /\ call \in [Requests -> States]
    BY DEF TypeOK, States
  <2> QED BY <1>7, <2>2, <2>3, <2>4 DEF HeadIsSent
<1>10. CASE \E r \in Requests : Request(r)
  <2>1. PICK r \in Requests : Request(r)
    BY <1>10
  <2> DEFINE p == PathOf[r]
             pending == [call EXCEPT ![r] = "pending"]
  <2>2. /\ ready = "open" /\ UNCHANGED <<ready, epoch>> /\ stamp' = [stamp EXCEPT ![r] = epoch]
        /\ epoch \in Sockets
    BY <2>1 DEF Request, socket, HeadIsSent
  <2>3. p \in Paths /\ queue[p] \in Seq(Requests) /\ <<r>> \in Seq(Requests)
    BY QueueTyped
  <2>4. wire \in [Sockets -> Seq(Requests)] /\ pending \in [Requests -> States]
    BY DEF TypeOK, States
  <2>5. \A x \in Requests : /\ stamp'[x] <= epoch
                            /\ x # r => stamp'[x] = stamp[x]
    BY <2>2 DEF HeadIsSent, TypeOK, Sockets
  <2>6. CASE queue[p] = <<>>
    <3>1. SendHead(p, <<r>>, wire, pending)
      BY <2>1, <2>6 DEF Request
    <3> HIDE DEF pending
    <3> QED BY <1>7, <2>2, <2>3, <2>4, <2>5, <3>1
  <2>7. CASE queue[p] # <<>>
    <3>1. queue' = [queue EXCEPT ![p] = Append(@, r)] /\ wire' = wire
      BY <2>1, <2>7 DEF Request
    <3>2. queue'[p] = Append(queue[p], r)
      BY <2>3, <3>1 DEF TypeOK
    <3>3. Head(queue'[p]) = Head(queue[p])
      BY <2>3, <2>7, <3>2, HeadTailAppend
    <3>4. \A x \in Requests : IsHead(x)' => IsHead(x)
      BY <2>7, <3>1, <3>3 DEF IsHead, TypeOK
    <3>5. \A x \in Requests : IsHead(x) /\ stamp'[x] = epoch' => stamp[x] = epoch
      <4>1. Head(queue[p]) \in Members(queue[p]) /\ call[r] = "new"
        BY <2>1, <2>3, <2>7, SequenceFacts DEF Members, Request
      <4>2. ~IsHead(r)
        BY <2>3, <4>1 DEF NewOutside, IsHead
      <4> QED BY <2>2, <2>5, <4>2
    <3> QED BY <2>2, <2>5, <3>1, <3>4, <3>5 DEF HeadIsSent
  <2> QED BY <2>6, <2>7
<1>11. CASE \E r \in Requests : TimeoutQueued(r)
  <2>1. PICK r \in Requests : TimeoutQueued(r)
    BY <1>11
  <2>2. UNCHANGED <<ready, epoch, wire, stamp>>
    BY <2>1 DEF TimeoutQueued, socket
  <2>3. \A x \in Requests : IsHead(x)' => IsHead(x)
    <3>1. PICK at \in 2..Len(queue[PathOf[r]]) :
            /\ queue' = [queue EXCEPT ![PathOf[r]] = SubSeq(@, 1, at - 1) \o SubSeq(@, at + 1, Len(@))]
            /\ Head(queue'[PathOf[r]]) = Head(queue[PathOf[r]])
      BY <2>1, HeadKept
    <3>2. queue[PathOf[r]] # <<>>
      BY <2>1, QueueTyped, SequenceFacts DEF TimeoutQueued, InQueue, Members
    <3>3. \A p \in Paths : p # PathOf[r] => queue'[p] = queue[p]
      BY <3>1 DEF TypeOK
    <3> QED BY <3>1, <3>2, <3>3 DEF IsHead, BrokerAssumption
  <2> QED BY <2>2, <2>3 DEF HeadIsSent
<1> QED BY <1>2, <1>3, <1>4, <1>5, <1>6, <1>8, <1>9, <1>10, <1>11 DEF Next

LEMMA InitSent == Init => NewOutside /\ HeadIsSent
<1> SUFFICES ASSUME Init PROVE NewOutside /\ HeadIsSent
  OBVIOUS
<1>1. NewOutside
  BY SequenceFacts DEF Init, NewOutside, Members
<1>2. HeadIsSent
  BY BrokerAssumption DEF Init, HeadIsSent
<1> QED BY <1>1, <1>2

\* The drain deadline closes an open socket only when that socket still owes the answer of the
\* request that gave up, whether or not attempts to connect overlap.
THEOREM RetireJustified == Spec => RetiresOnlyIfOwed
<1>1. TypeOK /\ NewOutside /\ HeadIsSent /\ [Next]_vars => (TypeOK /\ NewOutside /\ HeadIsSent)'
  BY StepTyped, NewOnesStay, HeadIsSentStep
<1>2. HeadIsSent => (\A r \in Requests : Retire(r) /\ ready = "open" => r \in Members(wire[epoch]))
  BY DEF HeadIsSent, Retire
<1> QED BY InitTyped, InitSent, <1>1, <1>2, PTL DEF Spec, RetiresOnlyIfOwed
-----------------------------------------------------------------------------
(* The slots, while no socket is replaced before it closed.                  *)

LEMMA LifecycleStep ==
  ASSUME ~replaced, ~replaced', TypeOK, Lifecycle, [Next]_vars
  PROVE  Lifecycle'
<1> USE DEF Lifecycle, TypeOK, Sockets, engine, socket, broker, vars
<1>1. CASE Start \/ StartFails \/ RetryFails \/ ReconnectTimer \/ ConnectWhileStopped
  BY <1>1 DEF Start, StartFails, RetryFails, ReconnectTimer, ConnectWhileStopped, Attempt
<1>2. CASE Stop \/ Closed
  BY <1>2 DEF Stop, Closed
<1>3. CASE Connect
  <2>1. ready = "down"
    BY <1>3 DEF Connect
  <2>2. epoch' \in Sockets /\ ready' = "connecting" /\ alive' = {epoch'}
    BY <1>3, <2>1, BrokerAssumption DEF Connect
  <2> QED BY <2>1, <2>2
<1>4. CASE Open \/ BeginClose \/ (\E s \in Sockets : AbandonedCloses(s)) \/ \E r \in Requests : Retire(r)
  BY <1>4 DEF Open, BeginClose, AbandonedCloses, Retire
<1>5. CASE \/ UNCHANGED vars \/ (\E s \in Sockets : Deliver(s) \/ FailFrame(s))
           \/ \E r \in Requests : \/ Refuse(r) \/ Request(r) \/ TimeoutQueued(r) \/ TimeoutHead(r)
                                  \/ ReleaseStale(r)
  <2>1. UNCHANGED <<engine, socket>>
    BY <1>5, Zenon DEF Deliver, FailFrame, Frame, Refuse, Request, TimeoutQueued, TimeoutHead, ReleaseStale
  <2> QED BY <2>1
<1> QED BY <1>1, <1>2, <1>3, <1>4, <1>5 DEF Next

LEMMA IdleStep ==
  ASSUME ~replaced', TypeOK, Lifecycle, Idle, [Next]_vars
  PROVE  Idle'
<1> USE BrokerAssumption DEF Idle
<1>1. CASE \/ Start \/ StartFails \/ RetryFails \/ ReconnectTimer \/ ConnectWhileStopped
           \/ (\E s \in Sockets : AbandonedCloses(s)) \/ UNCHANGED vars
           \/ \E r \in Requests : \/ Refuse(r) \/ TimeoutHead(r)
  BY <1>1 DEF Start, StartFails, RetryFails, ReconnectTimer, ConnectWhileStopped, AbandonedCloses,
              Refuse, TimeoutHead, socket, broker, vars
<1>2. CASE Stop \/ Closed
  BY <1>2 DEF Stop, Closed, RejectAll
<1>3. CASE Connect \/ Open \/ BeginClose \/ \E r \in Requests : Retire(r)
  <2>1. CASE Connect
    BY <2>1 DEF Connect, Attempt, Lifecycle, TypeOK, broker
  <2>2. CASE Open \/ BeginClose \/ \E r \in Requests : Retire(r)
    BY <2>2 DEF Open, BeginClose, Retire, broker
  <2> QED BY <1>3, <2>1, <2>2
<1>4. CASE \E s \in Sockets : Deliver(s) \/ FailFrame(s)
  <2>1. PICK s \in Sockets, isAnswer \in BOOLEAN : Frame(s, isAnswer)
    BY <1>4 DEF Deliver, FailFrame
  <2>2. Head(wire[s]) \in Requests
    BY <2>1, SequenceFacts DEF Frame, TypeOK
  <2> QED BY <2>1, <2>2 DEF Frame, socket
<1>5. CASE \E r \in Requests : Request(r)
  BY <1>5 DEF Request, socket
<1>6. CASE \E r \in Requests : TimeoutQueued(r) \/ ReleaseStale(r)
  <2>1. PICK r \in Requests : TimeoutQueued(r) \/ ReleaseStale(r)
    BY <1>6
  <2>2. queue[PathOf[r]] # <<>> /\ ready' = ready
    <3>1. CASE ReleaseStale(r)
      BY <3>1 DEF ReleaseStale, IsHead, socket
    <3>2. CASE TimeoutQueued(r)
      <4>1. \E i \in 1..Len(queue[PathOf[r]]) : TRUE
        BY <3>2 DEF TimeoutQueued, InQueue, Members
      <4> QED BY <3>2, <4>1 DEF TimeoutQueued, socket
    <3> QED BY <2>1, <3>1, <3>2
  <2> QED BY <2>2, QueueTyped
<1> QED BY <1>1, <1>2, <1>3, <1>4, <1>5, <1>6 DEF Next

\* The first k entries of path p leave their queue, and none of them has a waiter any more: only
\* the head may have been answered.  This is what a frame does, sends that fail included.
Released(p, k) ==
  /\ Len(queue'[p]) = Len(queue[p]) - k
  /\ \A i \in 1..Len(queue'[p]) : queue'[p][i] = queue[p][i + k]
  /\ \A o \in Paths : o # p => queue'[o] = queue[o]
  /\ \A r \in Requests :
       \/ call'[r] = call[r]
       \/ /\ call[r] = "pending" /\ call'[r] \in {"answered", "rejected"}
          /\ \E i \in 1..k : queue[p][i] = r
          /\ call'[r] = "answered" => r = queue[p][1]
  /\ \A i \in 1..k : call'[queue[p][i]] \in {"answered", "rejected"}

\* A frame releases the slot of the very request it answers.
LEMMA FrameEffect ==
  ASSUME IInv, NEW s \in Sockets, NEW isAnswer \in BOOLEAN, Frame(s, isAnswer)
  PROVE  /\ ready = "open" /\ s = epoch
         /\ \E p \in Paths : \E k \in 1..Len(queue[p]) :
              /\ Released(p, k)
              /\ p = PathOf[wire[epoch][1]]
              /\ wire' = [wire EXCEPT ![epoch] = IF queue'[p] = <<>> THEN Tail(@)
                                                 ELSE Append(Tail(@), Head(queue'[p]))]
<1> DEFINE r == Head(wire[s])
           p == PathOf[r]
           q == queue[p]
           rest == [wire EXCEPT ![s] = Tail(@)]
           calls == IF call[Head(q)] = "pending"
                    THEN [call EXCEPT ![Head(q)] = Outcome(isAnswer, Head(q), r)] ELSE call
<1> USE BrokerAssumption
<1>1. s = epoch /\ ready \in {"connecting", "open"} /\ wire[s] # <<>>
  BY DEF Frame, IInv, Lifecycle
<1>2. ready = "open"
  BY <1>1 DEF IInv, Owed
<1>3. r = wire[epoch][1] /\ 1 \in 1..Len(wire[epoch]) /\ r \in Requests /\ p \in Paths
  BY <1>1, SequenceFacts DEF IInv, TypeOK
<1>4. q # <<>> /\ Head(q) = r /\ q \in Seq(Requests)
  BY <1>2, <1>3 DEF IInv, Owed, IsHead, TypeOK
<1>5. q[1] = r /\ Len(q) \in Nat \ {0} /\ Tail(q) \in Seq(Requests) /\ Len(Tail(q)) = Len(q) - 1
      /\ \A i \in 1..Len(Tail(q)) : Tail(q)[i] = q[i + 1]
  BY <1>4, SequenceFacts
<1>6. SendHead(p, Tail(q), rest, calls)
  BY <1>4 DEF Frame
<1> DEFINE left(n) == SubSeq(Tail(q), n + 1, Len(Tail(q)))
<1>7. PICK failed \in 0..Len(Tail(q)) :
        /\ queue' = [queue EXCEPT ![p] = left(failed)]
        /\ call' = Reject(calls, {Tail(q)[i] : i \in 1..failed})
        /\ wire' = IF left(failed) # <<>> /\ ready = "open"
                   THEN [rest EXCEPT ![epoch] = Append(@, Head(left(failed)))] ELSE rest
  BY <1>6 DEF SendHead
<1>8. /\ Len(left(failed)) = Len(Tail(q)) - failed
      /\ \A i \in 1..Len(left(failed)) : left(failed)[i] = Tail(q)[failed + i]
  BY <1>5, Suffix
<1> HIDE DEF left
<1>9. queue'[p] = left(failed) /\ \A o \in Paths : o # p => queue'[o] = queue[o]
  BY <1>3, <1>7 DEF IInv, TypeOK
<1> DEFINE k == failed + 1
<1>10. k \in 1..Len(q)
  BY <1>5
<1>11. Len(queue'[p]) = Len(q) - k /\ \A i \in 1..Len(queue'[p]) : queue'[p][i] = q[i + k]
  <2> DEFINE l == left(failed)
             t == Tail(q)
             n == Len(q)
  <2>1. n \in Nat /\ Len(t) = n - 1 /\ \A i \in 1..Len(t) : t[i] = q[i + 1]
    BY <1>5
  <2>2. Len(l) = Len(t) - failed /\ \A i \in 1..Len(l) : l[i] = t[failed + i]
    BY <1>8
  <2> HIDE DEF l, t, q
  <2>3. failed \in Nat /\ Len(l) = n - k
    BY <2>1, <2>2
  <2>4. \A i \in 1..Len(l) : l[i] = q[i + k]
    <3> TAKE i \in 1..Len(l)
    <3>1. failed + i \in 1..Len(t) /\ (failed + i) + 1 = i + k
      <4>1. i \in Nat /\ i >= 1 /\ i <= Len(l)
        BY <2>1, <2>2, <2>3
      <4> QED BY <2>1, <2>2, <2>3, <4>1
    <3>2. l[i] = t[failed + i]
      BY <2>2
    <3>3. t[failed + i] = q[(failed + i) + 1]
      BY <2>1, <3>1
    <3> QED BY <3>1, <3>2, <3>3
  <2> QED BY <1>9, <2>3, <2>4 DEF l
<1>12. calls \in [Requests -> States] /\ \A x \in Requests :
         IF x = r /\ call[r] = "pending" THEN calls[x] \in {"answered", "rejected"} ELSE calls[x] = call[x]
  BY <1>3, <1>4 DEF Outcome, States, IInv, TypeOK
<1> DEFINE F == {Tail(q)[i] : i \in 1..failed}
<1>13. F = {q[i] : i \in 2..k}
  <2>1. \A i \in 1..failed : Tail(q)[i] = q[i + 1] /\ i + 1 \in 2..k
    BY <1>5
  <2>2. \A i \in 2..k : q[i] = Tail(q)[i - 1] /\ i - 1 \in 1..failed
    BY <1>5
  <2> QED BY <2>1, <2>2
<1>14. \A x \in Requests : call'[x] = IF x \in F /\ calls[x] = "pending" THEN "rejected" ELSE calls[x]
  <2> HIDE DEF calls, F
  <2> QED BY <1>7, <1>12, RejectTyped DEF F
<1>15. \A i \in 1..Len(q) :
         /\ q[i] \in Requests /\ call[q[i]] \notin {"new", "mismatched"}
         /\ i # 1 => call[q[i]] = "pending" /\ q[i] # r
  BY <1>3, <1>4, <1>5, SequenceFacts DEF IInv, Queued
<1>16. \A x \in Requests :
         \/ call'[x] = call[x]
         \/ /\ call[x] = "pending" /\ call'[x] \in {"answered", "rejected"}
            /\ \E i \in 1..k : q[i] = x
            /\ call'[x] = "answered" => x = q[1]
  <2> HIDE DEF calls, F, k, q
  <2> TAKE x \in Requests
  <2>1. CASE x = r /\ call[r] = "pending"
    BY <1>5, <1>10, <1>12, <1>14, <2>1
  <2>2. CASE ~(x = r /\ call[r] = "pending")
    BY <1>10, <1>12, <1>13, <1>14, <2>2
  <2> QED BY <2>1, <2>2
<1>17. \A i \in 1..k : call'[q[i]] \in {"answered", "rejected"}
  <2> HIDE DEF calls, F, q, r
  <2> TAKE i \in 1..k
  <2>1. i \in 1..Len(q)
    BY <1>5, <1>10
  <2>2. q[i] \in Requests /\ call[q[i]] # "new" /\ call[q[i]] # "mismatched"
        /\ (i # 1 => call[q[i]] = "pending" /\ q[i] # r)
    BY <1>15, <2>1
  <2>3. call[q[i]] \in States
    BY <2>2 DEF IInv, TypeOK, States
  <2>4. CASE i = 1
    <3>1. call[r] \in {"pending", "answered", "rejected"} /\ q[i] = r
      BY <1>5, <2>2, <2>3, <2>4 DEF States
    <3>2. calls[r] \in {"answered", "rejected"}
      BY <1>3, <1>12, <3>1
    <3> QED BY <1>3, <1>14, <3>1, <3>2
  <2>5. CASE i # 1
    <3>1. q[i] \in F
      BY <1>13, <2>5
    <3>2. calls[q[i]] = "pending"
      BY <1>12, <2>2, <2>5
    <3> QED BY <1>14, <2>2, <3>1, <3>2
  <2> QED BY <2>4, <2>5
<1>18. wire' = [wire EXCEPT ![epoch] = IF queue'[p] = <<>> THEN Tail(@) ELSE Append(Tail(@), Head(queue'[p]))]
  BY <1>1, <1>2, <1>7, <1>9 DEF IInv, TypeOK
<1>19. Released(p, k)
  <2> HIDE DEF k, p
  <2> QED BY <1>9, <1>11, <1>16, <1>17 DEF Released
<1> HIDE DEF k, p, q, r
<1> QED BY <1>1, <1>2, <1>3, <1>10, <1>18, <1>19 DEF p, q, r

\* Entry `at` of path p, which was not sent yet, gives up.
Removed(p, at) ==
  /\ Len(queue'[p]) = Len(queue[p]) - 1
  /\ \A i \in 1..Len(queue'[p]) : queue'[p][i] = IF i < at THEN queue[p][i] ELSE queue[p][i + 1]
  /\ \A o \in Paths : o # p => queue'[o] = queue[o]
  /\ call[queue[p][at]] = "pending"
  /\ call' = [call EXCEPT ![queue[p][at]] = "rejected"]

LEMMA TimeoutEffect ==
  ASSUME TypeOK, NEW r \in Requests, TimeoutQueued(r)
  PROVE  /\ UNCHANGED <<engine, socket, wire, stamp, drain>>
         /\ queue'[PathOf[r]] # <<>> /\ Head(queue'[PathOf[r]]) = Head(queue[PathOf[r]])
         /\ \E at \in 2..Len(queue[PathOf[r]]) :
              queue[PathOf[r]][at] = r /\ Removed(PathOf[r], at)
<1> DEFINE p == PathOf[r]
           q == queue[p]
<1> USE BrokerAssumption
<1>1. PICK at \in 2..Len(q) :
        /\ q[at] = r
        /\ queue' = [queue EXCEPT ![p] = SubSeq(@, 1, at - 1) \o SubSeq(@, at + 1, Len(@))]
        /\ queue'[p] # <<>> /\ Head(queue'[p]) = Head(q)
  BY HeadKept
<1> DEFINE rest == SubSeq(q, 1, at - 1) \o SubSeq(q, at + 1, Len(q))
<1>2. p \in Paths /\ q \in Seq(Requests) /\ Len(q) \in Nat /\ at \in 1..Len(q)
  BY QueueTyped, SequenceFacts
<1>3. Len(rest) = Len(q) - 1 /\ \A i \in 1..Len(rest) : rest[i] = IF i < at THEN q[i] ELSE q[i + 1]
  BY <1>2, Without
<1>4. queue'[p] = rest /\ \A o \in Paths : o # p => queue'[o] = queue[o]
  BY <1>1, <1>2 DEF TypeOK
<1>5. call[r] = "pending" /\ call' = [call EXCEPT ![r] = "rejected"]
      /\ UNCHANGED <<engine, socket, wire, stamp, drain>>
  BY DEF TimeoutQueued
<1> HIDE DEF rest, p, q
<1>6. Removed(p, at)
  BY <1>1, <1>3, <1>4, <1>5 DEF Removed, q
<1> QED BY <1>1, <1>5, <1>6 DEF p, q

\* A call joins the queue of its path, and is sent when it is the first; or its send fails.
LEMMA RequestEffect ==
  ASSUME TypeOK, NEW r \in Requests, Request(r)
  PROVE  LET p == PathOf[r] IN
         /\ call[r] = "new" /\ ready = "open" /\ UNCHANGED <<engine, socket, drain>>
         /\ stamp' = [stamp EXCEPT ![r] = epoch]
         /\ \/ /\ call' = [call EXCEPT ![r] = "rejected"]
               /\ queue[p] = <<>> /\ UNCHANGED <<queue, wire>>
            \/ /\ call' = [call EXCEPT ![r] = "pending"]
               /\ queue' = [queue EXCEPT ![p] = Append(@, r)]
               /\ wire' = IF queue[p] = <<>> THEN [wire EXCEPT ![epoch] = Append(@, r)] ELSE wire
<1> DEFINE p == PathOf[r]
           pending == [call EXCEPT ![r] = "pending"]
<1> USE BrokerAssumption
<1>1. call[r] = "new" /\ ready = "open" /\ UNCHANGED <<engine, socket, drain>>
      /\ stamp' = [stamp EXCEPT ![r] = epoch]
  BY DEF Request
<1>2. CASE queue[p] # <<>>
  BY <1>1, <1>2 DEF Request
<1>3. CASE queue[p] = <<>>
  <2>1. SendHead(p, <<r>>, wire, pending)
    BY <1>3 DEF Request
  <2> DEFINE rest(n) == SubSeq(<<r>>, n + 1, Len(<<r>>))
  <2>2. Len(<<r>>) = 1 /\ <<r>>[1] = r /\ <<r>> \in Seq(Requests)
    OBVIOUS
  <2>3. PICK failed \in 0..1 :
          /\ queue' = [queue EXCEPT ![p] = rest(failed)]
          /\ call' = Reject(pending, {<<r>>[i] : i \in 1..failed})
          /\ wire' = IF rest(failed) # <<>> THEN [wire EXCEPT ![epoch] = Append(@, Head(rest(failed)))] ELSE wire
    BY <1>1, <2>1, <2>2 DEF SendHead
  <2>4. rest(0) = <<r>> /\ rest(1) = <<>>
    <3>1. SubSeq(<<r>>, 1, Len(<<r>>)) = <<r>>
      BY <2>2, SubSeqFull
    <3>2. SubSeq(<<r>>, 2, 1) = <<>>
      BY SubSeqEmpty
    <3> QED BY <2>2, <3>1, <3>2
  <2> HIDE DEF rest
  <2>5. pending \in [Requests -> States]
    BY DEF TypeOK, States
  <2>6. CASE failed = 0
    <3>1. {<<r>>[i] : i \in 1..failed} = {}
      BY <2>6
    <3>2. Reject(pending, {}) = pending
      <4> HIDE DEF pending
      <4>1. \A x \in Requests : Reject(pending, {})[x] = pending[x]
        BY <2>5, RejectTyped
      <4>2. Reject(pending, {}) \in [Requests -> States]
        BY <2>5, RejectTyped
      <4> QED BY <2>5, <4>1, <4>2
    <3>3. Append(<<>>, r) = <<r>> /\ Head(<<r>>) = r /\ <<r>> # <<>>
      OBVIOUS
    <3> QED BY <1>1, <1>3, <2>3, <2>4, <2>6, <3>1, <3>2, <3>3
  <2>7. CASE failed = 1
    <3>1. {<<r>>[i] : i \in 1..failed} = {r}
      BY <2>2, <2>7
    <3>2. Reject(pending, {r}) = [call EXCEPT ![r] = "rejected"]
      <4>1. pending[r] = "pending" /\ \A x \in Requests : x # r => pending[x] = call[x]
        BY DEF TypeOK
      <4> HIDE DEF pending
      <4>2. Reject(pending, {r}) \in [Requests -> States]
            /\ \A x \in Requests : Reject(pending, {r})[x] = IF x = r THEN "rejected" ELSE call[x]
        BY <2>5, <4>1, RejectTyped
      <4>3. call \in [Requests -> States]
        BY DEF TypeOK, States
      <4> QED BY <4>2, <4>3 DEF States
    <3>3. queue' = queue
      BY <1>3, <2>3, <2>4, <2>7 DEF TypeOK
    <3> QED BY <1>1, <1>3, <2>3, <2>4, <2>7, <3>1, <3>2, <3>3
  <2> QED BY <2>6, <2>7
<1> QED BY <1>2, <1>3

LEMMA QueueFacts ==
  ASSUME TypeOK, BrokerAssumption
  PROVE  /\ \A p \in Paths : /\ queue[p] \in Seq(Requests) /\ Len(queue[p]) \in Nat
                             /\ (queue[p] = <<>> <=> Len(queue[p]) = 0)
                             /\ \A i \in 1..Len(queue[p]) : queue[p][i] \in Requests
         /\ \A r \in Requests : PathOf[r] \in Paths
         /\ \A r \in Requests : InQueue(r) <=> \E i \in 1..Len(queue[PathOf[r]]) : queue[PathOf[r]][i] = r
         /\ \A r \in Requests : IsHead(r) <=> Len(queue[PathOf[r]]) > 0 /\ queue[PathOf[r]][1] = r
<1>1. /\ \A p \in Paths : queue[p] \in Seq(Requests)
      /\ \A r \in Requests : PathOf[r] \in Paths
  BY BrokerAssumption DEF TypeOK
<1>2. \A p \in Paths : /\ Len(queue[p]) \in Nat
                       /\ (queue[p] = <<>> <=> Len(queue[p]) = 0)
                       /\ \A i \in 1..Len(queue[p]) : queue[p][i] \in Requests
                       /\ queue[p] # <<>> => Head(queue[p]) = queue[p][1]
  BY <1>1, SequenceFacts
<1>3. \A r \in Requests : InQueue(r) <=> \E i \in 1..Len(queue[PathOf[r]]) : queue[PathOf[r]][i] = r
  BY DEF InQueue, Members
<1>4. \A r \in Requests : IsHead(r) <=> Len(queue[PathOf[r]]) > 0 /\ queue[PathOf[r]][1] = r
  BY <1>1, <1>2 DEF IsHead
<1> QED BY <1>1, <1>2, <1>3, <1>4

\* The lemma above, in the next state.
LEMMA QueueFactsNext ==
  ASSUME TypeOK', BrokerAssumption
  PROVE  /\ \A p \in Paths : /\ queue'[p] \in Seq(Requests) /\ Len(queue'[p]) \in Nat
                             /\ (queue'[p] = <<>> <=> Len(queue'[p]) = 0)
                             /\ \A i \in 1..Len(queue'[p]) : queue'[p][i] \in Requests
         /\ \A r \in Requests : InQueue(r)' <=> \E i \in 1..Len(queue'[PathOf[r]]) : queue'[PathOf[r]][i] = r
         /\ \A r \in Requests : IsHead(r)' <=> Len(queue'[PathOf[r]]) > 0 /\ queue'[PathOf[r]][1] = r
<1>1. /\ \A p \in Paths : queue'[p] \in Seq(Requests)
      /\ \A r \in Requests : PathOf[r] \in Paths
  BY BrokerAssumption DEF TypeOK
<1>2. \A p \in Paths : /\ Len(queue'[p]) \in Nat
                       /\ (queue'[p] = <<>> <=> Len(queue'[p]) = 0)
                       /\ \A i \in 1..Len(queue'[p]) : queue'[p][i] \in Requests
                       /\ queue'[p] # <<>> => Head(queue'[p]) = queue'[p][1]
  BY <1>1, SequenceFacts
<1>3. \A r \in Requests : InQueue(r)' <=> \E i \in 1..Len(queue'[PathOf[r]]) : queue'[PathOf[r]][i] = r
  BY DEF InQueue, Members
<1>4. \A r \in Requests : IsHead(r)' <=> Len(queue'[PathOf[r]]) > 0 /\ queue'[PathOf[r]][1] = r
  BY <1>1, <1>2 DEF IsHead
<1> QED BY <1>1, <1>2, <1>3, <1>4

\* No slot is released for an owner of an older socket: there is none.
LEMMA NothingStale == IInv => \A r \in Requests : ~ReleaseStale(r)
<1> SUFFICES ASSUME IInv, NEW r \in Requests, ReleaseStale(r) PROVE FALSE
  OBVIOUS
<1>1. 1 \in 1..Len(queue[PathOf[r]]) /\ queue[PathOf[r]][1] = r /\ PathOf[r] \in Paths
  BY QueueFacts, BrokerAssumption DEF IInv, ReleaseStale
<1> QED BY <1>1 DEF IInv, Queued, ReleaseStale

LEMMA ReleasedKeeps ==
  ASSUME IInv, NEW p \in Paths, NEW k \in 1..Len(queue[p]), Released(p, k), TypeOK', UNCHANGED <<epoch, stamp>>
  PROVE  Queued'
<1> USE BrokerAssumption
<1> DEFINE q == queue[p]
           l == queue'[p]
<1>1. /\ Len(q) \in Nat /\ Len(l) = Len(q) - k /\ \A i \in 1..Len(l) : i + k \in 1..Len(q) /\ l[i] = q[i + k]
      /\ \A o \in Paths : o # p => queue'[o] = queue[o]
  BY QueueFacts DEF Released, IInv
<1>2. \A i \in 1..k : i \in 1..Len(q) /\ call'[q[i]] \in {"answered", "rejected"}
  BY <1>1 DEF Released
<1>3. \A r \in Requests : \/ call'[r] = call[r]
                          \/ call[r] = "pending" /\ call'[r] \in {"answered", "rejected"} /\ \E i \in 1..k : q[i] = r
  BY DEF Released
<1>4. ASSUME NEW o \in Paths, NEW i \in 1..Len(queue[o])
      PROVE  LET r == queue[o][i] IN
             /\ r \in Requests /\ PathOf[r] = o /\ call[r] \notin {"new", "mismatched"} /\ stamp[r] = epoch
             /\ i # 1 => call[r] = "pending"
             /\ \A j \in 1..Len(queue[o]) : queue[o][j] = r => j = i
  BY <1>4, QueueFacts DEF IInv, Queued
<1>5. ASSUME NEW o \in Paths, NEW i \in 1..Len(queue'[o])
      PROVE  LET r == queue'[o][i] IN
             /\ PathOf[r] = o /\ call'[r] \notin {"new", "mismatched"} /\ stamp'[r] = epoch'
             /\ i # 1 => call'[r] = "pending"
             /\ \A j \in 1..Len(queue'[o]) : queue'[o][j] = r => j = i
  <2>1. CASE o # p
    <3> DEFINE r == queue[o][i]
    <3>1. queue'[o] = queue[o]
      BY <1>1, <2>1
    <3>2. i \in 1..Len(queue[o])
      BY <3>1
    <3>3. /\ r \in Requests /\ PathOf[r] = o /\ call[r] \notin {"new", "mismatched"} /\ stamp[r] = epoch
          /\ i # 1 => call[r] = "pending"
          /\ \A j \in 1..Len(queue[o]) : queue[o][j] = r => j = i
      BY <1>4, <3>2
    <3>4. \A j \in 1..k : q[j] # r
      BY <1>2, <1>4, <2>1, <3>3
    <3> HIDE DEF r, q
    <3>5. call'[r] = call[r]
      BY <1>3, <3>3, <3>4
    <3> QED BY <3>1, <3>3, <3>5 DEF r
  <2>2. CASE o = p
    <3> DEFINE r == q[i + k]
    <3>1. i + k \in 1..Len(q) /\ i + k # 1 /\ l[i] = r /\ k \in Nat
      BY <1>1, <2>2
    <3>2. /\ r \in Requests /\ PathOf[r] = p /\ call[r] = "pending" /\ stamp[r] = epoch
          /\ \A j \in 1..Len(q) : q[j] = r => j = i + k
      BY <1>4, <3>1
    <3>3. \A j \in 1..k : q[j] # r
      BY <1>2, <3>1, <3>2
    <3>4. \A j \in 1..Len(l) : l[j] = r => j = i
      BY <1>1, <3>1, <3>2
    <3> HIDE DEF r, q, l
    <3>5. call'[r] = call[r]
      BY <1>3, <3>2, <3>3
    <3> QED BY <2>2, <3>1, <3>2, <3>4, <3>5 DEF l
  <2> QED BY <2>1, <2>2
<1> QED BY <1>5 DEF Queued

LEMMA RemovedKeeps ==
  ASSUME IInv, NEW p \in Paths, NEW at \in 2..Len(queue[p]), Removed(p, at), TypeOK',
         UNCHANGED <<epoch, stamp>>
  PROVE  Queued'
<1> USE BrokerAssumption
<1> DEFINE q == queue[p]
           l == queue'[p]
           gone == q[at]
<1>1. /\ Len(q) \in Nat /\ Len(l) = Len(q) - 1
      /\ \A i \in 1..Len(l) : l[i] = IF i < at THEN q[i] ELSE q[i + 1]
      /\ \A o \in Paths : o # p => queue'[o] = queue[o]
      /\ at \in 1..Len(q) /\ gone \in Requests /\ PathOf[gone] = p
      /\ call[gone] = "pending" /\ call' = [call EXCEPT ![gone] = "rejected"]
  <2>1. Len(q) \in Nat /\ at \in 1..Len(q)
    BY QueueFacts DEF IInv
  <2>2. gone \in Requests /\ PathOf[gone] = p
    BY <2>1, QueueFacts DEF IInv, Queued
  <2> QED BY <2>1, <2>2 DEF Removed
<1>2. /\ call'[gone] = "rejected" 
      /\ \A r \in Requests : r # gone => call'[r] = call[r]
  BY <1>1 DEF IInv, TypeOK
<1>3. ASSUME NEW o \in Paths, NEW i \in 1..Len(queue[o])
      PROVE  LET r == queue[o][i] IN
             /\ r \in Requests /\ PathOf[r] = o /\ call[r] \notin {"new", "mismatched"} /\ stamp[r] = epoch
             /\ i # 1 => call[r] = "pending"
             /\ \A j \in 1..Len(queue[o]) : queue[o][j] = r => j = i
  BY <1>3, QueueFacts DEF IInv, Queued
<1>4. ASSUME NEW o \in Paths, NEW i \in 1..Len(queue'[o])
      PROVE  LET r == queue'[o][i] IN
             /\ PathOf[r] = o /\ call'[r] \notin {"new", "mismatched"} /\ stamp'[r] = epoch'
             /\ i # 1 => call'[r] = "pending"
             /\ \A j \in 1..Len(queue'[o]) : queue'[o][j] = r => j = i
  <2>1. CASE o # p
    <3>1. queue'[o] = queue[o] /\ i \in 1..Len(queue[o])
      BY <1>1, <2>1
    <3>2. queue[o][i] # gone
      BY <1>1, <1>3, <2>1, <3>1
    <3> QED BY <1>2, <1>3, <3>1, <3>2
  <2>2. CASE o = p
    <3> DEFINE Old(n) == IF n < at THEN n ELSE n + 1
    <3>1. \A n \in 1..Len(l) : /\ Old(n) \in 1..Len(q) /\ Old(n) # at /\ l[n] = q[Old(n)]
                               /\ (Old(n) = 1 => n = 1) /\ \A m \in 1..Len(l) : Old(m) = Old(n) => m = n
      <4>1. Len(l) \in Nat /\ at \in Nat /\ at > 0
        BY <1>1
      <4>2. \A n \in 1..Len(l) : (Old(n) = 1 => n = 1) /\ \A m \in 1..Len(l) : Old(m) = Old(n) => m = n
        BY <4>1
      <4>3. \A n \in 1..Len(l) : Old(n) \in 1..Len(q) /\ Old(n) # at /\ l[n] = q[Old(n)]
        BY <1>1
      <4> HIDE DEF Old
      <4> QED BY <4>2, <4>3
    <3> DEFINE r == q[Old(i)]
    <3> HIDE DEF Old
    <3>2. /\ r \in Requests /\ PathOf[r] = p /\ call[r] \notin {"new", "mismatched"} /\ stamp[r] = epoch
          /\ Old(i) # 1 => call[r] = "pending"
          /\ \A j \in 1..Len(q) : q[j] = r => j = Old(i)
      BY <1>3, <2>2, <3>1
    <3>3. r # gone
      BY <1>1, <2>2, <3>1, <3>2
    <3>4. \A j \in 1..Len(l) : l[j] = r => j = i
      BY <2>2, <3>1, <3>2
    <3> HIDE DEF r, q, l
    <3>5. call'[r] = call[r] /\ queue'[o][i] = r
      BY <1>2, <2>2, <3>1, <3>2, <3>3 DEF l, r
    <3> QED BY <2>2, <3>1, <3>2, <3>4, <3>5 DEF l
  <2> QED BY <2>1, <2>2
<1> QED BY <1>4 DEF Queued

LEMMA RequestKeeps ==
  ASSUME IInv, NEW r \in Requests, Request(r), TypeOK'
  PROVE  Queued'
<1> USE BrokerAssumption
<1> DEFINE p == PathOf[r]
           q == queue[p]
<1>1. /\ call[r] = "new" /\ ready = "open" /\ UNCHANGED <<engine, socket, drain>>
      /\ stamp' = [stamp EXCEPT ![r] = epoch]
      /\ \/ call' = [call EXCEPT ![r] = "rejected"] /\ UNCHANGED queue
         \/ /\ call' = [call EXCEPT ![r] = "pending"]
            /\ queue' = [queue EXCEPT ![p] = Append(@, r)]
  BY RequestEffect DEF IInv
<1>2. /\ stamp'[r] = epoch' /\ epoch' = epoch
      /\ \A x \in Requests : x # r => call'[x] = call[x] /\ stamp'[x] = stamp[x]
      /\ call'[r] \in {"pending", "rejected"}
  BY <1>1 DEF IInv, TypeOK, socket
<1>3. ASSUME NEW o \in Paths, NEW i \in 1..Len(queue[o])
      PROVE  LET x == queue[o][i] IN
             /\ x \in Requests /\ x # r /\ PathOf[x] = o /\ call[x] \notin {"new", "mismatched"} /\ stamp[x] = epoch
             /\ i # 1 => call[x] = "pending"
             /\ \A j \in 1..Len(queue[o]) : queue[o][j] = x => j = i
  BY <1>1, <1>3, QueueFacts DEF IInv, Queued
<1>5. CASE call' = [call EXCEPT ![r] = "rejected"] /\ UNCHANGED queue
  BY <1>2, <1>3, <1>5 DEF Queued
<1>6. CASE /\ call' = [call EXCEPT ![r] = "pending"]
           /\ queue' = [queue EXCEPT ![p] = Append(@, r)]
  <2> DEFINE l == queue'[p]
  <2>1. /\ p \in Paths /\ Len(q) \in Nat /\ Len(l) = Len(q) + 1 /\ l[Len(q) + 1] = r
        /\ \A i \in 1..Len(q) : l[i] = q[i]
        /\ \A o \in Paths : o # p => queue'[o] = queue[o]
        /\ call'[r] = "pending"
    <3>1. p \in Paths /\ q \in Seq(Requests)
      BY QueueFacts DEF IInv
    <3>2. l = Append(q, r) /\ \A o \in Paths : o # p => queue'[o] = queue[o]
      BY <1>6, <3>1 DEF IInv, TypeOK
    <3>3. call'[r] = "pending"
      BY <1>6 DEF IInv, TypeOK
    <3> QED BY <3>1, <3>2, <3>3, SequenceFacts
  <2>2. ASSUME NEW o \in Paths, NEW i \in 1..Len(queue'[o])
        PROVE  LET x == queue'[o][i] IN
               /\ PathOf[x] = o /\ call'[x] \notin {"new", "mismatched"} /\ stamp'[x] = epoch'
               /\ i # 1 => call'[x] = "pending"
               /\ \A j \in 1..Len(queue'[o]) : queue'[o][j] = x => j = i
    <3>1. CASE o # p
      <4>1. queue'[o] = queue[o] /\ i \in 1..Len(queue[o])
        BY <2>1, <3>1
      <4> QED BY <1>2, <1>3, <4>1
    <3>2. CASE o = p /\ i = Len(q) + 1
      <4>1. \A j \in 1..Len(l) : l[j] = r => j = i
        BY <1>3, <2>1, <3>2
      <4> QED BY <1>2, <2>1, <3>2, <4>1
    <3>3. CASE o = p /\ i # Len(q) + 1
      <4> DEFINE x == q[i]
      <4>1. i \in 1..Len(q) /\ l[i] = x
        BY <2>1, <3>3
      <4>2. /\ x \in Requests /\ x # r /\ PathOf[x] = p /\ call[x] \notin {"new", "mismatched"} /\ stamp[x] = epoch
            /\ i # 1 => call[x] = "pending"
            /\ \A j \in 1..Len(q) : q[j] = x => j = i
        BY <1>3, <2>1, <4>1
      <4>3. \A j \in 1..Len(l) : l[j] = x => j = i
        BY <2>1, <4>2
      <4> HIDE DEF x, l
      <4> QED BY <1>2, <3>3, <4>1, <4>2, <4>3 DEF l
    <3> QED BY <3>1, <3>2, <3>3
  <2> QED BY <2>2 DEF Queued
<1> QED BY <1>1, <1>5, <1>6

LEMMA QueuedStep ==
  ASSUME ~replaced', IInv, [Next]_vars, TypeOK'
  PROVE  Queued'
<1> USE BrokerAssumption
<1>1. CASE UNCHANGED <<epoch, queue, stamp, call>>
  BY <1>1 DEF IInv, Queued
<1>2. CASE \/ Start \/ StartFails \/ RetryFails \/ ReconnectTimer \/ ConnectWhileStopped
           \/ Open \/ BeginClose \/ UNCHANGED vars
           \/ (\E s \in Sockets : AbandonedCloses(s)) \/ \E r \in Requests : Retire(r)
  <2>1. UNCHANGED <<epoch, queue, stamp, call>>
    BY <1>2, Zenon DEF Start, StartFails, RetryFails, ReconnectTimer, ConnectWhileStopped, Open, BeginClose,
                       AbandonedCloses, Retire, socket, broker, vars
  <2> QED BY <1>1, <2>1
<1>3. CASE Stop \/ Closed
  <2>1. RejectAll
    BY <1>3 DEF Stop, Closed
  <2> QED BY <2>1 DEF RejectAll, Queued
<1>4. CASE Connect
  <2>1. \A p \in Paths : queue[p] = <<>>
    BY <1>4 DEF Connect, Attempt, IInv, Lifecycle, Idle, TypeOK
  <2>2. UNCHANGED <<queue, call>>
    BY <1>4 DEF Connect, broker
  <2> QED BY <2>1, <2>2 DEF IInv, Queued
<1>5. CASE \E s \in Sockets : Deliver(s) \/ FailFrame(s)
  <2>1. PICK s \in Sockets, isAnswer \in BOOLEAN : Frame(s, isAnswer)
    BY <1>5 DEF Deliver, FailFrame
  <2>2. PICK p \in Paths : \E k \in 1..Len(queue[p]) : Released(p, k)
    BY <2>1, FrameEffect
  <2>3. UNCHANGED <<epoch, stamp>>
    BY <2>1 DEF Frame, socket
  <2> QED BY <2>2, <2>3, ReleasedKeeps
<1>6. CASE \E r \in Requests : Refuse(r)
  <2>1. PICK r \in Requests : Refuse(r)
    BY <1>6
  <2>2. /\ UNCHANGED <<epoch, queue, stamp>> /\ call[r] = "new" /\ call'[r] = "rejected"
        /\ \A x \in Requests : x # r => call'[x] = call[x]
    BY <2>1 DEF Refuse, socket, IInv, TypeOK
  <2>3. \A p \in Paths : \A i \in 1..Len(queue[p]) : queue[p][i] \in Requests \ {r}
    BY <2>2, QueueFacts DEF IInv, Queued
  <2> QED BY <2>2, <2>3 DEF IInv, Queued
<1>7. CASE \E r \in Requests : Request(r)
  BY <1>7, RequestKeeps
<1>8. CASE \E r \in Requests : TimeoutQueued(r)
  <2>1. PICK r \in Requests : TimeoutQueued(r)
    BY <1>8
  <2>2. /\ UNCHANGED <<epoch, stamp>>
        /\ \E at \in 2..Len(queue[PathOf[r]]) : Removed(PathOf[r], at)
    BY <2>1, TimeoutEffect DEF socket, IInv
  <2> QED BY <2>2, QueueFacts, RemovedKeeps DEF IInv
<1>9. CASE \E r \in Requests : TimeoutHead(r)
  <2>1. PICK r \in Requests : TimeoutHead(r)
    BY <1>9
  <2>2. /\ UNCHANGED <<epoch, queue, stamp>> /\ call'[r] = "rejected" /\ IsHead(r)
        /\ \A x \in Requests : x # r => call'[x] = call[x]
    BY <2>1 DEF TimeoutHead, socket, IInv, TypeOK
  <2>3. PathOf[r] \in Paths /\ 1 \in 1..Len(queue[PathOf[r]]) /\ queue[PathOf[r]][1] = r
    BY <2>2, QueueFacts DEF IInv
  <2>4. \A p \in Paths : \A i \in 1..Len(queue[p]) :
          queue[p][i] \in Requests /\ (i # 1 => queue[p][i] # r)
    BY <2>3, QueueFacts DEF IInv, Queued
  <2> QED BY <2>2, <2>4 DEF IInv, Queued
<1>10. CASE \E r \in Requests : ReleaseStale(r)
  BY <1>10, NothingStale
<1> QED BY <1>2, <1>3, <1>4, <1>5, <1>6, <1>7, <1>8, <1>9, <1>10 DEF Next

LEMMA OwedStep ==
  ASSUME ~replaced', IInv, [Next]_vars, TypeOK', Queued'
  PROVE  Owed'
<1> USE BrokerAssumption
<1> DEFINE HeadNext(x) == queue'[PathOf[x]] # <<>> /\ Head(queue'[PathOf[x]]) = x
<1>0. ASSUME ready' = "open", NEW v, v = wire'[epoch'],
             \A i \in 1..Len(v) : HeadNext(v[i]),
             \A i, j \in 1..Len(v) : PathOf[v[j]] = PathOf[v[i]] => j = i,
             \A s \in Sockets : s > epoch' => wire'[s] = <<>>
      PROVE  Owed'
  BY <1>0 DEF Owed, IsHead
<1>1. ASSUME UNCHANGED <<ready, epoch, queue, wire>> PROVE Owed'
  BY <1>1 DEF IInv, Owed, IsHead
<1>2. CASE \/ Start \/ StartFails \/ RetryFails \/ ReconnectTimer \/ ConnectWhileStopped
           \/ (\E s \in Sockets : AbandonedCloses(s)) \/ UNCHANGED vars
           \/ \E r \in Requests : Refuse(r) \/ TimeoutHead(r)
  <2>1. UNCHANGED <<ready, epoch, queue, wire>>
    BY <1>2, Zenon DEF Start, StartFails, RetryFails, ReconnectTimer, ConnectWhileStopped, AbandonedCloses,
                       Refuse, TimeoutHead, socket, broker, vars
  <2> QED BY <1>1, <2>1
<1>3. CASE \/ Stop \/ Closed \/ BeginClose \/ \E r \in Requests : Retire(r)
  <2>1. UNCHANGED <<epoch, wire>>
    BY <1>3 DEF Stop, Closed, BeginClose, Retire, RejectAll, broker
  <2>2. ready' \in {"closing", "down"} \/ UNCHANGED <<ready, queue>>
    BY <1>3 DEF Stop, Closed, BeginClose, Retire, broker
  <2> QED BY <1>1, <2>1, <2>2 DEF IInv, Owed
<1>4. CASE Connect
  <2>1. epoch' = epoch + 1 /\ epoch' \in Sockets /\ ready' = "connecting" /\ wire' = wire
    BY <1>4 DEF Connect, broker, IInv, TypeOK, Sockets
  <2> QED BY <2>1 DEF IInv, TypeOK, Owed, Sockets
<1>5. CASE Open
  <2>1. ready' = "open" /\ UNCHANGED <<epoch, queue, wire>> /\ wire[epoch] = <<>>
    BY <1>5 DEF Open, broker, IInv, Owed
  <2> QED BY <2>1 DEF IInv, Owed
<1>6. CASE \E r \in Requests : TimeoutQueued(r)
  <2>1. PICK r \in Requests : TimeoutQueued(r)
    BY <1>6
  <2>2. /\ UNCHANGED <<ready, epoch, wire>>
        /\ queue'[PathOf[r]] # <<>> /\ Head(queue'[PathOf[r]]) = Head(queue[PathOf[r]])
        /\ \A o \in Paths : o # PathOf[r] => queue'[o] = queue[o]
    BY <2>1, TimeoutEffect DEF socket, IInv, Removed
  <2>3. \A x \in Requests : IsHead(x) => HeadNext(x)
    BY <2>2, QueueFacts DEF IsHead, IInv
  <2>4. ready = "open" => \A i \in 1..Len(wire[epoch]) : wire[epoch][i] \in Requests
    BY SequenceFacts DEF IInv, TypeOK, Lifecycle
  <2> QED BY <2>2, <2>3, <2>4 DEF IInv, Owed, IsHead
<1>7. CASE \E r \in Requests : ReleaseStale(r)
  BY <1>7, NothingStale
<1>8. CASE \E r \in Requests : Request(r)
  <2>1. PICK r \in Requests : Request(r)
    BY <1>8
  <2> DEFINE p == PathOf[r]
             w == wire[epoch]
  <2>2. /\ ready = "open" /\ UNCHANGED <<ready, epoch>>
        /\ \/ UNCHANGED <<queue, wire>>
           \/ /\ queue' = [queue EXCEPT ![p] = Append(@, r)]
              /\ wire' = IF queue[p] = <<>> THEN [wire EXCEPT ![epoch] = Append(@, r)] ELSE wire
    BY <2>1, RequestEffect DEF IInv, socket
  <2>3. CASE UNCHANGED <<queue, wire>>
    BY <1>1, <2>2, <2>3
  <2>4. CASE /\ queue' = [queue EXCEPT ![p] = Append(@, r)]
             /\ wire' = IF queue[p] = <<>> THEN [wire EXCEPT ![epoch] = Append(@, r)] ELSE wire
    <3>1. /\ epoch \in Sockets /\ p \in Paths /\ queue[p] \in Seq(Requests) /\ w \in Seq(Requests)
      BY <2>2, QueueFacts DEF IInv, Lifecycle, TypeOK
    <3>2. /\ queue'[p] = Append(queue[p], r) /\ \A o \in Paths : o # p => queue'[o] = queue[o]
      BY <2>4, <3>1 DEF IInv, TypeOK
    <3>3. queue'[p] # <<>> /\ (queue[p] # <<>> => Head(queue'[p]) = Head(queue[p]))
          /\ (queue[p] = <<>> => Head(queue'[p]) = r)
      BY <3>1, <3>2, HeadTailAppend, AppendProperties
    <3>4. \A x \in Requests : IsHead(x) => HeadNext(x)
      BY <3>2, <3>3, QueueFacts DEF IsHead, IInv
    <3>5. \A i \in 1..Len(w) : w[i] \in Requests
      BY <3>1, SequenceFacts
    <3>6. \A i \in 1..Len(w) : IsHead(w[i]) /\ \A j \in 1..Len(w) : PathOf[w[j]] = PathOf[w[i]] => j = i
      BY <2>2 DEF IInv, Owed
    <3>7. CASE queue[p] # <<>>
      <4>1. wire' = wire
        BY <2>4, <3>7
      <4> QED BY <2>2, <3>4, <3>5, <3>6, <4>1 DEF IInv, Owed, IsHead
    <3>8. CASE queue[p] = <<>>
      <4> DEFINE v == wire'[epoch]
      <4>1. /\ Len(w) \in Nat /\ Len(v) = Len(w) + 1 /\ v[Len(w) + 1] = r
            /\ \A i \in 1..Len(w) : v[i] = w[i]
            /\ \A s \in Sockets : s # epoch => wire'[s] = wire[s]
        <5>1. v = Append(w, r) /\ \A s \in Sockets : s # epoch => wire'[s] = wire[s]
          BY <2>4, <3>1, <3>8 DEF IInv, TypeOK
        <5> QED BY <3>1, <5>1, SequenceFacts
      <4>2. \A i \in 1..Len(w) : PathOf[w[i]] # p
        BY <3>5, <3>6, <3>8 DEF IsHead
      <4>3. HeadNext(r)
        BY <3>3, <3>8 DEF IsHead
      <4>4. \A i \in 1..Len(v) : i \in 1..Len(w) \/ i = Len(w) + 1
        BY <4>1
      <4>5. \A i \in 1..Len(v) : HeadNext(v[i])
        BY <3>4, <3>5, <3>6, <4>1, <4>3, <4>4
      <4>6. \A i, j \in 1..Len(v) : PathOf[v[j]] = PathOf[v[i]] => j = i
        BY <3>6, <4>1, <4>2, <4>4
      <4>7. \A s \in Sockets : s > epoch => wire'[s] = <<>>
        BY <4>1 DEF IInv, Owed, TypeOK, Sockets
      <4>8. v = wire'[epoch'] /\ ready' = "open" /\ \A s \in Sockets : s > epoch' => wire'[s] = <<>>
        BY <2>2, <4>7
      <4> HIDE DEF v, HeadNext
      <4> QED BY <1>0, <4>5, <4>6, <4>8
    <3> QED BY <3>7, <3>8
  <2> QED BY <2>2, <2>3, <2>4
<1>9. CASE \E s \in Sockets : Deliver(s) \/ FailFrame(s)
  <2>1. PICK s \in Sockets, isAnswer \in BOOLEAN : Frame(s, isAnswer)
    BY <1>9 DEF Deliver, FailFrame
  <2> DEFINE w == wire[epoch]
             v == wire'[epoch]
  <2>2. /\ ready = "open" /\ s = epoch
        /\ \E p \in Paths : \E k \in 1..Len(queue[p]) :
             /\ Released(p, k)
             /\ p = PathOf[w[1]]
             /\ wire' = [wire EXCEPT ![epoch] = IF queue'[p] = <<>> THEN Tail(@)
                                                ELSE Append(Tail(@), Head(queue'[p]))]
    BY <2>1, FrameEffect
  <2>3. PICK p \in Paths : \E k \in 1..Len(queue[p]) :
          /\ Released(p, k)
          /\ p = PathOf[w[1]]
          /\ wire' = [wire EXCEPT ![epoch] = IF queue'[p] = <<>> THEN Tail(@)
                                             ELSE Append(Tail(@), Head(queue'[p]))]
    BY <2>2
  <2>4. UNCHANGED <<ready, epoch>> /\ epoch \in Sockets /\ w # <<>> /\ w \in Seq(Requests)
    BY <2>1, <2>2 DEF Frame, socket, IInv, TypeOK
  <2> DEFINE t == Tail(w)
  <2>5. /\ Len(w) \in Nat \ {0} /\ t \in Seq(Requests) /\ Len(t) = Len(w) - 1
        /\ \A i \in 1..Len(t) : t[i] = w[i + 1] /\ i + 1 \in 1..Len(w) /\ t[i] \in Requests
    BY <2>4, SequenceFacts
  <2>6. \A i \in 1..Len(w) : IsHead(w[i]) /\ \A j \in 1..Len(w) : PathOf[w[j]] = PathOf[w[i]] => j = i
    BY <2>2 DEF IInv, Owed
  <2>7. \A i \in 1..Len(t) : PathOf[t[i]] # p
    <3> SUFFICES ASSUME NEW i \in 1..Len(t), PathOf[t[i]] = p PROVE FALSE
      OBVIOUS
    <3>1. i + 1 \in 1..Len(w) /\ 1 \in 1..Len(w) /\ w[i + 1] = t[i]
      BY <2>5
    <3>2. i + 1 = 1
      BY <2>3, <2>6, <3>1
    <3> QED BY <3>2
  <2>8. \A i \in 1..Len(t) : HeadNext(t[i])
    <3> TAKE i \in 1..Len(t)
    <3>1. IsHead(t[i]) /\ PathOf[t[i]] # p /\ PathOf[t[i]] \in Paths
      BY <2>5, <2>6, <2>7, QueueFacts DEF IInv
    <3> QED BY <2>3, <3>1 DEF Released, IsHead
  <2>9. \A i, j \in 1..Len(t) : PathOf[t[j]] = PathOf[t[i]] => j = i
    <3> TAKE i, j \in 1..Len(t)
    <3>1. PathOf[t[j]] = PathOf[t[i]] => j + 1 = i + 1
      BY <2>5, <2>6
    <3> QED BY <2>5, <3>1
  <2>10. /\ v = IF queue'[p] = <<>> THEN t ELSE Append(t, Head(queue'[p]))
         /\ \A x \in Sockets : x # epoch => wire'[x] = wire[x]
    BY <2>3, <2>4 DEF IInv, TypeOK
  <2>11. \A x \in Sockets : x > epoch => wire'[x] = <<>>
    BY <2>10 DEF IInv, Owed, TypeOK, Sockets
  <2>12. CASE queue'[p] = <<>>
    <3>1. v = t
      BY <2>10, <2>12
    <3>2. v = wire'[epoch'] /\ ready' = "open" /\ \A x \in Sockets : x > epoch' => wire'[x] = <<>>
      BY <2>2, <2>4, <2>11
    <3> HIDE DEF v, t, HeadNext
    <3> QED BY <1>0, <2>8, <2>9, <3>1, <3>2
  <2>13. CASE queue'[p] # <<>>
    <3> DEFINE h == Head(queue'[p])
    <3>1. h \in Requests /\ PathOf[h] = p /\ HeadNext(h)
      <4>1. queue'[p] \in Seq(Requests)
        BY DEF TypeOK
      <4>2. h = queue'[p][1] /\ h \in Requests /\ 1 \in 1..Len(queue'[p])
        BY <2>13, <4>1, SequenceFacts
      <4>3. PathOf[h] = p
        BY <4>2 DEF Queued
      <4> QED BY <2>13, <4>2, <4>3 DEF IsHead
    <3>2. v = Append(t, h)
      BY <2>10, <2>13
    <3> HIDE DEF t, h
    <3>3. /\ Len(t) \in Nat /\ Len(v) = Len(t) + 1 /\ v[Len(t) + 1] = h
          /\ \A i \in 1..Len(t) : v[i] = t[i]
      BY <2>5, <3>1, <3>2, SequenceFacts
    <3>4. \A i \in 1..Len(v) : i \in 1..Len(t) \/ i = Len(t) + 1
      BY <3>3
    <3>5. \A i \in 1..Len(v) : HeadNext(v[i])
      BY <2>8, <3>1, <3>3, <3>4
    <3>6. \A i, j \in 1..Len(v) : PathOf[v[j]] = PathOf[v[i]] => j = i
      BY <2>7, <2>9, <3>1, <3>3, <3>4
    <3>7. v = wire'[epoch'] /\ ready' = "open" /\ \A x \in Sockets : x > epoch' => wire'[x] = <<>>
      BY <2>2, <2>4, <2>11
    <3> HIDE DEF v, HeadNext
    <3> QED BY <1>0, <3>5, <3>6, <3>7
  <2> QED BY <2>12, <2>13
<1> QED BY <1>2, <1>3, <1>4, <1>5, <1>6, <1>7, <1>8, <1>9 DEF Next

LEMMA InitIInv == Init => IInv
<1> SUFFICES ASSUME Init PROVE IInv
  OBVIOUS
<1>1. TypeOK
  BY InitTyped
<1>2. Lifecycle /\ Idle
  BY BrokerAssumption DEF Init, Lifecycle, Idle
<1>3. \A p \in Paths : Len(queue[p]) = 0
  BY SequenceFacts DEF Init
<1>4. Queued /\ Waiting
  BY <1>3 DEF Init, Queued, Waiting
<1>5. Owed
  BY DEF Init, Owed
<1> QED BY <1>1, <1>2, <1>4, <1>5 DEF IInv

\* Who is left in a queue after sends that failed.
LEMMA SendHeadWaits ==
  ASSUME TypeOK, NEW p \in Paths, NEW q \in Seq(Requests),
         NEW wires \in [Sockets -> Seq(Requests)], NEW calls \in [Requests -> States],
         SendHead(p, q, wires, calls)
  PROVE  /\ \A x \in Requests : call'[x] = "pending" =>
              calls[x] = "pending" /\ (x \in Members(q) => x \in Members(queue'[p]))
         /\ \A o \in Paths : o # p => queue'[o] = queue[o]
         /\ \A s \in Sockets : wire'[s] = wires[s] \/ (ready = "open" /\ s = epoch)
<1> DEFINE rest(n) == SubSeq(q, n + 1, Len(q))
<1>1. PICK failed \in 0..Len(q) :
        /\ queue' = [queue EXCEPT ![p] = rest(failed)]
        /\ call' = Reject(calls, {q[i] : i \in 1..failed})
        /\ wire' = IF rest(failed) # <<>> /\ ready = "open"
                   THEN [wires EXCEPT ![epoch] = Append(@, Head(rest(failed)))] ELSE wires
  BY DEF SendHead
<1>2. /\ Len(q) \in Nat /\ Len(rest(failed)) = Len(q) - failed
      /\ \A i \in 1..Len(rest(failed)) : rest(failed)[i] = q[failed + i]
  BY Suffix, SequenceFacts
<1> HIDE DEF rest
<1>3. queue'[p] = rest(failed) /\ \A o \in Paths : o # p => queue'[o] = queue[o]
  BY <1>1 DEF TypeOK
<1>4. \A x \in Requests : call'[x] =
        IF x \in {q[i] : i \in 1..failed} /\ calls[x] = "pending" THEN "rejected" ELSE calls[x]
  BY <1>1, RejectTyped
<1>5. ASSUME NEW x \in Requests, call'[x] = "pending"
      PROVE  calls[x] = "pending" /\ (x \in Members(q) => x \in Members(queue'[p]))
  <2>1. calls[x] = "pending" /\ \A i \in 1..failed : q[i] # x
    BY <1>4, <1>5
  <2>2. ASSUME NEW i \in 1..Len(q), q[i] = x PROVE x \in Members(queue'[p])
    <3>1. i - failed \in 1..Len(rest(failed)) /\ failed + (i - failed) = i
      BY <1>2, <2>1, <2>2
    <3>2. rest(failed)[i - failed] = x
      BY <1>2, <2>2, <3>1
    <3> QED BY <1>3, <3>1, <3>2 DEF Members
  <2> QED BY <2>1, <2>2 DEF Members
<1>6. \A s \in Sockets : wire'[s] = wires[s] \/ (ready = "open" /\ s = epoch)
  BY <1>1
<1> QED BY <1>3, <1>5, <1>6

\* A step that leaves the broker alone, or gives every entry up.
LEMMA WaitingKept ==
  ASSUME TypeOK, Waiting, UNCHANGED <<queue, call>> \/ RejectAll
  PROVE  Waiting'
<1>1. CASE UNCHANGED <<queue, call>>
  BY <1>1 DEF Waiting, InQueue
<1>2. CASE RejectAll
  <2>1. call \in [Requests -> States]
    BY DEF TypeOK, States
  <2>2. \A r \in Requests : call'[r] = IF InQueue(r) /\ call[r] = "pending" THEN "rejected" ELSE call[r]
    BY <1>2, <2>1, RejectTyped DEF RejectAll
  <2> QED BY <2>2 DEF Waiting
<1> QED BY <1>1, <1>2

\* Sends put entries on the wire of the socket of now alone, whatever a replaced one delivers.
\* No step turns an entry that drains into one that waits.
LEMMA TimedStep ==
  ASSUME TypeOK, \A r \in drain : call[r] \notin {"new", "pending"}, [Next]_vars
  PROVE  \A r \in drain' : call'[r] \notin {"new", "pending"}
<1> USE BrokerAssumption
<1>0. /\ call \in [Requests -> States] /\ drain \subseteq Requests
      /\ \A r \in Requests : call'[r] = "new" => call[r] = "new"
  BY NewStep DEF TypeOK, States
<1>s. ASSUME NEW p \in Paths, NEW q \in Seq(Requests), NEW wires \in [Sockets -> Seq(Requests)],
             NEW calls \in [Requests -> States], SendHead(p, q, wires, calls), drain' \subseteq drain,
             \A x \in drain : calls[x] # "pending"
      PROVE  \A r \in drain' : call'[r] \notin {"new", "pending"}
  <2>1. \A x \in Requests : call'[x] = "pending" => calls[x] = "pending"
    BY <1>s, SendHeadWaits
  <2> QED BY <1>0, <1>s, <2>1
<1>1. CASE \/ Start \/ StartFails \/ RetryFails \/ ReconnectTimer \/ ConnectWhileStopped \/ Connect
           \/ Open \/ BeginClose \/ UNCHANGED vars \/ \E s \in Sockets : AbandonedCloses(s)
  <2>1. UNCHANGED <<call, drain>>
    BY <1>1, Zenon DEF Start, StartFails, RetryFails, ReconnectTimer, ConnectWhileStopped, Connect, Open,
                       BeginClose, AbandonedCloses, broker, vars
  <2> QED BY <2>1
<1>2. CASE Stop \/ Closed
  BY <1>2 DEF Stop, Closed, RejectAll
<1>3. CASE \E s \in Sockets : Deliver(s) \/ FailFrame(s)
  <2>1. PICK s \in Sockets, isAnswer \in BOOLEAN : Frame(s, isAnswer)
    BY <1>3 DEF Deliver, FailFrame
  <2> DEFINE r == Head(wire[s])
             p == PathOf[r]
             rest == [wire EXCEPT ![s] = Tail(@)]
             owner == Head(queue[p])
             calls == IF call[owner] = "pending"
                      THEN [call EXCEPT ![owner] = Outcome(isAnswer, owner, r)] ELSE call
  <2>2. r \in Requests /\ Tail(wire[s]) \in Seq(Requests)
    BY <2>1, SequenceFacts DEF Frame, TypeOK
  <2>3. p \in Paths /\ queue[p] \in Seq(Requests) /\ rest \in [Sockets -> Seq(Requests)]
    BY <2>2 DEF TypeOK
  <2>4. CASE queue[p] = <<>>
    BY <2>1, <2>4 DEF Frame
  <2>5. CASE queue[p] # <<>>
    <3>1. SendHead(p, Tail(queue[p]), rest, calls) /\ drain' = drain \ {owner}
      BY <2>1, <2>5 DEF Frame
    <3>2. Tail(queue[p]) \in Seq(Requests)
      BY <2>3, <2>5, SequenceFacts
    <3>3. calls \in [Requests -> States] /\ \A x \in drain : calls[x] # "pending"
      BY <1>0 DEF Outcome, States
    <3> HIDE DEF p, rest, calls
    <3> QED BY <1>s, <2>3, <3>1, <3>2, <3>3
  <2> QED BY <2>4, <2>5
<1>4. CASE \E r \in Requests : Refuse(r) \/ TimeoutQueued(r) \/ TimeoutHead(r) \/ Retire(r)
  <2>1. PICK r \in Requests : Refuse(r) \/ TimeoutQueued(r) \/ TimeoutHead(r) \/ Retire(r)
    BY <1>4
  <2>2. CASE Refuse(r)
    BY <1>0, <2>2 DEF Refuse
  <2>3. CASE TimeoutQueued(r)
    BY <1>0, <2>3 DEF TimeoutQueued
  <2>4. CASE TimeoutHead(r)
    BY <1>0, <2>4 DEF TimeoutHead
  <2>5. CASE Retire(r)
    BY <1>0, <2>5 DEF Retire
  <2> QED BY <2>1, <2>2, <2>3, <2>4, <2>5
<1>5. CASE \E r \in Requests : Request(r)
  <2>1. PICK r \in Requests : Request(r)
    BY <1>5
  <2>2. call[r] = "new" /\ drain' = drain /\ \A x \in Requests : x # r => call'[x] = call[x]
    BY <1>0, <2>1, RequestEffect
  <2> QED BY <1>0, <2>2
<1>6. CASE \E r \in Requests : ReleaseStale(r)
  <2>1. PICK r \in Requests : ReleaseStale(r)
    BY <1>6
  <2>2. /\ SendHead(PathOf[r], Tail(queue[PathOf[r]]), wire, call) /\ drain' \subseteq drain
        /\ queue[PathOf[r]] # <<>>
    BY <2>1 DEF ReleaseStale, IsHead
  <2>3. /\ PathOf[r] \in Paths /\ Tail(queue[PathOf[r]]) \in Seq(Requests)
        /\ wire \in [Sockets -> Seq(Requests)]
    BY <2>2, QueueTyped DEF TypeOK
  <2> QED BY <1>0, <1>s, <2>2, <2>3
<1> QED BY <1>1, <1>2, <1>3, <1>4, <1>5, <1>6 DEF Next

\* An entry of a queue is its head, or in the rest.
LEMMA HeadOrTail ==
  ASSUME NEW q \in Seq(Requests), q # <<>>
  PROVE  \A x \in Members(q) : x = Head(q) \/ x \in Members(Tail(q))
<1>1. /\ Head(q) = q[1] /\ Len(q) \in Nat /\ Len(Tail(q)) = Len(q) - 1
      /\ \A i \in 1..Len(Tail(q)) : Tail(q)[i] = q[i + 1]
  BY SequenceFacts
<1>2. ASSUME NEW i \in 1..Len(q), i # 1 PROVE q[i] \in Members(Tail(q))
  <2>1. i - 1 \in 1..Len(Tail(q)) /\ (i - 1) + 1 = i
    BY <1>1, <1>2
  <2>2. Tail(q)[i - 1] = q[i]
    BY <1>1, <2>1
  <2> QED BY <2>1, <2>2 DEF Members
<1> QED BY <1>1, <1>2 DEF Members

LEMMA BaseStep == Base /\ [Next]_vars => Base'
<1> SUFFICES ASSUME Base, [Next]_vars PROVE Base'
  OBVIOUS
<1> USE BrokerAssumption
<1> DEFINE Timed == \A r \in drain : call[r] \notin {"new", "pending"}
           Drained == ready = "down" => \A p \in Paths : queue[p] = <<>>
           Unsent == /\ ready \in {"connecting", "open"} => epoch \in Sockets
                     /\ \A s \in Sockets : s > epoch => wire[s] = <<>>
<1>0. TypeOK /\ TypeOK' /\ Waiting /\ Timed /\ Drained /\ Unsent /\ call \in [Requests -> States]
  BY StepTyped DEF Base, TypeOK, States
<1>t. Timed'
  BY <1>0, TimedStep
<1>1. CASE \/ Start \/ StartFails \/ RetryFails \/ ReconnectTimer \/ ConnectWhileStopped
           \/ (\E s \in Sockets : AbandonedCloses(s)) \/ UNCHANGED vars
  <2>1. UNCHANGED <<ready, epoch, wire, queue, call>>
    BY <1>1, Zenon DEF Start, StartFails, RetryFails, ReconnectTimer, ConnectWhileStopped, AbandonedCloses,
                       socket, broker, vars
  <2> QED BY <1>0, <1>t, <2>1, WaitingKept DEF Base
<1>2. CASE Connect
  <2>1. ready' = "connecting" /\ epoch' = epoch + 1 /\ epoch' \in Sockets /\ UNCHANGED <<wire, queue, call>>
    BY <1>0, <1>2 DEF Connect, broker, TypeOK, Sockets
  <2> QED BY <1>0, <1>t, <2>1, WaitingKept DEF Base, TypeOK, Sockets
<1>3. CASE Open \/ BeginClose \/ \E r \in Requests : Retire(r)
  <2>1. /\ UNCHANGED <<epoch, wire, queue, call>> /\ (ready' = "down" => ready = "down")
        /\ (ready' \in {"connecting", "open"} => ready \in {"connecting", "open"})
    BY <1>3 DEF Open, BeginClose, Retire, broker
  <2> QED BY <1>0, <1>t, <2>1, WaitingKept DEF Base
<1>4. CASE Stop \/ Closed
  <2>1. ready' = "down" /\ UNCHANGED <<epoch, wire>> /\ RejectAll
    BY <1>4 DEF Stop, Closed, RejectAll
  <2>2. \A p \in Paths : queue'[p] = <<>>
    BY <2>1 DEF RejectAll
  <2> QED BY <1>0, <1>t, <2>1, <2>2, WaitingKept DEF Base
<1>5. CASE \E s \in Sockets : Deliver(s) \/ FailFrame(s)
  <2>1. PICK s \in Sockets, isAnswer \in BOOLEAN : Frame(s, isAnswer)
    BY <1>5 DEF Deliver, FailFrame
  <2> DEFINE r == Head(wire[s])
             p == PathOf[r]
             rest == [wire EXCEPT ![s] = Tail(@)]
             owner == Head(queue[p])
             calls == IF call[owner] = "pending"
                      THEN [call EXCEPT ![owner] = Outcome(isAnswer, owner, r)] ELSE call
  <2>2. r \in Requests /\ Tail(wire[s]) \in Seq(Requests) /\ wire[s] # <<>> /\ UNCHANGED <<ready, epoch>>
    BY <1>0, <2>1, SequenceFacts DEF Frame, TypeOK, socket
  <2>3. p \in Paths /\ queue[p] \in Seq(Requests) /\ rest \in [Sockets -> Seq(Requests)]
    BY <1>0, <2>2 DEF TypeOK
  <2>4. \A x \in Sockets : x > epoch => x # s /\ rest[x] = <<>>
    BY <1>0, <2>2 DEF TypeOK
  <2>5. CASE queue[p] = <<>>
    <3>1. UNCHANGED <<queue, call>> /\ wire' = rest
      BY <2>1, <2>5 DEF Frame
    <3> HIDE DEF rest
    <3> QED BY <1>0, <1>t, <2>2, <2>4, <3>1, WaitingKept DEF Base
  <2>6. CASE queue[p] # <<>>
    <3>1. SendHead(p, Tail(queue[p]), rest, calls)
      BY <2>1, <2>6 DEF Frame
    <3>2. /\ Tail(queue[p]) \in Seq(Requests) /\ owner \in Requests
          /\ \A x \in Members(queue[p]) : x = owner \/ x \in Members(Tail(queue[p]))
      BY <2>3, <2>6, SequenceFacts, HeadOrTail
    <3>3. calls \in [Requests -> States] /\ calls[owner] # "pending"
          /\ \A x \in Requests : calls[x] = "pending" => call[x] = "pending"
      BY <1>0, <3>2 DEF Outcome, States
    <3> HIDE DEF rest, calls
    <3>4. /\ \A x \in Requests : call'[x] = "pending" =>
               calls[x] = "pending" /\ (x \in Members(Tail(queue[p])) => x \in Members(queue'[p]))
          /\ \A o \in Paths : o # p => queue'[o] = queue[o]
          /\ \A x \in Sockets : wire'[x] = rest[x] \/ (ready = "open" /\ x = epoch)
      BY <1>0, <2>3, <3>1, <3>2, <3>3, SendHeadWaits
    <3> HIDE DEF p, owner
    <3>5. ASSUME NEW x \in Requests, call'[x] = "pending" PROVE InQueue(x)'
      <4>1. call[x] = "pending" /\ x # owner /\ PathOf[x] \in Paths /\ x \in Members(queue[PathOf[x]])
        BY <1>0, <3>3, <3>4, <3>5 DEF Waiting, InQueue
      <4>2. CASE PathOf[x] = p
        <5>1. x \in Members(Tail(queue[p]))
          BY <3>2, <4>1, <4>2
        <5> QED BY <3>4, <3>5, <4>2, <5>1 DEF InQueue
      <4>3. CASE PathOf[x] # p
        BY <3>4, <4>1, <4>3 DEF InQueue
      <4> QED BY <4>2, <4>3
    <3>6. Waiting'
      BY <3>5 DEF Waiting
    <3>7. ready = "down" => p \notin Paths
      BY <1>0, <2>6 DEF p
    <3>8. \A x \in Sockets : x > epoch => wire'[x] = <<>>
      <4>1. \A x \in Sockets : x > epoch => x # epoch
        BY <1>0 DEF TypeOK, Sockets
      <4> QED BY <2>4, <3>4, <4>1
    <3> QED BY <1>0, <1>t, <2>2, <2>3, <3>6, <3>7, <3>8 DEF Base
  <2> QED BY <2>5, <2>6
<1>6. CASE \E r \in Requests : Refuse(r) \/ TimeoutHead(r)
  <2>1. PICK r \in Requests : Refuse(r) \/ TimeoutHead(r)
    BY <1>6
  <2>2. UNCHANGED <<ready, epoch, wire, queue>> /\ call' = [call EXCEPT ![r] = "rejected"]
    BY <2>1 DEF Refuse, TimeoutHead, socket
  <2>3. Waiting'
    BY <1>0, <2>2 DEF Waiting, InQueue, TypeOK
  <2> QED BY <1>0, <1>t, <2>2, <2>3 DEF Base
<1>7. CASE \E r \in Requests : Request(r)
  <2>1. PICK r \in Requests : Request(r)
    BY <1>7
  <2> DEFINE p == PathOf[r]
  <2>2. /\ ready = "open" /\ UNCHANGED <<ready, epoch>> /\ epoch \in Sockets
        /\ \/ call' = [call EXCEPT ![r] = "rejected"] /\ UNCHANGED <<queue, wire>>
           \/ /\ call' = [call EXCEPT ![r] = "pending"]
              /\ queue' = [queue EXCEPT ![p] = Append(@, r)]
              /\ wire' = IF queue[p] = <<>> THEN [wire EXCEPT ![epoch] = Append(@, r)] ELSE wire
    BY <1>0, <2>1, RequestEffect DEF socket
  <2>3. \A s \in Sockets : s > epoch => wire'[s] = <<>>
    <3>1. \A s \in Sockets : s > epoch => wire[s] = <<>> /\ s # epoch
      BY <1>0 DEF TypeOK, Sockets
    <3>2. wire \in [Sockets -> Seq(Requests)]
      BY <1>0 DEF TypeOK
    <3> HIDE DEF p
    <3> QED BY <2>2, <3>1, <3>2
  <2>4. CASE call' = [call EXCEPT ![r] = "rejected"] /\ UNCHANGED <<queue, wire>>
    <3>1. Waiting'
      BY <1>0, <2>4 DEF Waiting, InQueue, TypeOK
    <3> QED BY <1>0, <1>t, <2>2, <2>3, <3>1 DEF Base
  <2>5. CASE call' = [call EXCEPT ![r] = "pending"] /\ queue' = [queue EXCEPT ![p] = Append(@, r)]
    <3>1. p \in Paths /\ queue[p] \in Seq(Requests)
      BY <1>0, QueueFacts
    <3>2. queue'[p] = Append(queue[p], r) /\ \A o \in Paths : o # p => queue'[o] = queue[o]
      BY <1>0, <2>5, <3>1 DEF TypeOK
    <3>3. r \in Members(queue'[p]) /\ \A x \in Members(queue[p]) : x \in Members(queue'[p])
      <4>1. /\ Len(queue[p]) \in Nat /\ Len(queue'[p]) = Len(queue[p]) + 1
            /\ queue'[p][Len(queue[p]) + 1] = r
            /\ \A i \in 1..Len(queue[p]) : queue'[p][i] = queue[p][i]
        BY <3>1, <3>2, SequenceFacts
      <4> HIDE DEF p
      <4> QED BY <4>1 DEF Members
    <3>4. ASSUME NEW x \in Requests, call'[x] = "pending" PROVE InQueue(x)'
      <4>1. CASE PathOf[x] = p
        <5>1. x = r \/ x \in Members(queue[p])
          BY <1>0, <2>5, <3>4, <4>1 DEF Waiting, InQueue, TypeOK
        <5> QED BY <3>3, <4>1, <5>1 DEF InQueue
      <4>2. CASE PathOf[x] # p
        <5>1. PathOf[x] \in Paths /\ x # r /\ x \in Members(queue[PathOf[x]])
          BY <1>0, <2>5, <3>4, <4>2 DEF Waiting, InQueue, TypeOK
        <5> QED BY <3>2, <4>2, <5>1 DEF InQueue
      <4> QED BY <4>1, <4>2
    <3>5. Waiting'
      BY <3>4 DEF Waiting
    <3> QED BY <1>0, <1>t, <2>2, <2>3, <3>5 DEF Base
  <2> QED BY <2>2, <2>4, <2>5
<1>8. CASE \E r \in Requests : TimeoutQueued(r)
  <2>1. PICK r \in Requests : TimeoutQueued(r)
    BY <1>8
  <2> DEFINE p == PathOf[r]
             q == queue[p]
             l == queue'[p]
  <2>2. UNCHANGED <<ready, epoch, wire>> /\ q # <<>>
    <3>1. l # <<>> /\ UNCHANGED <<ready, epoch, wire>>
      BY <1>0, <2>1, TimeoutEffect DEF socket
    <3>2. 1 \in 2..Len(q) \/ q # <<>>
      BY <1>0, <2>1, TimeoutEffect, QueueFacts
    <3> QED BY <3>1, <3>2
  <2>3. PICK at \in 2..Len(q) : q[at] = r /\ Removed(p, at)
    BY <1>0, <2>1, TimeoutEffect
  <2>4. /\ p \in Paths /\ Len(q) \in Nat /\ Len(l) = Len(q) - 1
        /\ \A i \in 1..Len(l) : l[i] = IF i < at THEN q[i] ELSE q[i + 1]
        /\ \A o \in Paths : o # p => queue'[o] = queue[o]
        /\ call' = [call EXCEPT ![r] = "rejected"]
    BY <1>0, <2>3, QueueFacts DEF Removed
  <2> HIDE DEF p, q, l
  <2>5. \A i \in 1..Len(q) : q[i] = r \/ q[i] \in Members(l)
    <3> SUFFICES ASSUME NEW i \in 1..Len(q), i # at PROVE q[i] \in Members(l)
      BY <2>3
    <3>1. CASE i < at
      <4>1. i \in 1..Len(l) /\ l[i] = q[i]
        BY <2>4, <3>1
      <4> QED BY <4>1 DEF Members
    <3>2. CASE ~(i < at)
      <4>1. i - 1 \in 1..Len(l) /\ ~(i - 1 < at) /\ (i - 1) + 1 = i
        BY <2>4, <3>2
      <4>2. l[i - 1] = q[i]
        BY <2>4, <4>1
      <4> QED BY <4>1, <4>2 DEF Members
    <3> QED BY <3>1, <3>2
  <2>6. ASSUME NEW x \in Requests, call'[x] = "pending" PROVE InQueue(x)'
    <3>1. x # r /\ x \in Members(queue[PathOf[x]]) /\ PathOf[x] \in Paths
      BY <1>0, <2>4, <2>6 DEF Waiting, InQueue, TypeOK
    <3>2. CASE PathOf[x] = p
      BY <2>5, <3>1, <3>2 DEF InQueue, Members, q, l
    <3>3. CASE PathOf[x] # p
      BY <2>4, <3>1, <3>3 DEF InQueue
    <3> QED BY <3>2, <3>3
  <2>7. Waiting'
    BY <2>6 DEF Waiting
  <2> QED BY <1>0, <1>t, <2>2, <2>4, <2>7 DEF Base, q
<1>9. CASE \E r \in Requests : ReleaseStale(r)
  <2>1. PICK r \in Requests : ReleaseStale(r)
    BY <1>9
  <2> DEFINE p == PathOf[r]
             q == queue[p]
  <2>2. /\ UNCHANGED <<ready, epoch>> /\ SendHead(p, Tail(q), wire, call)
        /\ r = Head(q) /\ q # <<>> /\ call[r] # "pending"
    BY <1>0, <2>1 DEF ReleaseStale, IsHead, socket
  <2>3. /\ p \in Paths /\ Tail(q) \in Seq(Requests) /\ q \in Seq(Requests)
        /\ wire \in [Sockets -> Seq(Requests)]
    BY <1>0, <2>2, QueueTyped DEF TypeOK
  <2>4. \A x \in Members(q) : x = r \/ x \in Members(Tail(q))
    BY <2>2, <2>3, HeadOrTail
  <2>5. /\ \A x \in Requests : call'[x] = "pending" =>
             call[x] = "pending" /\ (x \in Members(Tail(q)) => x \in Members(queue'[p]))
        /\ \A o \in Paths : o # p => queue'[o] = queue[o]
        /\ \A s \in Sockets : wire'[s] = wire[s] \/ (ready = "open" /\ s = epoch)
    BY <1>0, <2>2, <2>3, SendHeadWaits
  <2> HIDE DEF p, q
  <2>6. ASSUME NEW x \in Requests, call'[x] = "pending" PROVE InQueue(x)'
    <3>1. call[x] = "pending" /\ x # r /\ PathOf[x] \in Paths /\ x \in Members(queue[PathOf[x]])
      BY <1>0, <2>2, <2>5, <2>6 DEF Waiting, InQueue, BrokerAssumption
    <3>2. CASE PathOf[x] = p
      BY <2>4, <2>5, <2>6, <3>1, <3>2 DEF InQueue, q
    <3>3. CASE PathOf[x] # p
      BY <2>5, <3>1, <3>3 DEF InQueue
    <3> QED BY <3>2, <3>3
  <2>7. Waiting'
    BY <2>6 DEF Waiting
  <2>8. \A s \in Sockets : s > epoch => wire'[s] = <<>>
    <3>1. \A s \in Sockets : s > epoch => wire[s] = <<>> /\ s # epoch
      BY <1>0 DEF TypeOK, Sockets
    <3> QED BY <2>5, <3>1
  <2> QED BY <1>0, <1>t, <2>2, <2>3, <2>7, <2>8 DEF Base, q
<1> QED BY <1>1, <1>2, <1>3, <1>4, <1>5, <1>6, <1>7, <1>8, <1>9 DEF Next

\* While no socket is replaced the whole invariant holds, and when the last one has closed again.
LEMMA Inductive == Spec => [](Base /\ (~replaced => IInv))
<1>1. Init => Base /\ IInv
  <2> SUFFICES ASSUME Init PROVE Base
    BY InitIInv
  <2>1. TypeOK /\ Waiting
    BY InitIInv DEF IInv
  <2> QED BY <2>1 DEF Base, Init
<1>2. ASSUME Base, ~replaced => IInv, [Next]_vars, ~replaced' PROVE IInv'
  <2>0. Base' /\ TypeOK'
    BY <1>2, BaseStep DEF Base
  <2>1. CASE ~replaced
    <3>1. Lifecycle' /\ Idle'
      BY <1>2, <2>1, LifecycleStep, IdleStep DEF IInv
    <3>2. Queued'
      BY <1>2, <2>0, <2>1, QueuedStep
    <3>3. Owed'
      BY <1>2, <2>0, <2>1, <3>2, OwedStep
    <3> QED BY <2>0, <3>1, <3>2, <3>3 DEF Base, IInv
  <2>2. CASE replaced
    <3>1. ready' = "down" /\ alive' = {}
      <4>1. CASE Stop \/ Closed \/ Connect \/ \E s \in Sockets : AbandonedCloses(s)
        BY <1>2, <2>2, <4>1 DEF Stop, Closed, Connect, AbandonedCloses
      <4>2. CASE \/ Start \/ StartFails \/ RetryFails \/ ReconnectTimer \/ ConnectWhileStopped
                 \/ Open \/ BeginClose \/ UNCHANGED vars
                 \/ (\E s \in Sockets : Deliver(s) \/ FailFrame(s))
                 \/ \E r \in Requests : \/ Refuse(r) \/ Request(r) \/ TimeoutQueued(r)
                                        \/ TimeoutHead(r) \/ ReleaseStale(r) \/ Retire(r)
        <5>1. replaced' = replaced
          BY <4>2, Zenon DEF Start, StartFails, RetryFails, ReconnectTimer, ConnectWhileStopped, Open,
                             BeginClose, Deliver, FailFrame, Frame, Refuse, Request, TimeoutQueued,
                             TimeoutHead, ReleaseStale, Retire, socket, vars
        <5> QED BY <1>2, <2>2, <5>1
      <4> QED BY <1>2, <4>1, <4>2 DEF Next
    <3>2. \A p \in Paths : Len(queue'[p]) = 0 /\ queue'[p] = <<>>
      BY <2>0, <3>1, SequenceFacts DEF Base
    <3>3. Lifecycle' /\ Idle' /\ Queued' /\ Owed'
      BY <2>0, <3>1, <3>2 DEF Base, Lifecycle, Idle, Queued, Owed
    <3> QED BY <2>0, <3>3 DEF Base, IInv
  <2> QED BY <2>1, <2>2
<1>3. (Base /\ (~replaced => IInv)) /\ [Next]_vars => (Base /\ (~replaced => IInv))'
  BY <1>2, BaseStep
<1> QED BY <1>1, <1>3, PTL DEF Spec

\* A request keeps the slot of its path until its answer can no longer come, so no two answers
\* about one path are owed to the client, unless connect() replaced a socket in use and not all
\* have closed since.
THEOREM SlotKept == Spec => []SlotUntilDrained
<1>1. (~replaced => IInv) => SlotUntilDrained
  <2> SUFFICES ASSUME IInv, NEW s \in alive, NEW t \in alive,
                      NEW i \in 1..Len(wire[s]), NEW j \in 1..Len(wire[t]),
                      PathOf[wire[s][i]] = PathOf[wire[t][j]]
               PROVE  s = t /\ i = j
    BY DEF SlotUntilDrained, OneAnswerPerPath
  <2>1. s = epoch /\ t = epoch /\ ready \in {"connecting", "open"} /\ epoch \in Sockets
    BY DEF IInv, Lifecycle
  <2>2. ready # "connecting"
    BY <2>1, SequenceFacts DEF IInv, Owed
  <2> QED BY <2>1, <2>2 DEF IInv, Owed
<1> QED BY <1>1, Inductive, PTL
-----------------------------------------------------------------------------
(* The refinement of CorrelatedCalls.                                        *)

\* Call x is ahead of call r in the queue of r's path.
Before(x, r) ==
  \E j, k \in 1..Len(queue[PathOf[r]]) :
    j < k /\ queue[PathOf[r]][j] = x /\ queue[PathOf[r]][k] = r

Ahead ==
  [r \in Requests |-> IF call[r] = "pending" THEN {x \in Requests : call[x] = "pending" /\ Before(x, r)} ELSE {}]

Mapped ==
  [r \in Requests |->
    IF call[r] = "pending"
    THEN LET q == queue[PathOf[r]]
         IN {q[i] : i \in {j \in 1..Len(q) :
               call[q[j]] = "pending" /\ \E k \in 1..Len(q) : j < k /\ q[k] = r}}
    ELSE {}]

\* The refinement mapping, without the positions of the queues.
LEMMA MappedIs == TypeOK => Mapped = Ahead
<1> SUFFICES ASSUME TypeOK, NEW r \in Requests
             PROVE  LET q == queue[PathOf[r]] IN
                    {q[i] : i \in {j \in 1..Len(q) :
                       call[q[j]] = "pending" /\ \E k \in 1..Len(q) : j < k /\ q[k] = r}}
                    = {x \in Requests : call[x] = "pending" /\ Before(x, r)}
  BY DEF Ahead, Mapped
<1>1. \A i \in 1..Len(queue[PathOf[r]]) : queue[PathOf[r]][i] \in Requests
  BY BrokerAssumption, QueueFacts
<1> QED BY <1>1 DEF Before

LEMMA MappedIsNext == TypeOK' => Mapped' = Ahead'
<1>1. (TypeOK => Mapped = Ahead)'
  BY MappedIs, PTL
<1> QED BY <1>1

\* A step that only settles pending calls, answering the first of a path at most, and leaves the
\* order of the others alone, is a step of CorrelatedCalls.
LEMMA SettleStep ==
  ASSUME TypeOK, TypeOK',
         \A r \in Requests : \/ call'[r] = call[r]
                             \/ call[r] = "pending" /\ call'[r] \in {"answered", "rejected"},
         \A r, x \in Requests :
           call[r] = "pending" /\ call'[r] = "answered" /\ call[x] = "pending" => ~Before(x, r),
         \A r, x \in Requests :
           /\ call[r] = "pending" /\ call'[r] = "answered"
           /\ call[x] = "pending" /\ call'[x] = "answered"
           /\ PathOf[r] = PathOf[x]
           => r = x,
         \A r, x \in Requests : call'[r] = "pending" /\ call'[x] = "pending" => (Before(x, r)' <=> Before(x, r))
  PROVE  Calls!Next
<1>0. PICK answered, rejected :
        /\ answered = {r \in Requests : call[r] = "pending" /\ call'[r] = "answered"}
        /\ rejected = {r \in Requests : call[r] = "pending" /\ call'[r] = "rejected"}
  OBVIOUS
<1>1. answered \in SUBSET Calls!Pending /\ rejected \in SUBSET Calls!Pending
  BY <1>0 DEF Calls!Pending
<1>2. answered \cap rejected = {}
  BY <1>0
<1>3. \A r \in answered : Ahead[r] = {}
  BY <1>0 DEF Ahead
<1>4. \A r, x \in answered : PathOf[r] = PathOf[x] => r = x
  BY <1>0
<1>5. call' = [r \in Requests |-> IF r \in answered THEN "answered"
                                  ELSE IF r \in rejected THEN "rejected" ELSE call[r]]
  BY <1>0 DEF TypeOK
<1>6. Ahead' = [r \in Requests |-> IF r \in answered \cup rejected THEN {}
                                   ELSE Ahead[r] \ (answered \cup rejected)]
  <2>1. \A r \in Requests : (call'[r] = "pending") <=> (call[r] = "pending" /\ r \notin answered \cup rejected)
    BY <1>0
  <2>2. \A r \in Requests : (IF call'[r] = "pending" THEN {x \in Requests : call'[x] = "pending" /\ Before(x, r)'} ELSE {})
          = IF r \in answered \cup rejected THEN {} ELSE Ahead[r] \ (answered \cup rejected)
    <3> TAKE r \in Requests
    <3>1. CASE call'[r] = "pending"
      <4>1. Ahead[r] = {x \in Requests : call[x] = "pending" /\ Before(x, r)}
        BY <2>1, <3>1 DEF Ahead
      <4>2. {x \in Requests : call'[x] = "pending" /\ Before(x, r)'} = Ahead[r] \ (answered \cup rejected)
        BY <2>1, <3>1, <4>1
      <4> QED BY <2>1, <3>1, <4>2
    <3>2. CASE call'[r] # "pending"
      BY <2>1, <3>2 DEF Ahead
    <3> QED BY <3>1, <3>2
  <2> QED BY <2>2 DEF Ahead
<1>7. Calls!Settle(answered, rejected)
  BY <1>2, <1>3, <1>4, <1>5, <1>6, MappedIs, MappedIsNext DEF Calls!Settle, Mapped
<1>8. \E a, b \in SUBSET Calls!Pending : Calls!Settle(a, b)
  BY <1>1, <1>7
<1> QED BY <1>8 DEF Calls!Next

LEMMA ReleasedSettles ==
  ASSUME IInv, TypeOK', NEW p \in Paths, NEW n \in 1..Len(queue[p]), Released(p, n)
  PROVE  Calls!Next
<1> USE BrokerAssumption
<1> DEFINE q == queue[p]
           l == queue'[p]
<1>0. TypeOK
  BY DEF IInv
<1>1. /\ Len(q) \in Nat /\ Len(l) = Len(q) - n /\ n \in Nat
      /\ \A i \in 1..Len(l) : i + n \in 1..Len(q) /\ l[i] = q[i + n]
      /\ \A o \in Paths : o # p => queue'[o] = queue[o]
  BY QueueFacts DEF Released, IInv
<1>2. \A i \in 1..n : i \in 1..Len(q) /\ call'[q[i]] \in {"answered", "rejected"}
  BY <1>1 DEF Released
<1>3. \A r \in Requests : \/ call'[r] = call[r]
                          \/ call[r] = "pending" /\ call'[r] \in {"answered", "rejected"}
  BY DEF Released
<1>4. \A r \in Requests : call[r] = "pending" /\ call'[r] = "answered" => r = q[1]
  BY DEF Released
<1>5. \A r, x \in Requests :
        call[r] = "pending" /\ call'[r] = "answered" /\ call[x] = "pending" => ~Before(x, r)
  <2> SUFFICES ASSUME NEW r \in Requests, NEW x \in Requests, r = q[1], Before(x, r) PROVE FALSE
    BY <1>4
  <2>1. 1 \in 1..Len(q) /\ PathOf[r] = p /\ \A j \in 1..Len(q) : q[j] = r => j = 1
    BY <1>1 DEF IInv, Queued
  <2> QED BY <2>1 DEF Before
<1>6. \A r, x \in Requests : call'[r] = "pending" /\ call'[x] = "pending" => (Before(x, r)' <=> Before(x, r))
  <2> SUFFICES ASSUME NEW r \in Requests, NEW x \in Requests, call'[r] = "pending", call'[x] = "pending"
               PROVE  Before(x, r)' <=> Before(x, r)
    OBVIOUS
  <2>1. CASE PathOf[r] # p
    <3>1. queue'[PathOf[r]] = queue[PathOf[r]]
      BY <1>1, <2>1, QueueFacts DEF IInv
    <3> QED BY <3>1 DEF Before
  <2>2. CASE PathOf[r] = p
    <3>1. ASSUME Before(x, r)' PROVE Before(x, r)
      <4>1. PICK j, k \in 1..Len(l) : j < k /\ l[j] = x /\ l[k] = r
        BY <2>2, <3>1 DEF Before
      <4>2. j + n \in 1..Len(q) /\ k + n \in 1..Len(q) /\ j + n < k + n /\ q[j + n] = x /\ q[k + n] = r
        BY <1>1, <4>1
      <4> QED BY <2>2, <4>2 DEF Before
    <3>2. ASSUME Before(x, r) PROVE Before(x, r)'
      <4>1. PICK j, k \in 1..Len(q) : j < k /\ q[j] = x /\ q[k] = r
        BY <2>2, <3>2 DEF Before
      <4>2. ~(j \in 1..n) /\ ~(k \in 1..n)
        BY <1>2, <4>1
      <4>3. /\ j - n \in 1..Len(l) /\ k - n \in 1..Len(l) /\ j - n < k - n
            /\ (j - n) + n = j /\ (k - n) + n = k
        BY <1>1, <4>1, <4>2
      <4>4. l[j - n] = x /\ l[k - n] = r
        BY <1>1, <4>1, <4>3
      <4> QED BY <2>2, <4>3, <4>4 DEF Before
    <3> QED BY <3>1, <3>2
  <2> QED BY <2>1, <2>2
<1> HIDE DEF q, l
<1> QED BY <1>0, <1>3, <1>4, <1>5, <1>6, SettleStep

LEMMA RemovedSettles ==
  ASSUME IInv, TypeOK', NEW p \in Paths, NEW at \in 2..Len(queue[p]), Removed(p, at)
  PROVE  Calls!Next
<1> USE BrokerAssumption
<1> DEFINE q == queue[p]
           l == queue'[p]
<1>0. TypeOK
  BY DEF IInv
<1>1. /\ Len(q) \in Nat /\ Len(l) = Len(q) - 1 /\ at \in 1..Len(q)
      /\ \A i \in 1..Len(l) : l[i] = IF i < at THEN q[i] ELSE q[i + 1]
      /\ \A o \in Paths : o # p => queue'[o] = queue[o]
      /\ q[at] \in Requests /\ call[q[at]] = "pending" /\ call' = [call EXCEPT ![q[at]] = "rejected"]
  BY QueueFacts DEF Removed, IInv
<1>2. /\ call'[q[at]] = "rejected"
      /\ \A r \in Requests : r # q[at] => call'[r] = call[r]
  BY <1>1 DEF IInv, TypeOK
<1>3. \A r, x \in Requests : call'[r] = "pending" /\ call'[x] = "pending" => (Before(x, r)' <=> Before(x, r))
  <2> SUFFICES ASSUME NEW r \in Requests, NEW x \in Requests, call'[r] = "pending", call'[x] = "pending"
               PROVE  Before(x, r)' <=> Before(x, r)
    OBVIOUS
  <2>1. CASE PathOf[r] # p
    <3>1. queue'[PathOf[r]] = queue[PathOf[r]]
      BY <1>1, <2>1, QueueFacts DEF IInv
    <3> QED BY <3>1 DEF Before
  <2>2. CASE PathOf[r] = p
    <3> DEFINE Old(i) == IF i < at THEN i ELSE i + 1
               New(i) == IF i < at THEN i ELSE i - 1
    <3>1. ASSUME Before(x, r)' PROVE Before(x, r)
      <4>1. PICK j, k \in 1..Len(l) : j < k /\ l[j] = x /\ l[k] = r
        BY <2>2, <3>1 DEF Before
      <4>2. Old(j) \in 1..Len(q) /\ Old(k) \in 1..Len(q) /\ Old(j) < Old(k) /\ q[Old(j)] = x /\ q[Old(k)] = r
        <5>1. \A i \in 1..Len(l) : Old(i) \in 1..Len(q) /\ q[Old(i)] = l[i]
          BY <1>1
        <5>2. j \in Nat /\ k \in Nat /\ at \in Nat /\ Old(j) < Old(k)
          BY <1>1, <4>1
        <5> HIDE DEF Old
        <5> QED BY <4>1, <5>1, <5>2
      <4> HIDE DEF Old
      <4> QED BY <2>2, <4>2 DEF Before
    <3>2. ASSUME Before(x, r) PROVE Before(x, r)'
      <4>1. PICK j, k \in 1..Len(q) : j < k /\ q[j] = x /\ q[k] = r
        BY <2>2, <3>2 DEF Before
      <4>2. j # at /\ k # at
        BY <1>2, <4>1
      <4>3. New(j) \in 1..Len(l) /\ New(k) \in 1..Len(l) /\ New(j) < New(k) /\ l[New(j)] = x /\ l[New(k)] = r
        <5>1. \A i \in 1..Len(q) : i # at => New(i) \in 1..Len(l) /\ l[New(i)] = q[i]
          <6> TAKE i \in 1..Len(q)
          <6>1. CASE i < at
            BY <1>1, <6>1
          <6>2. CASE i > at
            <7>1. New(i) = i - 1 /\ i - 1 \in 1..Len(l) /\ ~(i - 1 < at) /\ (i - 1) + 1 = i
              BY <1>1, <6>2
            <7> QED BY <1>1, <7>1
          <6>3. i < at \/ i = at \/ i > at
            BY <1>1
          <6> QED BY <6>1, <6>2, <6>3
        <5>2. New(j) < New(k)
          BY <1>1, <4>1, <4>2
        <5> QED BY <4>1, <4>2, <5>1, <5>2
      <4> HIDE DEF New
      <4> QED BY <2>2, <4>3 DEF Before
    <3> QED BY <3>1, <3>2
  <2> QED BY <2>1, <2>2
<1> HIDE DEF q, l
<1>4. \A r \in Requests : \/ call'[r] = call[r]
                          \/ call[r] = "pending" /\ call'[r] \in {"rejected"}
  BY <1>1, <1>2
<1> QED BY <1>0, <1>3, <1>4, SettleStep

LEMMA StepSettles ==
  ASSUME IInv, TypeOK', [Next]_vars
  PROVE  Calls!Next
<1> USE BrokerAssumption
<1>0. TypeOK
  BY DEF IInv
<1>1. CASE UNCHANGED <<queue, call>>
  <2>1. \A r, x \in Requests : Before(x, r)' <=> Before(x, r)
    BY <1>1 DEF Before
  <2> QED BY <1>0, <1>1, <2>1, SettleStep
<1>2. CASE \/ Start \/ StartFails \/ RetryFails \/ ReconnectTimer \/ ConnectWhileStopped \/ Connect
           \/ Open \/ BeginClose \/ UNCHANGED vars
           \/ (\E s \in Sockets : AbandonedCloses(s)) \/ \E r \in Requests : Retire(r)
  <2>1. UNCHANGED <<queue, call>>
    BY <1>2, Zenon DEF Start, StartFails, RetryFails, ReconnectTimer, ConnectWhileStopped, Connect, Open,
                       BeginClose, AbandonedCloses, Retire, socket, broker, vars
  <2> QED BY <1>1, <2>1
<1>3. CASE Stop \/ Closed
  <2>1. RejectAll
    BY <1>3 DEF Stop, Closed
  <2>2. \A r \in Requests : call'[r] = IF InQueue(r) /\ call[r] = "pending" THEN "rejected" ELSE call[r]
    <3>1. call \in [Requests -> States]
      BY DEF IInv, TypeOK, States
    <3> QED BY <2>1, <3>1, RejectTyped DEF RejectAll
  <2>3. \A r \in Requests : call'[r] # "pending"
    BY <2>2 DEF IInv, Waiting
  <2> QED BY <1>0, <2>2, <2>3, SettleStep
<1>4. CASE \E s \in Sockets : Deliver(s) \/ FailFrame(s)
  BY <1>4, FrameEffect, ReleasedSettles DEF Deliver, FailFrame
<1>5. CASE \E r \in Requests : TimeoutQueued(r)
  BY <1>0, <1>5, TimeoutEffect, RemovedSettles, QueueFacts
<1>6. CASE \E r \in Requests : TimeoutHead(r)
  <2>1. PICK r \in Requests : TimeoutHead(r)
    BY <1>6
  <2>2. /\ queue' = queue /\ call[r] = "pending" /\ call'[r] = "rejected"
        /\ \A x \in Requests : x # r => call'[x] = call[x]
    BY <1>0, <2>1 DEF TimeoutHead, TypeOK
  <2>3. \A x, y \in Requests : Before(x, y)' <=> Before(x, y)
    BY <2>2 DEF Before
  <2> QED BY <1>0, <2>2, <2>3, SettleStep
<1>7. CASE \E r \in Requests : ReleaseStale(r)
  BY <1>7, NothingStale
<1>8. ASSUME NEW r \in Requests, call[r] = "new", UNCHANGED queue, call' = [call EXCEPT ![r] = "rejected"]
      PROVE  Calls!Next
  <2>1. Ahead' = Ahead
    <3>1. \A x \in Requests : call'[x] = "pending" <=> call[x] = "pending"
      BY <1>0, <1>8 DEF TypeOK
    <3>2. \A x, y \in Requests : Before(x, y)' <=> Before(x, y)
      BY <1>8 DEF Before
    <3> QED BY <3>1, <3>2 DEF Ahead
  <2>2. Calls!Refuse(r)
    BY <1>0, <1>8, <2>1, MappedIs, MappedIsNext DEF Calls!Refuse, Mapped
  <2> QED BY <2>2 DEF Calls!Next
<1>9. CASE \E r \in Requests : Refuse(r)
  BY <1>8, <1>9 DEF Refuse
<1>10. CASE \E r \in Requests : Request(r)
  <2>1. PICK r \in Requests : Request(r)
    BY <1>10
  <2> DEFINE p == PathOf[r]
  <2>2. /\ call[r] = "new"
        /\ \/ call' = [call EXCEPT ![r] = "rejected"] /\ UNCHANGED queue
           \/ /\ call' = [call EXCEPT ![r] = "pending"]
              /\ queue' = [queue EXCEPT ![p] = Append(@, r)]
    BY <1>0, <2>1, RequestEffect
  <2>3. CASE call' = [call EXCEPT ![r] = "rejected"] /\ UNCHANGED queue
    BY <1>8, <2>2, <2>3
  <2>4. CASE /\ call' = [call EXCEPT ![r] = "pending"]
             /\ queue' = [queue EXCEPT ![p] = Append(@, r)]
    <3> DEFINE q == queue[p]
               l == queue'[p]
    <3>1. /\ p \in Paths /\ Len(q) \in Nat /\ Len(l) = Len(q) + 1 /\ l[Len(q) + 1] = r
          /\ \A i \in 1..Len(q) : l[i] = q[i] /\ q[i] \in Requests
          /\ \A o \in Paths : o # p => queue'[o] = queue[o]
      <4>1. p \in Paths /\ q \in Seq(Requests)
        BY <1>0, QueueFacts
      <4>2. l = Append(q, r) /\ \A o \in Paths : o # p => queue'[o] = queue[o]
        BY <1>0, <2>4, <4>1 DEF TypeOK
      <4> QED BY <4>1, <4>2, SequenceFacts
    <3>2. call'[r] = "pending" /\ \A x \in Requests : x # r => call'[x] = call[x]
      BY <1>0, <2>4 DEF TypeOK
    <3>3. \A i \in 1..Len(q) : q[i] # r /\ PathOf[q[i]] = p
      BY <2>2, <3>1 DEF IInv, Queued
    <3>4. \A x, y \in Requests : x # r /\ y # r => (Before(x, y)' <=> Before(x, y))
      <4> SUFFICES ASSUME NEW x \in Requests, NEW y \in Requests, x # r, y # r
                   PROVE  Before(x, y)' <=> Before(x, y)
        OBVIOUS
      <4>1. CASE PathOf[y] # p
        <5>1. queue'[PathOf[y]] = queue[PathOf[y]]
          BY <1>0, <3>1, <4>1, QueueFacts
        <5> QED BY <5>1 DEF Before
      <4>2. CASE PathOf[y] = p
        <5>1. \A i \in 1..Len(l) : l[i] # r => i \in 1..Len(q) /\ l[i] = q[i]
          BY <3>1
        <5>2. \A i \in 1..Len(q) : i \in 1..Len(l)
          BY <3>1
        <5>3. Before(x, y) <=> \E j, k \in 1..Len(q) : j < k /\ q[j] = x /\ q[k] = y
          BY <4>2 DEF Before
        <5>4. Before(x, y)' <=> \E j, k \in 1..Len(l) : j < k /\ l[j] = x /\ l[k] = y
          BY <4>2 DEF Before
        <5> HIDE DEF q, l
        <5> QED BY <3>1, <5>1, <5>2, <5>3, <5>4
      <4> QED BY <4>1, <4>2
    <3>5. \A y \in Requests : ~Before(r, y)'
      <4> SUFFICES ASSUME NEW y \in Requests, Before(r, y)' PROVE FALSE
        OBVIOUS
      <4>1. PICK j, k \in 1..Len(queue'[PathOf[y]]) :
              j < k /\ queue'[PathOf[y]][j] = r /\ queue'[PathOf[y]][k] = y
        BY DEF Before
      <4>2. CASE PathOf[y] = p
        BY <3>1, <3>3, <4>1, <4>2
      <4>3. CASE PathOf[y] # p
        <5>1. queue'[PathOf[y]] = queue[PathOf[y]] /\ PathOf[y] \in Paths
          BY <1>0, <3>1, <4>3, QueueFacts
        <5> QED BY <4>1, <4>3, <5>1 DEF IInv, Queued
      <4> QED BY <4>2, <4>3
    <3>6. \A x \in Requests :
            x \in Calls!Pending /\ PathOf[x] = PathOf[r] <=> call'[x] = "pending" /\ Before(x, r)'
      <4> TAKE x \in Requests
      <4>1. ASSUME x \in Calls!Pending, PathOf[x] = p
            PROVE  call'[x] = "pending" /\ Before(x, r)'
        <5>1. call[x] = "pending" /\ x # r
          BY <2>2, <4>1 DEF Calls!Pending
        <5>2. PICK j \in 1..Len(q) : q[j] = x
          BY <1>0, <4>1, <5>1, QueueFacts DEF IInv, Waiting
        <5>3. /\ j \in 1..Len(l) /\ Len(q) + 1 \in 1..Len(l) /\ j < Len(q) + 1
              /\ l[j] = x /\ l[Len(q) + 1] = r
          BY <3>1, <5>2
        <5>4. Before(x, r)'
          BY <5>3 DEF Before
        <5> QED BY <3>2, <5>1, <5>4
      <4>2. ASSUME call'[x] = "pending", Before(x, r)'
            PROVE  x \in Calls!Pending /\ PathOf[x] = p
        <5>1. x # r
          BY <3>5, <4>2
        <5>2. PICK j, k \in 1..Len(l) : j < k /\ l[j] = x /\ l[k] = r
          BY <4>2 DEF Before
        <5>3. j \in 1..Len(q) /\ q[j] = x
          BY <3>1, <5>2
        <5> QED BY <3>2, <3>3, <4>2, <5>1, <5>3 DEF Calls!Pending
      <4> QED BY <4>1, <4>2
    <3> HIDE DEF q, l
    <3>7. Ahead' = [Ahead EXCEPT ![r] = {x \in Calls!Pending : PathOf[x] = PathOf[r]}]
      <4>1. Calls!Pending \subseteq Requests
        BY DEF Calls!Pending
      <4>2. \A y \in Requests : Ahead'[y] = IF y = r THEN {x \in Calls!Pending : PathOf[x] = PathOf[r]} ELSE Ahead[y]
        <5> TAKE y \in Requests
        <5>1. CASE y = r
          BY <3>2, <3>6, <4>1, <5>1 DEF Ahead
        <5>2. CASE y # r
          <6>1. call'[y] = call[y]
            BY <3>2, <5>2
          <6>2. \A x \in Requests : call'[x] = "pending" /\ Before(x, y)' <=> call[x] = "pending" /\ Before(x, y)
            BY <2>2, <3>2, <3>4, <3>5, <5>2
          <6> QED BY <5>2, <6>1, <6>2 DEF Ahead
        <5> QED BY <5>1, <5>2
      <4> QED BY <4>2 DEF Ahead
    <3>8. Calls!Call(r)
      BY <1>0, <2>2, <2>4, <3>7, MappedIs, MappedIsNext DEF Calls!Call, Mapped
    <3> QED BY <3>8 DEF Calls!Next
  <2> QED BY <2>2, <2>3, <2>4
<1> QED BY <1>2, <1>3, <1>4, <1>5, <1>6, <1>7, <1>9, <1>10 DEF Next

\* Whatever the sockets, timers, failed sends and late frames do, a caller sees what
\* CorrelatedCalls promises, the answer to its own call, in order, or one rejection, in every
\* step that is not taken while a socket is replaced.
THEOREM CallsImplemented == Spec => ImplementsCalls
<1>1. Init => Calls!Init
  <2> SUFFICES ASSUME Init PROVE Calls!Init
    OBVIOUS
  <2>1. TypeOK
    BY InitTyped
  <2>2. Ahead = [r \in Requests |-> {}]
    BY DEF Ahead, Init
  <2> QED BY <2>1, <2>2, MappedIs DEF Init, Calls!Init, Mapped
<1>2. Base' /\ (~replaced => IInv) /\ [Next]_vars => [~replaced => [Calls!Next]_(Calls!vars)]_vars
  BY StepSettles DEF Base
<1> QED BY <1>1, <1>2, Inductive, PTL DEF Spec, ImplementsCalls
===============================================================================
