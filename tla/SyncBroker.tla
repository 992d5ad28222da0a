------------------------------ MODULE SyncBroker ------------------------------
(***************************************************************************)
(* SyncRequestBroker (src/sync-broker.ts) together with the WebSocket      *)
(* lifecycle of SyncEngine (src/sync-engine.ts) that feeds it.  A response *)
(* frame names a path, not a request: the broker keeps one FIFO per path,  *)
(* sends only the head, and takes the next frame of the path for the       *)
(* head's answer.  The server (external) answers the requests of a socket  *)
(* in the order they were sent, so wire[s] is the sequence of requests     *)
(* whose answer has not reached the client yet.                            *)
(*                                                                         *)
(* Left out: the payload of a frame, frames of other kinds (they take no   *)
(* slot), and sync_start messages above the 50 MiB limit of send().        *)
(***************************************************************************)
EXTENDS Naturals, Sequences

CONSTANTS
  Paths, Requests,  \* documents, and calls of requestSyncStart, each made at most once
  PathOf,           \* the path each call asks about
  MaxSockets,       \* bound on the sockets ever opened
  MaxStarts         \* bound on the start() calls that have not connected yet

ASSUME BrokerAssumption ==
  /\ PathOf \in [Requests -> Paths]
  /\ MaxSockets \in Nat /\ MaxStarts \in Nat

Sockets == 1..MaxSockets

VARIABLES
  stopped,   \* this.stopped
  starting,  \* start() calls between their first await and connect()'s socket
  retrying,  \* fired reconnect timers between auth() and connect()'s socket
  timer,     \* this.reconnectTimer is armed
  ready,     \* readyState of this.ws; "down" when it is null or its onclose has run
  epoch,     \* this.socketEpoch, which is also the identity of this.ws
  alive,     \* the sockets that still deliver frames
  replaced,  \* history: connect() replaced a socket in use, and not all have closed since
  wire,      \* per socket: requests sent and not yet answered, in order
  queue,     \* broker.queues
  stamp,     \* entry.epoch
  call,      \* the caller's promise
  drain      \* requests whose drainTimer is armed

engine == <<stopped, starting, retrying, timer>>
socket == <<ready, epoch, alive, replaced>>
broker == <<wire, queue, stamp, call, drain>>
vars == <<stopped, starting, retrying, timer, ready, epoch, alive, replaced, wire, queue, stamp, call,
          drain>>

TypeOK ==
  /\ stopped \in BOOLEAN /\ timer \in BOOLEAN
  /\ starting \in Nat /\ retrying \in Nat
  /\ ready \in {"down", "connecting", "open", "closing"}
  /\ epoch \in 0..MaxSockets
  /\ alive \in SUBSET Sockets
  /\ replaced \in BOOLEAN
  /\ wire \in [Sockets -> Seq(Requests)]
  /\ queue \in [Paths -> Seq(Requests)]
  /\ stamp \in [Requests -> 0..MaxSockets]
  /\ call \in [Requests -> {"new", "pending", "answered", "mismatched", "rejected"}]
  /\ drain \in SUBSET Requests

Members(q) == {q[i] : i \in 1..Len(q)}
InQueue(r) == r \in Members(queue[PathOf[r]])
IsHead(r) == queue[PathOf[r]] # <<>> /\ Head(queue[PathOf[r]]) = r

\* rejectEntry, for every entry of S that still has a waiter.
Reject(calls, S) ==
  [r \in Requests |-> IF r \in S /\ calls[r] = "pending" THEN "rejected" ELSE calls[r]]

\* Mutant: owners that already timed out are left in their queues.
RejectAllWaiters ==
  /\ call' = Reject(call, {r \in Requests : InQueue(r)})
  /\ queue' = [p \in Paths |->
       IF queue[p] # <<>> /\ call[Head(queue[p])] # "pending" THEN <<Head(queue[p])>> ELSE <<>>]
  /\ drain' = {}
  /\ UNCHANGED <<wire, stamp>>

\* rejectAll(): every promise is rejected and every queue is gone, whatever is on the wire.
RejectAll ==
  /\ call' = Reject(call, {r \in Requests : InQueue(r)})
  /\ queue' = [p \in Paths |-> <<>>]
  /\ drain' = {}
  /\ UNCHANGED <<wire, stamp>>

\* sendHead(): the first entry whose send does not throw; send() drops it unless OPEN.
SendHead(p, q, wires, calls) ==
  \E failed \in 0..Len(q) :
    LET rest == SubSeq(q, failed + 1, Len(q)) IN
    /\ queue' = [queue EXCEPT ![p] = rest]
    /\ call' = Reject(calls, {q[i] : i \in 1..failed})
    /\ wire' = IF rest # <<>> /\ ready = "open"
               THEN [wires EXCEPT ![epoch] = Append(@, Head(rest))] ELSE wires

-------------------------------------------------------------------------------
Init ==
  /\ stopped = TRUE /\ starting = 0 /\ retrying = 0 /\ timer = FALSE
  /\ ready = "down" /\ epoch = 0 /\ alive = {} /\ replaced = FALSE
  /\ wire = [s \in Sockets |-> <<>>]
  /\ queue = [p \in Paths |-> <<>>]
  /\ stamp = [r \in Requests |-> 0]
  /\ call = [r \in Requests |-> "new"]
  /\ drain = {}

(* The engine and its socket.                                               *)

\* start(), as its callers use it: on a fresh engine, or after stop().  An attempt to connect
\* that stop() did not end may still be in flight.
Start ==
  /\ stopped
  /\ starting < MaxStarts
  /\ stopped' = FALSE
  /\ starting' = starting + 1
  /\ UNCHANGED <<retrying, timer, socket, broker>>

\* A socket replaced by another one is not closed here: only this.ws is.
Stop ==
  /\ ~stopped
  /\ stopped' = TRUE
  /\ timer' = FALSE
  /\ ready' = "down"
  /\ alive' = alive \ {epoch}
  /\ replaced' = (replaced /\ alive' # {})
  /\ RejectAll
  /\ UNCHANGED <<starting, retrying, epoch>>

\* auth() or connect() rejects: start() gives up, a reconnect is scheduled again.
StartFails ==
  /\ starting > 0
  /\ starting' = starting - 1
  /\ UNCHANGED <<stopped, retrying, timer, socket, broker>>

RetryFails ==
  /\ retrying > 0
  /\ retrying' = retrying - 1
  /\ timer' = TRUE
  /\ UNCHANGED <<stopped, starting, socket, broker>>

ReconnectTimer ==
  /\ timer
  /\ timer' = FALSE
  /\ retrying' = retrying + 1
  /\ UNCHANGED <<stopped, starting, socket, broker>>

\* Mutant: every connect() is taken for the one of start().
AttemptOfStart ==
  /\ starting > 0 \/ retrying > 0
  /\ starting' = starting - 1
  /\ UNCHANGED retrying

\* connect() resumes after getServerFeatures().
Attempt ==
  \/ starting > 0 /\ starting' = starting - 1 /\ UNCHANGED retrying
  \/ retrying > 0 /\ retrying' = retrying - 1 /\ UNCHANGED starting

ConnectWhileStopped ==
  /\ stopped
  /\ Attempt
  /\ UNCHANGED <<stopped, timer, socket, broker>>

Connect ==
  /\ ~stopped
  /\ Attempt
  /\ epoch < MaxSockets
  /\ epoch' = epoch + 1
  /\ ready' = "connecting"
  /\ alive' = alive \cup {epoch'}
  /\ replaced' = (replaced \/ ready # "down")
  /\ UNCHANGED <<stopped, timer, broker>>

Open ==
  /\ ready = "connecting"
  /\ ready' = "open"
  /\ UNCHANGED <<engine, epoch, alive, replaced, broker>>

\* The network, the server or the heartbeat closes this.ws: it delivers no more.
BeginClose ==
  /\ ready \in {"connecting", "open"}
  /\ ready' = "closing"
  /\ alive' = alive \ {epoch}
  /\ UNCHANGED <<engine, epoch, replaced, broker>>

\* ws.onclose of this.ws.
Closed ==
  /\ ready = "closing"
  /\ ready' = "down"
  /\ timer' = (timer \/ ~stopped)
  /\ replaced' = (replaced /\ alive # {})
  /\ RejectAll
  /\ UNCHANGED <<stopped, starting, retrying, epoch, alive>>

\* A socket that this.ws no longer refers to closes: its onclose returns at once.
AbandonedCloses(s) ==
  /\ s \in alive /\ s # epoch
  /\ alive' = alive \ {s}
  /\ replaced' = (replaced /\ (ready # "down" \/ alive' # {}))
  /\ UNCHANGED <<engine, ready, epoch, broker>>

-------------------------------------------------------------------------------
(* The broker.                                                              *)

\* requestSyncStart: rejected unless this.ws is OPEN, else enqueued and sent when first.
Refuse(r) ==
  /\ call[r] = "new"
  /\ ready # "open"
  /\ call' = [call EXCEPT ![r] = "rejected"]
  /\ UNCHANGED <<engine, socket, wire, queue, stamp, drain>>

Request(r) ==
  /\ call[r] = "new"
  /\ ready = "open"
  /\ stamp' = [stamp EXCEPT ![r] = epoch]
  /\ LET p == PathOf[r]
         pending == [call EXCEPT ![r] = "pending"]
     IN IF queue[p] = <<>>
        THEN SendHead(p, <<r>>, wire, pending)
        ELSE /\ queue' = [queue EXCEPT ![p] = Append(@, r)]
             /\ call' = pending
             /\ UNCHANGED wire
  /\ UNCHANGED <<engine, socket, drain>>

\* The 60 s timer of an entry that was not sent yet: the entry is removed.
TimeoutQueued(r) ==
  /\ call[r] = "pending" /\ InQueue(r) /\ ~IsHead(r)
  /\ call' = [call EXCEPT ![r] = "rejected"]
  /\ LET p == PathOf[r]
         at == CHOOSE i \in 1..Len(queue[p]) : queue[p][i] = r
     IN queue' = [queue EXCEPT ![p] = SubSeq(@, 1, at - 1) \o SubSeq(@, at + 1, Len(@))]
  /\ UNCHANGED <<engine, socket, wire, stamp, drain>>

\* Mutant: the head's timeout releases its slot at once.
TimeoutHeadReleases(r) ==
  /\ call[r] = "pending" /\ IsHead(r)
  /\ SendHead(PathOf[r], Tail(queue[PathOf[r]]), wire, [call EXCEPT ![r] = "rejected"])
  /\ UNCHANGED <<engine, socket, stamp, drain>>

\* The 60 s timer of the head: it keeps its slot, waiterless, and gets 30 s to drain.
TimeoutHead(r) ==
  /\ call[r] = "pending" /\ IsHead(r)
  /\ call' = [call EXCEPT ![r] = "rejected"]
  /\ drain' = drain \cup {r}
  /\ UNCHANGED <<engine, socket, wire, queue, stamp>>

\* The drain timer of an owner of an older socket: the slot is released.
ReleaseStale(r) ==
  /\ r \in drain /\ IsHead(r) /\ stamp[r] # epoch
  /\ drain' = drain \ {r}
  /\ SendHead(PathOf[r], Tail(queue[PathOf[r]]), wire, call)
  /\ UNCHANGED <<engine, socket, stamp>>

\* The drain timer of an owner of this.ws: the socket is closed, once; onclose cleans up.
Retire(r) ==
  /\ r \in drain /\ IsHead(r) /\ stamp[r] = epoch
  /\ drain' = drain \ {r}
  /\ IF ready \in {"connecting", "open"}
     THEN ready' = "closing" /\ alive' = alive \ {epoch}
     ELSE UNCHANGED <<ready, alive>>
  /\ UNCHANGED <<engine, epoch, replaced, wire, queue, stamp, call>>

\* What the frame that answers request r makes of the owner's promise.
Outcome(isAnswer, owner, r) ==
  IF ~isAnswer THEN "rejected" ELSE IF owner = r THEN "answered" ELSE "mismatched"

\* Mutant: the answer goes to the first entry that still has a waiter.
FrameToWaiter(s, isAnswer) ==
  /\ s \in alive /\ wire[s] # <<>>
  /\ LET r == Head(wire[s])
         p == PathOf[r]
         rest == [wire EXCEPT ![s] = Tail(@)]
         waiting == SelectSeq(queue[p], LAMBDA x : call[x] = "pending")
     IN IF waiting = <<>>
        THEN wire' = rest /\ UNCHANGED <<queue, call, drain>>
        ELSE /\ drain' = drain \ Members(queue[p])
             /\ SendHead(p, Tail(waiting), rest,
                  [call EXCEPT ![Head(waiting)] = Outcome(isAnswer, Head(waiting), r)])
  /\ UNCHANGED <<engine, socket, stamp>>

\* A frame of socket s: the server's answer to the oldest request of s.
Frame(s, isAnswer) ==
  /\ s \in alive /\ wire[s] # <<>>
  /\ LET r == Head(wire[s])
         p == PathOf[r]
         rest == [wire EXCEPT ![s] = Tail(@)]
     IN IF queue[p] = <<>>
        THEN wire' = rest /\ UNCHANGED <<queue, call, drain>>
        ELSE LET owner == Head(queue[p]) IN
             /\ drain' = drain \ {owner}
             /\ SendHead(p, Tail(queue[p]), rest,
                  IF call[owner] = "pending"
                  THEN [call EXCEPT ![owner] = Outcome(isAnswer, owner, r)] ELSE call)
  /\ UNCHANGED <<engine, socket, stamp>>

\* deliver(): sync_delta or doc_unknown.
Deliver(s) == Frame(s, TRUE)

\* fail(): a malformed sync_delta, or an error that names the document.
FailFrame(s) == Frame(s, FALSE)

Next ==
  \/ Start \/ Stop \/ StartFails \/ RetryFails \/ ReconnectTimer
  \/ ConnectWhileStopped \/ Connect \/ Open \/ BeginClose \/ Closed
  \/ \E s \in Sockets : AbandonedCloses(s) \/ Deliver(s) \/ FailFrame(s)
  \/ \E r \in Requests :
       \/ Refuse(r) \/ Request(r)
       \/ TimeoutQueued(r) \/ TimeoutHead(r) \/ ReleaseStale(r) \/ Retire(r)

Spec == Init /\ [][Next]_vars

\* Timers fire, and a socket that is closing ends up closed.
Fairness ==
  /\ WF_vars(Closed)
  /\ \A r \in Requests :
       /\ WF_vars(TimeoutQueued(r)) /\ WF_vars(TimeoutHead(r))
       /\ WF_vars(ReleaseStale(r)) /\ WF_vars(Retire(r))

FairSpec == Spec /\ Fairness

-------------------------------------------------------------------------------
(* Properties.                                                              *)

\* Two live sockets, or one, never owe the client two answers about the same path.
OneAnswerPerPath ==
  \A s, t \in alive : \A i \in 1..Len(wire[s]), j \in 1..Len(wire[t]) :
    PathOf[wire[s][i]] = PathOf[wire[t][j]] => s = t /\ i = j

\* A sent request keeps the slot of its path until its answer can no longer come, over
\* timeouts, drains, reconnects and restarts.  Only where connect() replaced a socket that was
\* still in use does this end, and it holds again once the sockets of then have closed.
SlotUntilDrained == ~replaced => OneAnswerPerPath

\* Calls are answered with their own answer, in order, once; timeouts, failed sends, closed
\* sockets and late frames only ever turn into rejections - again but for the steps taken
\* while a socket is replaced.
Calls == INSTANCE CorrelatedCalls WITH
  ahead <- [r \in Requests |->
    IF call[r] = "pending"
    THEN LET q == queue[PathOf[r]]
         IN {q[i] : i \in {j \in 1..Len(q) :
               call[q[j]] = "pending" /\ \E k \in 1..Len(q) : j < k /\ q[k] = r}}
    ELSE {}]

ImplementsCalls == Calls!Init /\ [][~replaced => [Calls!Next]_(Calls!vars)]_vars

\* The drain deadline never closes a healthy socket: it closes an open one only when that very
\* socket still owes the answer of the request that gave up, even when sockets overlap.
RetiresOnlyIfOwed ==
  [][\A r \in Requests : Retire(r) /\ ready = "open" => r \in Members(wire[epoch])]_vars

\* No request blocks its path for ever, even when the server never answers - unless its socket
\* is replaced before it closed: then nobody is left to close it once more.
SlotReleased == \A r \in Requests : InQueue(r) ~> (~InQueue(r) \/ replaced)
===============================================================================
