-------------------------- MODULE DeleteIntentsProofs --------------------------
(***************************************************************************)
(* What TLAPS proves of DeleteIntents, for any number of intents,          *)
(* incarnations, edits, connections, crashes and disk faults: the types,   *)
(* that a delete is sent once and only after its attempt is on disk, and   *)
(* that it destroys nothing this device wrote after it was asked for.      *)
(***************************************************************************)
EXTENDS DeleteIntents, FiniteSetTheorems, SequenceTheorems, TLAPS

-------------------------------------------------------------------------------
(* The inductive invariant.                                                 *)

IsWrite(m) == m.type \in {"create", "push"}

\* The types of TypeOK, without its count of waiting writes, in parts.
Job == [attempt : BOOLEAN, who : 0..MaxIntents]
SyncState == [at : {"idle", "list", "act"}, had : BOOLEAN, recreate : BOOLEAN,
              live : BOOLEAN, tomb : BOOLEAN, pending : BOOLEAN, deleted : BOOLEAN]

ServerTyped == live \in 0..MaxInc /\ tomb \in BOOLEAN /\ next \in 1..(MaxInc + 1)

\* The frames that travel: a probe names its intent.
Sendable == {m \in Frame : m.type = "resolve" => m.id # 0}

LinkTyped == up \in Seq(Sendable) /\ down \in Seq(Sendable) /\ sock \in {"down", "open", "auth"}

EngineTyped ==
  /\ file \in BOOLEAN /\ serverTomb \in BOOLEAN /\ accept \in BOOLEAN /\ flush \in BOOLEAN
  /\ owned \in 0..MaxInc /\ ownedDisk \in 0..MaxInc
  /\ push \in {"none", "read", "load"} /\ sync \in SyncState

JournalTyped ==
  /\ entry \in Entry /\ journal \in Entry
  /\ task \in [Intents -> Task] /\ chain \in Seq(Job)

CountsTyped ==
  /\ intents \in 0..MaxIntents /\ connects \in 0..MaxConnects
  /\ sent \in [Intents -> Nat] /\ keeps \subseteq Intents
  /\ admitted \in 0..MaxIntents /\ wrote \in 0..MaxIntents

Types == ServerTyped /\ LinkTyped /\ EngineTyped /\ JournalTyped /\ CountsTyped

\* The writes that wait belong to the coroutines that wait, one each, and the write of
\* an attempt, and no other, marks it.
WaitsFor(c, t) ==
  /\ \A k \in DOMAIN c : c[k].who # 0 => t[c[k].who].pc \in Writing
  /\ \A k, l \in DOMAIN c : c[k].who # 0 /\ c[k].who = c[l].who => k = l
  /\ \A i \in Intents : t[i].pc \in Writing => \E k \in DOMAIN c : c[k].who = i
  /\ \A k \in DOMAIN c : c[k].attempt <=> c[k].who # 0 /\ t[c[k].who].pc = "attempt"

Waits == WaitsFor(chain, task)

\* An intent that was not made yet is nowhere.
Fresh ==
  /\ entry.id <= intents /\ journal.id <= intents
  /\ \A i \in Intents : i > intents => sent[i] = 0 /\ task[i].pc = "none"

\* What is attempted, in memory or on disk, or about to be, has its token pinned.
Pinned ==
  /\ entry.attempted => entry.token.kind = "pinned"
  /\ journal.attempted => journal.token.kind = "pinned"
  /\ \A i \in Intents : Owns(i) /\ task[i].pc = "attempt" => entry.token.kind = "pinned"

\* A coroutine that has not sent its delete: nobody has; and past the saved attempt, whatever
\* still knows the intent knows the attempt.
Unsent ==
  \A i \in Intents :
    /\ task[i].pc \notin {"none", "final"} => sent[i] = 0
    /\ task[i].pc \in {"clean", "own"} =>
         (entry.id = i => entry.attempted) /\ (journal.id = i => journal.attempted)

\* A delete that was sent is known as attempted, in memory and on disk, for ever.
Known ==
  \A i \in Intents :
    sent[i] # 0 => /\ sent[i] = 1
                   /\ entry.id = i => entry.attempted
                   /\ journal.id = i => journal.attempted

Ledger == Fresh /\ Pinned /\ Unsent /\ Known

\* No write carries a mark the device has not reached, and what was written is still there.
Bounded(u, n) == \A k \in DOMAIN u : IsWrite(u[k]) => u[k].id <= n

Marks ==
  /\ wrote <= admitted /\ admitted <= intents
  /\ wrote # 0 => file
  /\ Bounded(up, admitted)

\* A delete travels behind the writes of its past only: the mark of what was written, w, and those
\* of the writes before it in u are older than its intent.
Ordered(u, w) ==
  \A b \in DOMAIN u :
    u[b].type = "delete" =>
      /\ w < u[b].id
      /\ \A a \in DOMAIN u : a < b /\ IsWrite(u[a]) => u[a].id < u[b].id

Order == Ordered(up, wrote)

\* An intent that a crash brought back after its consumption: until the first sync the engine does
\* nothing about it, and a sync that does not consume it again found no note and will write none.
Revived == entry.id # 0 /\ entry.id <= admitted

Harmless ==
  Revived =>
    /\ \A k \in DOMAIN up : ~IsWrite(up[k])
    /\ ~sync.had /\ (sync.at = "act" => sync.live /\ ~sync.tomb)
    /\ \/ wrote = 0
       \/ sock # "auth" /\ sync.at = "idle" /\ task[entry.id].pc = "none"

IInv == Types /\ Waits /\ Ledger /\ Marks /\ Order /\ Harmless

USE IntentAssumption DEF server, lives, link, coroutines, disk, bounds, history

-------------------------------------------------------------------------------
(* The types.                                                               *)

LEMMA Constants ==
  /\ MaxIntents \in Nat /\ MaxInc \in Nat /\ MaxInc >= 1
  /\ MaxWrites \in Nat /\ MaxConnects \in Nat /\ MaxRestarts \in Nat /\ MaxFaults \in Nat
BY DEF IntentAssumption

LEMMA InitTypes == Init => Types
<1> SUFFICES ASSUME Init PROVE Types
    OBVIOUS
<1>1. live \in 0..MaxInc /\ next \in 1..(MaxInc + 1) /\ owned \in 0..MaxInc /\ ownedDisk \in 0..MaxInc
      BY Constants DEF Init
<1>2. LinkTyped
      BY DEF Init, LinkTyped
<1>3. EngineTyped
      <2>1. NoSync \in SyncState
            BY DEF NoSync, SyncState
      <2> QED
          BY <1>1, <2>1 DEF Init, EngineTyped
<1>4. JournalTyped
      <2>1. NoEntry \in Entry
            BY Constants DEF NoEntry, NoToken, Entry, Token
      <2>2. task \in [Intents -> Task]
            BY DEF Init, NoTask, Task, Pcs
      <2> QED
          BY <2>1, <2>2 DEF Init, JournalTyped
<1>5. CountsTyped
      BY Constants DEF Init, CountsTyped
<1> QED
    BY <1>1, <1>2, <1>3, <1>4, <1>5 DEF Types, ServerTyped, Init

\* The parts of the frames, the entries and the coroutines have their types.
LEMMA MsgTyped ==
  ASSUME NEW type \in {"create", "push", "delete", "resolve", "list", "ack", "rejected", "deleted"},
         NEW id \in 0..MaxIntents, NEW inc \in 0..MaxInc, NEW flag \in BOOLEAN,
         type = "resolve" => id # 0
  PROVE  Msg(type, id, inc, flag) \in Sendable
BY DEF Msg, Sendable, Frame

LEMMA FrameParts ==
  ASSUME NEW m \in Sendable
  PROVE  /\ m.id \in 0..MaxIntents /\ m.inc \in 0..MaxInc /\ m.flag \in BOOLEAN
         /\ m.type = "resolve" => m.id \in Intents
BY Constants DEF Sendable, Frame, Intents

LEMMA EntryParts ==
  ASSUME NEW e \in Entry
  PROVE  /\ e.id \in 0..MaxIntents /\ e.acked \in BOOLEAN /\ e.attempted \in BOOLEAN
         /\ e.token \in Token /\ e.token.value \in 0..MaxInc
         /\ [e EXCEPT !.acked = TRUE] \in Entry /\ [e EXCEPT !.attempted = TRUE] \in Entry
BY DEF Entry, Token

LEMMA NoEntryTyped == NoEntry \in Entry /\ NoEntry.id = 0 /\ ~NoEntry.attempted /\ ~NoEntry.acked
BY Constants DEF NoEntry, NoToken, Entry, Token

LEMMA NewIntentTyped ==
  ASSUME Types, intents < MaxIntents, NEW k \in 0..MaxInc
  PROVE  /\ NewIntent(k) \in Entry /\ NewIntent(k).id = intents + 1
         /\ ~NewIntent(k).attempted /\ ~NewIntent(k).acked /\ intents + 1 \in Intents
BY Constants DEF NewIntent, Entry, Token, Types, CountsTyped, Intents

LEMMA TaskParts ==
  ASSUME JournalTyped, NEW i \in Intents
  PROVE  /\ task[i].pc \in Pcs
         /\ Return(i) \in [Intents -> Task] /\ Return(i)[i].pc = "none"
         /\ \A pc \in Pcs : Goto(i, pc) \in [Intents -> Task] /\ Goto(i, pc)[i].pc = pc
         /\ \A j \in Intents \ {i} : /\ Return(i)[j] = task[j]
                                    /\ \A pc \in Pcs : Goto(i, pc)[j] = task[j]
BY DEF JournalTyped, Task, Return, Goto, NoTask, Pcs

LEMMA JobTyped ==
  ASSUME NEW a \in BOOLEAN, NEW i \in 0..MaxIntents, NEW c \in Seq(Job)
  PROVE  /\ Append(c, [attempt |-> a, who |-> i]) \in Seq(Job)
         /\ c # <<>> => Tail(c) \in Seq(Job) /\ Head(c) \in Job
<1>1. [attempt |-> a, who |-> i] \in Job
      BY DEF Job
<1>2. Append(c, [attempt |-> a, who |-> i]) \in Seq(Job)
      BY <1>1, AppendProperties
<1>3. c # <<>> => Tail(c) \in Seq(Job) /\ Head(c) \in Job
      BY HeadTailProperties
<1> QED
    BY <1>2, <1>3

\* sendDocDelete starts, or has nothing to do.
Starts(e, waiting) ==
  /\ ~e.attempted /\ task[e.id].pc = "none"
  /\ task' = [task EXCEPT ![e.id] = [pc |-> "persist", open |-> sock # "down"]]
  /\ chain' = Append(waiting, [attempt |-> FALSE, who |-> e.id])

LEMMA SendEffect ==
  ASSUME JournalTyped, NEW e \in Entry, e.id # 0, NEW waiting \in Seq(Job), SendDocDelete(e, waiting)
  PROVE  /\ task' \in [Intents -> Task] /\ chain' \in Seq(Job)
         /\ Starts(e, waiting) \/ (chain' = waiting /\ task' = task)
<1>0. e.id \in 0..MaxIntents
      BY DEF Entry
<1>1. e.id \in Intents
      BY <1>0, Constants DEF Intents
<1>2. CASE e.acked \/ e.attempted \/ task[e.id].pc # "none"
      BY <1>2 DEF SendDocDelete, JournalTyped
<1>3. CASE ~(e.acked \/ e.attempted \/ task[e.id].pc # "none")
  <2>1. Starts(e, waiting)
        BY <1>3 DEF SendDocDelete, Starts
  <2>2. [pc |-> "persist", open |-> sock # "down"] \in Task
        BY DEF Task, Pcs
  <2>3. task' \in [Intents -> Task]
        BY <2>1, <2>2 DEF Starts, JournalTyped
  <2>4. chain' \in Seq(Job)
        BY <1>0, <2>1, JobTyped DEF Starts
  <2> QED
      BY <2>1, <2>3, <2>4
<1> QED
    BY <1>2, <1>3

LEMMA ServerStep == Types /\ Next => ServerTyped'
<1> SUFFICES ASSUME Types, Next PROVE ServerTyped'
    OBVIOUS
<1>1. CASE Serve
  <2>1. up # <<>> /\ Head(up) \in Sendable
        BY <1>1, HeadTailProperties DEF Serve, Types, LinkTyped
  <2>2. PICK m \in Sendable : ServeWrite(m) \/ ServeDelete(m) \/ ServeQuery(m)
        BY <1>1, <2>1 DEF Serve
  <2>3. live \in 0..MaxInc /\ next \in 1..(MaxInc + 1) /\ tomb \in BOOLEAN
        BY DEF Types, ServerTyped
  <2>4. \/ live' \in {live, 0} /\ next' = next
        \/ next <= MaxInc /\ live' = next /\ next' = next + 1
        BY <2>2 DEF ServeWrite, ServeDelete, ServeQuery
  <2>5. tomb' \in BOOLEAN
        BY <2>2, <2>3 DEF ServeWrite, ServeDelete, ServeQuery
  <2> QED
      BY <2>3, <2>4, <2>5, Constants DEF ServerTyped
<1>2. CASE PeerCreate \/ PeerDelete
  <2>1. live \in 0..MaxInc /\ next \in 1..(MaxInc + 1)
        BY DEF Types, ServerTyped
  <2>2. \/ live' = 0 /\ next' = next
        \/ next <= MaxInc /\ live' = next /\ next' = next + 1
        BY <1>2 DEF PeerCreate, PeerDelete
  <2>3. tomb' \in BOOLEAN
        BY <1>2 DEF PeerCreate, PeerDelete
  <2> QED
      BY <2>1, <2>2, <2>3, Constants DEF ServerTyped
<1>3. CASE UNCHANGED lives
      BY <1>3 DEF Types, ServerTyped
<1> QED
    BY <1>1, <1>2, <1>3 DEF Next, UserDelete, UserWrite, Write, UserWriteSuppressed, RenameSuppressed,
       PushBegin, PushDropped, PushEnd, Clean, Emit, Abandon, ResolveFails, Save, SaveFails, SaveOwned,
       Connect, AuthOk, Close, Restart, SyncRecreate, SyncCreate, SyncMerge, SyncTombstone, SyncDownload,
       SyncNothing, SyncFails, SyncFlush, Receive

\* The frame that arrives, and the handler that takes it.
Handles(m) == RecvList(m) \/ RecvDeleted(m) \/ RecvAck(m) \/ RecvRejected(m) \/ RecvResolved(m)

LEMMA ReceiveEffect ==
  ASSUME Types, Receive
  PROVE  /\ \E m \in Sendable : Handles(m)
         /\ down' = Tail(down) /\ down' \in Seq(Sendable)
         /\ UNCHANGED <<lives, sock, accept, disk, writes, connects, restarts, faults, sent, admitted>>
<1>1. down # <<>> /\ Head(down) \in Sendable /\ Tail(down) \in Seq(Sendable)
      BY HeadTailProperties DEF Receive, Types, LinkTyped
<1>2. Handles(Head(down)) /\ down' = Tail(down)
      BY DEF Receive, Handles
<1> QED
    BY <1>1, <1>2 DEF Receive

LEMMA ServeEffect ==
  ASSUME Types, Serve
  PROVE  /\ \E m \in Sendable : m = Head(up) /\ (ServeWrite(m) \/ ServeDelete(m) \/ ServeQuery(m))
         /\ up # <<>> /\ up' = Tail(up) /\ up' \in Seq(Sendable)
         /\ UNCHANGED <<sock, file, coroutines, owned, serverTomb, push, sync, flush, accept, disk,
                        bounds, history>>
<1>1. up # <<>> /\ Head(up) \in Sendable /\ Tail(up) \in Seq(Sendable)
      BY HeadTailProperties DEF Serve, Types, LinkTyped
<1> QED
    BY <1>1 DEF Serve

\* An intent is made while there is room; every other step leaves the count alone.
LEMMA IntentsStep == Types /\ Next => intents' = intents \/ (intents < MaxIntents /\ intents' = intents + 1)
<1> SUFFICES ASSUME Types, Next
             PROVE  intents' = intents \/ (intents < MaxIntents /\ intents' = intents + 1)
    OBVIOUS
<1>1. CASE Receive
  <2>1. PICK m \in Sendable : Handles(m)
        BY <1>1, ReceiveEffect
  <2> QED
      BY <2>1 DEF Handles, RecvList, RecvDeleted, RecvAck, RecvRejected, RecvResolved, DocDeleted
<1>2. CASE SyncFlush
      BY <1>2 DEF SyncFlush, DocDeleted
<1>3. CASE UserDelete
      BY <1>3 DEF UserDelete
<1>4. CASE intents' = intents
      BY <1>4
<1> QED
    BY <1>1, <1>2, <1>3, <1>4 DEF Next, UserWrite, Write, UserWriteSuppressed, RenameSuppressed,
       PushBegin, PushDropped, PushEnd, Clean, Emit, Abandon, ResolveFails, Save, SaveFails, SaveOwned,
       Connect, AuthOk, Close, Restart, SyncRecreate, SyncCreate, SyncMerge, SyncTombstone, SyncDownload,
       SyncNothing, SyncFails, Serve, PeerCreate, PeerDelete, Fault

\* What this device was last told and wrote: marks it has reached.
LEMMA MarksMove ==
  Types /\ Next => /\ admitted' \in {admitted, intents}
                   /\ \/ wrote' \in {0, wrote}
                      \/ /\ Serve /\ up # <<>> /\ IsWrite(Head(up)) /\ wrote' = Head(up).id
                         /\ file /\ Head(up) \in Sendable
<1> SUFFICES ASSUME Types, Next
             PROVE  /\ admitted' \in {admitted, intents}
                    /\ \/ wrote' \in {0, wrote}
                       \/ /\ Serve /\ up # <<>> /\ IsWrite(Head(up)) /\ wrote' = Head(up).id
                          /\ file /\ Head(up) \in Sendable
    OBVIOUS
<1>1. CASE Receive
  <2>1. PICK m \in Sendable : Handles(m)
        BY <1>1, ReceiveEffect
  <2>2. admitted' = admitted
        BY <1>1 DEF Receive
  <2>3. wrote' \in {0, wrote}
        BY <2>1 DEF Handles, RecvList, RecvDeleted, RecvAck, RecvRejected, RecvResolved, DocDeleted
  <2> QED
      BY <2>2, <2>3
<1>2. CASE Serve
  <2>1. PICK m \in Sendable : m = Head(up) /\ (ServeWrite(m) \/ ServeDelete(m) \/ ServeQuery(m))
        BY <1>2, ServeEffect
  <2>2. admitted' = admitted /\ up # <<>>
        BY <1>2 DEF Serve
  <2> QED
      BY <1>2, <2>1, <2>2 DEF ServeWrite, ServeDelete, ServeQuery, IsWrite
<1>3. CASE SyncFlush
      BY <1>3 DEF SyncFlush, DocDeleted
<1>4. CASE UserWrite \/ AuthOk \/ SyncTombstone \/ UserDelete \/ RenameSuppressed \/ PeerCreate
      BY <1>4 DEF UserWrite, Write, AuthOk, SyncTombstone, UserDelete, RenameSuppressed, PeerCreate
<1>5. CASE UNCHANGED <<admitted, wrote>>
      BY <1>5
<1> QED
    BY <1>1, <1>2, <1>3, <1>4, <1>5 DEF Next, Write, UserWriteSuppressed,
       PushBegin, PushDropped, PushEnd, Clean, Emit, Abandon, ResolveFails, Save, SaveFails, SaveOwned,
       Connect, Close, Restart, SyncRecreate, SyncCreate, SyncMerge, SyncDownload,
       SyncNothing, SyncFails, PeerDelete

\* Only the end of a coroutine sends a delete.
LEMMA SentStep ==
  Next => \/ sent' = sent
          \/ \E i \in Intents : Emit(i) /\ sock # "down" /\ sent' = [sent EXCEPT ![i] = @ + 1]
<1> SUFFICES ASSUME Next
             PROVE  \/ sent' = sent
                    \/ \E i \in Intents : Emit(i) /\ sock # "down" /\ sent' = [sent EXCEPT ![i] = @ + 1]
    OBVIOUS
<1>1. CASE \E i \in Intents : Emit(i)
  <2>1. PICK i \in Intents : Emit(i)
        BY <1>1
  <2>2. sent' = sent \/ (sock # "down" /\ sent' = [sent EXCEPT ![i] = @ + 1])
        BY <2>1 DEF Emit
  <2> QED
      BY <2>1, <2>2
<1>2. CASE sent' = sent
      BY <1>2
<1> QED
    BY <1>1, <1>2 DEF Next, SyncFlush, Receive, UserDelete, UserWrite, Write, UserWriteSuppressed, RenameSuppressed,
       PushBegin, PushDropped, PushEnd, Clean, Abandon, ResolveFails, Save, SaveFails, SaveOwned,
       Connect, AuthOk, Close, Restart, SyncRecreate, SyncCreate, SyncMerge, SyncTombstone, SyncDownload,
       SyncNothing, SyncFails, Serve, PeerCreate, PeerDelete, Fault

LEMMA CountsStep == Types /\ Next => CountsTyped'
<1> SUFFICES ASSUME Types, Next PROVE CountsTyped'
    OBVIOUS
<1>0. CountsTyped
      BY DEF Types
<1>1. intents' \in 0..MaxIntents
      BY <1>0, IntentsStep, Constants DEF CountsTyped
<1>2. connects' \in 0..MaxConnects
  <2>1. connects' = connects \/ (connects < MaxConnects /\ connects' = connects + 1)
        BY DEF Next, Emit, SyncFlush, Receive, UserDelete, UserWrite, Write, UserWriteSuppressed, RenameSuppressed,
       PushBegin, PushDropped, PushEnd, Clean, Abandon, ResolveFails, Save, SaveFails, SaveOwned,
       Connect, AuthOk, Close, Restart, SyncRecreate, SyncCreate, SyncMerge, SyncTombstone, SyncDownload,
       SyncNothing, SyncFails, Serve, PeerCreate, PeerDelete, Fault
  <2> QED
      BY <1>0, <2>1, Constants DEF CountsTyped
<1>3. sent' \in [Intents -> Nat]
      BY <1>0, SentStep DEF CountsTyped
<1>4. keeps' \subseteq Intents
  <2>1. keeps' = keeps \/ (intents < MaxIntents /\ keeps' = keeps \cup {intents + 1})
    <3>1. CASE Receive
      <4>1. PICK m \in Sendable : Handles(m)
            BY <3>1, ReceiveEffect
      <4> QED
          BY <4>1 DEF Handles, RecvList, RecvDeleted, RecvAck, RecvRejected, RecvResolved, DocDeleted
    <3>2. CASE SyncFlush
          BY <3>2 DEF SyncFlush, DocDeleted
    <3>3. CASE keeps' = keeps
          BY <3>3
    <3> QED
        BY <3>1, <3>2, <3>3 DEF Next, Emit, UserDelete, UserWrite, Write, UserWriteSuppressed, RenameSuppressed,
       PushBegin, PushDropped, PushEnd, Clean, Abandon, ResolveFails, Save, SaveFails, SaveOwned,
       Connect, AuthOk, Close, Restart, SyncRecreate, SyncCreate, SyncMerge, SyncTombstone, SyncDownload,
       SyncNothing, SyncFails, Serve, PeerCreate, PeerDelete, Fault
  <2>2. intents < MaxIntents => intents + 1 \in Intents
        BY <1>0, Constants DEF CountsTyped, Intents
  <2> QED
      BY <1>0, <2>1, <2>2 DEF CountsTyped
<1>5. admitted' \in 0..MaxIntents
      BY <1>0, MarksMove DEF CountsTyped
<1>6. wrote' \in 0..MaxIntents
      BY <1>0, MarksMove, FrameParts, Constants DEF CountsTyped
<1> QED
    BY <1>1, <1>2, <1>3, <1>4, <1>5, <1>6 DEF CountsTyped

-------------------------------------------------------------------------------
(* The frames under way.                                                    *)

\* A write of this device carries its mark.
OwnWrites == {m \in Sendable : IsWrite(m) /\ m.id = admitted}

LEMMA OwnWriteTyped ==
  ASSUME Types, NEW replace \in BOOLEAN
  PROVE  /\ Msg("create", admitted, 0, replace) \in OwnWrites
         /\ Msg("push", admitted, 0, FALSE) \in OwnWrites
<1>1. admitted \in 0..MaxIntents /\ 0 \in 0..MaxInc
      BY Constants DEF Types, CountsTyped
<1>2. /\ Msg("create", admitted, 0, replace) \in Sendable
      /\ Msg("push", admitted, 0, FALSE) \in Sendable
      BY <1>1, MsgTyped
<1> QED
    BY <1>2 DEF OwnWrites, IsWrite, Msg

\* The steps that send writes, and what they send.
Writes == PushEnd \/ SyncRecreate \/ SyncCreate \/ SyncMerge \/ SyncTombstone

LEMMA WritesEffect ==
  ASSUME Types, Writes
  PROVE  \E fs \in Seq(OwnWrites) : up' = up \o fs
<1> DEFINE Put(fs) == up' = up \o fs
<1>0. up \in Seq(Sendable)
      BY DEF Types, LinkTyped
<1>1. \A m \in OwnWrites : <<m>> \in Seq(OwnWrites) /\ Append(up, m) = up \o <<m>>
      BY <1>0 DEF OwnWrites
<1>2. <<>> \in Seq(OwnWrites) /\ up = up \o <<>>
      BY <1>0, ConcatEmptySeq
<1>3. \A replace \in BOOLEAN : Create(replace) \in Seq(OwnWrites) /\ Delta \in Seq(OwnWrites)
      BY <1>1, OwnWriteTyped DEF Create, Delta
<1>4. CASE PushEnd
  <2>1. \/ up' = up
        \/ up' = Append(up, Msg("create", admitted, 0, TRUE))
        \/ up' = Append(up, Msg("push", admitted, 0, FALSE))
        BY <1>4 DEF PushEnd
  <2> QED
      BY <2>1, <1>1, <1>2, OwnWriteTyped
<1>5. ASSUME NEW fs \in Seq(OwnWrites), Sends(fs) PROVE \E gs \in Seq(OwnWrites) : up' = up \o gs
      BY <1>5, <1>2 DEF Sends
<1>6. CASE SyncRecreate
  <2>1. PICK merge \in {<<>>, Delta} : Sends(merge \o Create(TRUE))
        BY <1>6 DEF SyncRecreate
  <2>2. merge \o Create(TRUE) \in Seq(OwnWrites)
        BY <1>2, <1>3, ConcatProperties
  <2> QED
      BY <2>1, <2>2, <1>5
<1>7. CASE SyncCreate
      BY <1>7, <1>3, <1>5 DEF SyncCreate
<1>8. CASE SyncMerge
      BY <1>8, <1>2, <1>3, <1>5 DEF SyncMerge
<1>9. CASE SyncTombstone
  <2>1. Sends(Create(TRUE)) \/ up' = up
        BY <1>9 DEF SyncTombstone
  <2> QED
      BY <2>1, <1>2, <1>3, <1>5
<1> QED
    BY <1>4, <1>6, <1>7, <1>8, <1>9 DEF Writes

\* What a step does with the frames on their way to the server.
UpMoves ==
  \/ up' = up
  \/ (Close \/ Restart) /\ up' = <<>>
  \/ Serve /\ up # <<>> /\ up' = Tail(up)
  \/ \E m \in Sendable : m.type \in {"resolve", "list"} /\ up' = Append(up, m)
  \/ \E i \in Intents : /\ Emit(i) /\ sock # "down"
                        /\ up' = Append(up, Msg("delete", i, entry.token.value, FALSE))
  \/ Writes /\ \E fs \in Seq(OwnWrites) : up' = up \o fs

LEMMA UpStep == Types /\ Next => UpMoves
<1> SUFFICES ASSUME Types, Next PROVE UpMoves
    OBVIOUS
<1>1. CASE Writes
      BY <1>1, WritesEffect DEF UpMoves
<1>2. CASE Serve
      BY <1>2, ServeEffect DEF UpMoves
<1>3. CASE Close \/ Restart
      BY <1>3 DEF Close, Restart, Drop, UpMoves
<1>4. CASE AuthOk
  <2>0. 0 \in 0..MaxIntents /\ 0 \in 0..MaxInc
        BY Constants
  <2>1. Msg("list", 0, 0, FALSE) \in Sendable /\ Msg("list", 0, 0, FALSE).type = "list"
    <3>1. Msg("list", 0, 0, FALSE).type = "list"
          BY DEF Msg
    <3> QED
        BY <2>0, <3>1, MsgTyped
  <2>2. up' = up \/ up' = Append(up, Msg("list", 0, 0, FALSE))
        BY <1>4 DEF AuthOk
  <2> QED
      BY <2>1, <2>2 DEF UpMoves
<1>5. CASE Save
  <2>0. Head(chain) \in Job
        BY <1>5, HeadTailProperties DEF Save, Types, JournalTyped
  <2>1. Head(chain).who \in 0..MaxIntents
        BY <2>0 DEF Job
  <2>2. up' = up \/ (Head(chain).who # 0 /\ up' = Append(up, Msg("resolve", Head(chain).who, 0, FALSE)))
        BY <1>5 DEF Save, Saved, Attempted
  <2>3. Head(chain).who # 0 =>
          Msg("resolve", Head(chain).who, 0, FALSE) \in Sendable
    <3>1. 0 \in 0..MaxInc
          BY Constants
    <3> QED
        BY <2>1, <3>1, MsgTyped
  <2>4. Msg("resolve", Head(chain).who, 0, FALSE).type = "resolve"
        BY DEF Msg
  <2> QED
      BY <2>2, <2>3, <2>4 DEF UpMoves
<1>6. CASE \E i \in Intents : Emit(i)
      BY <1>6 DEF Emit, UpMoves
<1>7. CASE Receive
  <2>1. PICK m \in Sendable : Handles(m)
        BY <1>7, ReceiveEffect
  <2>2. up' = up
        BY <2>1 DEF Handles, RecvList, RecvDeleted, RecvAck, RecvRejected, RecvResolved
  <2> QED
      BY <2>2 DEF UpMoves
<1>8. CASE PeerDelete
      BY <1>8 DEF PeerDelete, UpMoves
<1>9. CASE up' = up
      BY <1>9 DEF UpMoves
<1> QED
    BY <1>1, <1>2, <1>3, <1>4, <1>5, <1>6, <1>7, <1>8, <1>9 DEF Writes, Next, UserDelete, UserWrite, Write, UserWriteSuppressed, RenameSuppressed,
       PushBegin, PushDropped, Clean, Abandon, ResolveFails, SaveFails, SaveOwned,
       Connect, SyncDownload, SyncNothing, SyncFails, SyncFlush, PeerCreate, Fault

LEMMA DownStep == Types /\ Next => down' \in Seq(Sendable)
<1> SUFFICES ASSUME Types, Next PROVE down' \in Seq(Sendable)
    OBVIOUS
<1>0. down \in Seq(Sendable) /\ live \in 0..MaxInc /\ next \in 1..(MaxInc + 1) /\ tomb \in BOOLEAN
      BY DEF Types, LinkTyped, ServerTyped
<1>1. \A m \in Sendable : Append(down, m) \in Seq(Sendable)
      BY <1>0, AppendProperties
<1>2. 0 \in 0..MaxIntents /\ 0 \in 0..MaxInc
      BY Constants
<1>3. CASE Receive
      BY <1>3, ReceiveEffect
<1>4. CASE Serve
  <2>1. PICK m \in Sendable : ServeWrite(m) \/ ServeDelete(m) \/ ServeQuery(m)
        BY <1>4, ServeEffect
  <2>2. m.id \in 0..MaxIntents /\ (m.type = "resolve" => m.id # 0)
        BY FrameParts DEF Sendable
  <2>3. \/ down' = down
        \/ down' = Append(down, Msg("ack", 0, live, FALSE))
        \/ next <= MaxInc /\ down' = Append(down, Msg("ack", 0, next, FALSE))
        \/ down' = Append(down, Msg("rejected", m.id, 0, FALSE))
        \/ m.type = "resolve" /\ down' = Append(down, Msg("resolve", m.id, live, FALSE))
        \/ down' = Append(down, Msg("list", 0, live, tomb))
        BY <2>1 DEF ServeWrite, ServeDelete, ServeQuery, Reply
  <2>4. /\ Msg("ack", 0, live, FALSE) \in Sendable
        /\ Msg("rejected", m.id, 0, FALSE) \in Sendable
        /\ Msg("list", 0, live, tomb) \in Sendable
        BY <1>0, <1>2, <2>2, MsgTyped
  <2>5. m.type = "resolve" => Msg("resolve", m.id, live, FALSE) \in Sendable
        BY <1>0, <2>2, MsgTyped
  <2>6. next <= MaxInc => Msg("ack", 0, next, FALSE) \in Sendable
    <3>1. next <= MaxInc => next \in 0..MaxInc
          BY <1>0, Constants
    <3> QED
        BY <1>2, <3>1, MsgTyped
  <2> QED
      BY <1>0, <1>1, <2>3, <2>4, <2>5, <2>6
<1>5. CASE PeerDelete
  <2>1. Msg("deleted", 0, 0, FALSE) \in Sendable
        BY <1>2, MsgTyped
  <2> QED
      BY <1>0, <1>1, <1>5, <2>1 DEF PeerDelete
<1>6. CASE Close \/ Restart
  <2>1. down' = <<>>
        BY <1>6 DEF Close, Restart, Drop
  <2> QED
      BY <2>1
<1>7. CASE down' = down
      BY <1>0, <1>7
<1> QED
    BY <1>3, <1>4, <1>5, <1>6, <1>7 DEF Next, UserDelete, UserWrite, Write, UserWriteSuppressed, RenameSuppressed,
       PushBegin, PushDropped, PushEnd, Clean, Emit, Abandon, ResolveFails, Save, SaveFails, SaveOwned,
       Connect, AuthOk, SyncRecreate, SyncCreate, SyncMerge, SyncTombstone, SyncDownload,
       SyncNothing, SyncFails, SyncFlush, PeerCreate, Fault

LEMMA LinkStep == Types /\ Next => LinkTyped'
<1> SUFFICES ASSUME Types, Next PROVE LinkTyped'
    OBVIOUS
<1>0. up \in Seq(Sendable) /\ sock \in {"down", "open", "auth"}
      BY DEF Types, LinkTyped
<1>1. up' \in Seq(Sendable)
  <2>1. CASE \E i \in Intents : /\ Emit(i) /\ sock # "down"
                               /\ up' = Append(up, Msg("delete", i, entry.token.value, FALSE))
    <3>1. PICK i \in Intents : up' = Append(up, Msg("delete", i, entry.token.value, FALSE))
          BY <2>1
    <3>2. entry \in Entry /\ i \in 0..MaxIntents
          BY Constants DEF Types, JournalTyped, Intents
    <3>3. entry.token.value \in 0..MaxInc
          BY <3>2, EntryParts
    <3>4. Msg("delete", i, entry.token.value, FALSE) \in Sendable
          BY <3>2, <3>3, MsgTyped
    <3> QED
        BY <1>0, <3>1, <3>4, AppendProperties
  <2>2. CASE \E fs \in Seq(OwnWrites) : up' = up \o fs
    <3>1. PICK fs \in Seq(OwnWrites) : up' = up \o fs
          BY <2>2
    <3>2. fs \in Seq(Sendable)
          BY DEF OwnWrites
    <3> QED
        BY <1>0, <3>1, <3>2, ConcatProperties
  <2>3. CASE up' = up \/ up' = <<>> \/ (up # <<>> /\ up' = Tail(up))
    <3>1. <<>> \in Seq(Sendable)
          OBVIOUS
    <3>2. up # <<>> => Tail(up) \in Seq(Sendable)
          BY <1>0, HeadTailProperties
    <3> QED
        BY <1>0, <2>3, <3>1, <3>2
  <2>4. CASE \E m \in Sendable : up' = Append(up, m)
        BY <1>0, <2>4, AppendProperties
  <2> QED
      BY <2>1, <2>2, <2>3, <2>4, UpStep DEF UpMoves
<1>2. sock' \in {"down", "open", "auth"}
      BY <1>0 DEF Drop, Next, Receive, Serve, PeerDelete, UserDelete, UserWrite, Write, UserWriteSuppressed, RenameSuppressed,
       PushBegin, PushDropped, PushEnd, Clean, Emit, Abandon, ResolveFails, Save, SaveFails, SaveOwned,
       Connect, AuthOk, Close, Restart, SyncRecreate, SyncCreate, SyncMerge, SyncTombstone, SyncDownload,
       SyncNothing, SyncFails, SyncFlush, PeerCreate, Fault
<1> QED
    BY <1>1, <1>2, DownStep DEF LinkTyped

-------------------------------------------------------------------------------
(* The engine's own state.                                                  *)

LEMMA SyncStep == Types /\ Next => sync' \in SyncState
<1> SUFFICES ASSUME Types, Next PROVE sync' \in SyncState
    OBVIOUS
<1>0. sync \in SyncState /\ file \in BOOLEAN
      BY DEF Types, EngineTyped
<1>1. NoSync \in SyncState
      BY DEF NoSync, SyncState
<1>2. CASE Receive
  <2>1. PICK m \in Sendable : Handles(m)
        BY <1>2, ReceiveEffect
  <2>2. m.flag \in BOOLEAN
        BY FrameParts
  <2>3. \/ sync' = sync
        \/ sync' = [sync EXCEPT !.deleted = TRUE]
        \/ \E b, c \in BOOLEAN :
             sync' = [sync EXCEPT !.at = "act", !.live = b, !.tomb = m.flag, !.pending = c]
    <3>1. CASE RecvList(m)
      <4>1. sync' = [sync EXCEPT !.at = "act", !.live = m.inc # 0, !.tomb = m.flag,
                                 !.pending = Reconciled(m.inc # 0, m.flag).id # 0]
            BY <3>1 DEF RecvList
      <4> QED
          BY <4>1
    <3> QED
        BY <2>1, <3>1 DEF Handles, RecvDeleted, RecvAck, RecvRejected, RecvResolved
  <2> QED
      BY <1>0, <2>2, <2>3 DEF SyncState
<1>3. CASE AuthOk
  <2>1. sync' = sync \/ \E b \in BOOLEAN : sync' = [NoSync EXCEPT !.at = "list", !.had = file, !.recreate = b]
    <3>1. \/ sync' = sync
          \/ sync' = [NoSync EXCEPT !.at = "list", !.had = file, !.recreate = file /\ entry.id # 0]
          BY <1>3 DEF AuthOk
    <3> QED
        BY <3>1
  <2> QED
      BY <1>0, <1>1, <2>1 DEF SyncState
<1>4. CASE SyncFlush
      BY <1>0, <1>4 DEF SyncFlush, SyncState
<1>5. CASE sync' \in {sync, NoSync}
      BY <1>0, <1>1, <1>5
<1> QED
    BY <1>2, <1>3, <1>4, <1>5 DEF SyncEnd, Next, UserDelete, UserWrite, Write, UserWriteSuppressed, RenameSuppressed,
       PushBegin, PushDropped, PushEnd, Clean, Emit, Abandon, ResolveFails, Save, SaveFails, SaveOwned,
       Connect, Close, Restart, SyncRecreate, SyncCreate, SyncMerge, SyncTombstone, SyncDownload,
       SyncNothing, SyncFails, Serve, PeerCreate, PeerDelete, Fault

LEMMA EngineStep == Types /\ Next => EngineTyped'
<1> SUFFICES ASSUME Types, Next PROVE EngineTyped'
    OBVIOUS
<1>0. EngineTyped
      BY DEF Types
<1>1. CASE Receive
  <2>1. PICK m \in Sendable : Handles(m)
        BY <1>1, ReceiveEffect
  <2>2. m.flag \in BOOLEAN /\ m.inc \in 0..MaxInc
        BY FrameParts
  <2>3. file' \in BOOLEAN
        BY <1>0, <1>1, <2>1, <2>2 DEF EngineTyped, Receive, Handles, RecvList, RecvDeleted, RecvAck,
           RecvRejected, RecvResolved, DocDeleted
  <2>4. serverTomb' \in BOOLEAN
        BY <1>0, <1>1, <2>1, <2>2 DEF EngineTyped, Receive, Handles, RecvList, RecvDeleted, RecvAck,
           RecvRejected, RecvResolved, DocDeleted
  <2>5. accept' \in BOOLEAN /\ flush' \in BOOLEAN
        BY <1>0, <1>1, <2>1, <2>2 DEF EngineTyped, Receive, Handles, RecvList, RecvDeleted, RecvAck,
           RecvRejected, RecvResolved, DocDeleted
  <2>6. ownedDisk' \in 0..MaxInc
        BY <1>0, <1>1, <2>1, <2>2 DEF EngineTyped, Receive, Handles, RecvList, RecvDeleted, RecvAck,
           RecvRejected, RecvResolved, DocDeleted
  <2>7. push' \in {"none", "read", "load"}
        BY <1>0, <1>1, <2>1, <2>2 DEF EngineTyped, Receive, Handles, RecvList, RecvDeleted, RecvAck,
           RecvRejected, RecvResolved, DocDeleted
  <2>8. owned' \in {owned, 0, m.inc}
        BY <2>1 DEF Handles, RecvList, RecvDeleted, RecvAck,
           RecvRejected, RecvResolved, DocDeleted
  <2>9. owned' \in 0..MaxInc
        BY <1>0, <2>2, <2>8, Constants DEF EngineTyped
  <2> QED
      BY <2>3, <2>4, <2>5, <2>6, <2>7, <2>9, SyncStep DEF EngineTyped
<1>2. CASE ~Receive
  <2>3. file' \in BOOLEAN
        BY <1>0, <1>2 DEF EngineTyped, Next, DocDeleted, Admit, SyncEnd, UserDelete, UserWrite, Write, UserWriteSuppressed, RenameSuppressed,
           PushBegin, PushDropped, PushEnd, Clean, Emit, Abandon, ResolveFails, Save, SaveFails, SaveOwned,
           Connect, AuthOk, Close, Restart, SyncRecreate, SyncCreate, SyncMerge, SyncTombstone, SyncDownload,
           SyncNothing, SyncFails, SyncFlush, Serve, PeerCreate, PeerDelete, Fault
  <2>4. serverTomb' \in BOOLEAN
        BY <1>0, <1>2 DEF EngineTyped, Next, DocDeleted, Admit, SyncEnd, UserDelete, UserWrite, Write, UserWriteSuppressed, RenameSuppressed,
           PushBegin, PushDropped, PushEnd, Clean, Emit, Abandon, ResolveFails, Save, SaveFails, SaveOwned,
           Connect, AuthOk, Close, Restart, SyncRecreate, SyncCreate, SyncMerge, SyncTombstone, SyncDownload,
           SyncNothing, SyncFails, SyncFlush, Serve, PeerCreate, PeerDelete, Fault
  <2>5. accept' \in BOOLEAN /\ flush' \in BOOLEAN
        BY <1>0, <1>2 DEF EngineTyped, Next, DocDeleted, Admit, SyncEnd, UserDelete, UserWrite, Write, UserWriteSuppressed, RenameSuppressed,
           PushBegin, PushDropped, PushEnd, Clean, Emit, Abandon, ResolveFails, Save, SaveFails, SaveOwned,
           Connect, AuthOk, Close, Restart, SyncRecreate, SyncCreate, SyncMerge, SyncTombstone, SyncDownload,
           SyncNothing, SyncFails, SyncFlush, Serve, PeerCreate, PeerDelete, Fault
  <2>6. ownedDisk' \in 0..MaxInc
        BY <1>0, <1>2 DEF EngineTyped, Next, DocDeleted, Admit, SyncEnd, UserDelete, UserWrite, Write, UserWriteSuppressed, RenameSuppressed,
           PushBegin, PushDropped, PushEnd, Clean, Emit, Abandon, ResolveFails, Save, SaveFails, SaveOwned,
           Connect, AuthOk, Close, Restart, SyncRecreate, SyncCreate, SyncMerge, SyncTombstone, SyncDownload,
           SyncNothing, SyncFails, SyncFlush, Serve, PeerCreate, PeerDelete, Fault
  <2>7. push' \in {"none", "read", "load"}
        BY <1>0, <1>2 DEF EngineTyped, Next, DocDeleted, Admit, SyncEnd, UserDelete, UserWrite, Write, UserWriteSuppressed, RenameSuppressed,
           PushBegin, PushDropped, PushEnd, Clean, Emit, Abandon, ResolveFails, Save, SaveFails, SaveOwned,
           Connect, AuthOk, Close, Restart, SyncRecreate, SyncCreate, SyncMerge, SyncTombstone, SyncDownload,
           SyncNothing, SyncFails, SyncFlush, Serve, PeerCreate, PeerDelete, Fault
  <2>8. owned' \in {owned, 0, ownedDisk}
        BY <1>2 DEF Next, UserDelete, UserWrite, Write, UserWriteSuppressed, RenameSuppressed,
           PushBegin, PushDropped, PushEnd, Clean, Emit, Abandon, ResolveFails, Save, SaveFails, SaveOwned,
           Connect, AuthOk, Close, Restart, SyncRecreate, SyncCreate, SyncMerge, SyncTombstone, SyncDownload,
           SyncNothing, SyncFails, SyncFlush, Serve, PeerCreate, PeerDelete, Fault
  <2>9. owned' \in 0..MaxInc
        BY <1>0, <2>8, Constants DEF EngineTyped
  <2> QED
      BY <2>3, <2>4, <2>5, <2>6, <2>7, <2>9, SyncStep DEF EngineTyped
<1> QED
    BY <1>1, <1>2

-------------------------------------------------------------------------------
(* The journal and the coroutines.                                          *)

\* What a step does with them.
Stops(i) == task[i].pc \in {"resolve", "clean", "own"} /\ task' = Return(i)
Cleaned(i) == task[i].pc = "clean" /\ Owns(i) /\ task' = Goto(i, "own")

CoroutineMoves ==
  \/ UNCHANGED <<entry, task, chain, journal, sent, intents>>
  \/ Consume /\ UNCHANGED <<journal, sent, intents>>
  \/ UserDelete
  \/ DocDeleted /\ UNCHANGED <<journal, sent>>
  \/ \E i \in Intents : (Stops(i) \/ Cleaned(i)) /\ UNCHANGED <<entry, chain, journal, sent, intents>>
  \/ \E i \in Intents : Emit(i)
  \/ Save \/ SaveFails \/ Close \/ Restart
  \/ \E m \in Sendable : RecvList(m) /\ UNCHANGED <<journal, sent>>
  \/ \E m \in Sendable : RecvResolved(m) /\ UNCHANGED <<journal, sent>>

LEMMA CoroutineStep == Types /\ Next => CoroutineMoves
<1> SUFFICES ASSUME Types, Next PROVE CoroutineMoves
    OBVIOUS
<1>1. CASE Receive
  <2>1. PICK m \in Sendable : Handles(m)
        BY <1>1, ReceiveEffect
  <2>2. UNCHANGED <<journal, sent>>
        BY <1>1 DEF Receive
  <2>3. CASE RecvList(m) \/ RecvResolved(m)
        BY <2>2, <2>3 DEF CoroutineMoves
  <2>4. CASE RecvDeleted(m)
        BY <2>2, <2>4 DEF RecvDeleted, CoroutineMoves
  <2>5. CASE RecvAck(m)
        BY <2>2, <2>5 DEF RecvAck, CoroutineMoves
  <2>6. CASE RecvRejected(m)
        BY <2>2, <2>6 DEF RecvRejected, CoroutineMoves
  <2> QED
      BY <2>1, <2>3, <2>4, <2>5, <2>6 DEF Handles
<1>2. CASE \E i \in Intents : Clean(i) \/ Emit(i) \/ Abandon(i) \/ ResolveFails(i)
  <2>1. PICK i \in Intents : Clean(i) \/ Emit(i) \/ Abandon(i) \/ ResolveFails(i)
        BY <1>2
  <2>2. CASE Clean(i)
        BY <2>2 DEF Clean, Fault, Stops, Cleaned, CoroutineMoves
  <2>3. CASE Abandon(i) \/ ResolveFails(i)
        BY <2>3 DEF Abandon, ResolveFails, Fault, Stops, CoroutineMoves
  <2> QED
      BY <2>1, <2>2, <2>3 DEF CoroutineMoves
<1>3. CASE Save \/ SaveFails \/ Close \/ Restart \/ UserDelete
      BY <1>3 DEF CoroutineMoves
<1>4. CASE SyncFlush
      BY <1>4 DEF SyncFlush, CoroutineMoves
<1>5. CASE UserWrite \/ PushBegin \/ SyncRecreate
      BY <1>5 DEF UserWrite, Write, Admit, PushBegin, SyncRecreate, CoroutineMoves
<1>6. CASE PushEnd \/ AuthOk
      BY <1>6 DEF PushEnd, AuthOk, Admit, CoroutineMoves
<1>7. CASE UNCHANGED <<entry, task, chain, journal, sent, intents>>
      BY <1>7 DEF CoroutineMoves
<1> QED
    BY <1>1, <1>2, <1>3, <1>4, <1>5, <1>6, <1>7 DEF Next, Write, UserWriteSuppressed, RenameSuppressed,
       PushDropped, SaveOwned, Connect, SyncCreate, SyncMerge, SyncTombstone, SyncDownload,
       SyncNothing, SyncFails, Serve, PeerCreate, PeerDelete

\* What the head of the chain saves is the entry, or the entry with its attempt marked.
LEMMA SnapshotParts ==
  ASSUME JournalTyped, chain # <<>>
  PROVE  /\ Head(chain) \in Job /\ Tail(chain) \in Seq(Job)
         /\ Head(chain).who \in 0..MaxIntents
         /\ Snapshot \in Entry /\ Snapshot.id = entry.id /\ Snapshot.token = entry.token
         /\ entry.attempted => Snapshot.attempted
         /\ Snapshot.attempted => entry.attempted \/ (Head(chain).attempt /\ Owns(Head(chain).who))
         /\ Head(chain).attempt /\ Owns(Head(chain).who) => Snapshot.attempted
<1>1. Head(chain) \in Job /\ Tail(chain) \in Seq(Job)
      BY JobTyped DEF JournalTyped
<1>2. Head(chain).who \in 0..MaxIntents
      BY <1>1 DEF Job
<1>3. Snapshot = IF Head(chain).attempt /\ Owns(Head(chain).who) THEN [entry EXCEPT !.attempted = TRUE] ELSE entry
      BY DEF Snapshot
<1>4. entry \in Entry
      BY DEF JournalTyped
<1> QED
    BY <1>1, <1>2, <1>3, <1>4 DEF Entry

LEMMA PinParts ==
  ASSUME JournalTyped, NEW i \in Intents, NEW value \in 0..MaxInc, NEW waiting \in Seq(Job),
         Pin(i, value, waiting)
  PROVE  /\ task' \in [Intents -> Task] /\ chain' \in Seq(Job) /\ entry' \in Entry
         /\ entry'.id = entry.id /\ entry'.attempted = entry.attempted
         /\ entry'.token.kind = "pinned" /\ entry'.acked = entry.acked
<1>1. entry \in Entry
      BY DEF JournalTyped
<1>2. [kind |-> "pinned", value |-> value] \in Token
      BY DEF Token
<1>3. /\ entry' \in Entry /\ entry'.id = entry.id /\ entry'.attempted = entry.attempted
      /\ entry'.token = [kind |-> "pinned", value |-> value] /\ entry'.acked = entry.acked
      BY <1>1, <1>2 DEF Pin, Entry
<1>4. i \in 0..MaxIntents
      BY Constants DEF Intents
<1>5. task' \in [Intents -> Task]
      BY TaskParts DEF Pin, Pcs
<1>6. chain' \in Seq(Job)
      BY <1>4, JobTyped DEF Pin
<1> QED
    BY <1>3, <1>5, <1>6

LEMMA JournalStep == Types /\ Next => JournalTyped'
<1> SUFFICES ASSUME Types, Next PROVE JournalTyped'
    OBVIOUS
<1>0. JournalTyped /\ CountsTyped /\ EngineTyped
      BY DEF Types
<1>a. /\ entry \in Entry /\ journal \in Entry /\ task \in [Intents -> Task] /\ chain \in Seq(Job)
      /\ owned \in 0..MaxInc
      BY <1>0 DEF JournalTyped, EngineTyped
<1>b. Persist(FALSE, 0) \in Seq(Job)
  <2>1. 0 \in 0..MaxIntents
        BY Constants
  <2> QED
      BY <1>a, <2>1, JobTyped DEF Persist
<1>c. 0 \in 0..MaxInc
      BY Constants
<1>1. CASE UNCHANGED <<entry, task, chain, journal, sent, intents>>
      BY <1>a, <1>1 DEF JournalTyped
<1>2. CASE Consume /\ UNCHANGED <<journal, sent, intents>>
      BY <1>a, <1>b, <1>2, NoEntryTyped DEF Consume, JournalTyped
<1>3. CASE UserDelete
  <2>1. intents < MaxIntents /\ entry' = NewIntent(owned) /\ journal' = journal
        BY <1>3 DEF UserDelete
  <2>2. /\ NewIntent(owned) \in Entry /\ NewIntent(owned).id = intents + 1
        /\ intents + 1 # 0
        BY <1>a, <1>0, <2>1, NewIntentTyped, Constants DEF CountsTyped
  <2>3. task' \in [Intents -> Task] /\ chain' \in Seq(Job)
        BY <1>0, <1>a, <1>3, <2>2, SendEffect DEF UserDelete
  <2> QED
      BY <1>a, <2>1, <2>2, <2>3 DEF JournalTyped
<1>4. CASE DocDeleted /\ UNCHANGED <<journal, sent>>
  <2>1. /\ task' = task /\ chain' \in {chain, Persist(FALSE, 0)}
        /\ \/ intents < MaxIntents /\ entry' = NewIntent(0)
           \/ entry' = entry \/ entry' = [entry EXCEPT !.acked = TRUE]
        BY <1>4 DEF DocDeleted
  <2>2. entry' \in Entry
        BY <1>a, <1>c, <2>1, NewIntentTyped, EntryParts
  <2> QED
      BY <1>a, <1>b, <1>4, <2>1, <2>2 DEF JournalTyped
<1>5. CASE \E i \in Intents : (Stops(i) \/ Cleaned(i)) /\ UNCHANGED <<entry, chain, journal, sent, intents>>
      BY <1>0, <1>a, <1>5, TaskParts DEF Stops, Cleaned, JournalTyped, Pcs
<1>6. CASE \E i \in Intents : Emit(i)
  <2>1. PICK i \in Intents : Emit(i)
        BY <1>6
  <2>2. i \in 0..MaxIntents
        BY Constants DEF Intents
  <2>3. Persist(FALSE, i) \in Seq(Job)
        BY <1>a, <2>2, JobTyped DEF Persist
  <2>4. task' \in [Intents -> Task]
        BY <1>0, <2>1, TaskParts DEF Emit, Pcs
  <2>5. entry' \in Entry
        BY <1>a, <2>1, EntryParts DEF Emit
  <2> QED
      BY <1>a, <2>1, <2>3, <2>4, <2>5 DEF Emit, JournalTyped
<1>7. CASE Save
  <2>1. chain # <<>> /\ journal' = Snapshot
        BY <1>7 DEF Save
  <2>2. /\ Snapshot \in Entry /\ Tail(chain) \in Seq(Job) /\ Head(chain).who \in 0..MaxIntents
        BY <1>0, <2>1, SnapshotParts
  <2> DEFINE i == Head(chain).who
  <2>3. i # 0 => i \in Intents
        BY <2>2, Constants DEF Intents
  <2>4. \/ i = 0 /\ chain' = Tail(chain) /\ UNCHANGED <<entry, task>>
        \/ i # 0 /\ Saved(i)
        \/ i # 0 /\ Attempted(i)
        \/ i # 0 /\ task' = Return(i) /\ chain' = Tail(chain) /\ UNCHANGED entry
        BY <1>7 DEF Save
  <2>5. CASE i # 0 /\ Saved(i)
    <3>1. CASE Pin(i, entry.token.value, Tail(chain))
          BY <1>0, <1>a, <2>1, <2>2, <2>3, <2>5, <3>1, PinParts, EntryParts DEF JournalTyped
    <3>2. CASE ~Pin(i, entry.token.value, Tail(chain))
      <4>1. task' \in {Return(i), Goto(i, "resolve")} /\ chain' = Tail(chain) /\ entry' = entry
            BY <2>5, <3>2 DEF Saved
      <4> QED
          BY <1>0, <1>a, <2>1, <2>2, <2>3, <2>5, <4>1, TaskParts DEF JournalTyped, Pcs
    <3> QED
        BY <3>1, <3>2, Zenon
  <2>6. CASE i # 0 /\ Attempted(i)
    <3>1. task' \in {Return(i), Goto(i, "clean")} /\ chain' = Tail(chain) /\ entry' = Snapshot
          BY <2>6 DEF Attempted
    <3> QED
        BY <1>0, <2>1, <2>2, <2>3, <2>6, <3>1, TaskParts DEF JournalTyped, Pcs
  <2>7. CASE i # 0 /\ task' = Return(i) /\ chain' = Tail(chain) /\ UNCHANGED entry
        BY <1>0, <1>a, <2>1, <2>2, <2>3, <2>7, TaskParts DEF JournalTyped
  <2>8. CASE i = 0 /\ chain' = Tail(chain) /\ UNCHANGED <<entry, task>>
        BY <1>a, <2>1, <2>2, <2>8 DEF JournalTyped
  <2> QED
      BY <2>4, <2>5, <2>6, <2>7, <2>8
<1>8. CASE SaveFails
  <2>1. /\ chain # <<>> /\ journal' \in {journal, Snapshot, NoEntry} /\ chain' = Tail(chain) /\ entry' = entry
        /\ task' = IF Head(chain).who = 0 THEN task ELSE Return(Head(chain).who)
        BY <1>8 DEF SaveFails, Torn
  <2>2. /\ Snapshot \in Entry /\ Tail(chain) \in Seq(Job) /\ Head(chain).who \in 0..MaxIntents
        BY <1>0, <2>1, SnapshotParts
  <2>3. Head(chain).who # 0 => Head(chain).who \in Intents
        BY <2>2, Constants DEF Intents
  <2> QED
      BY <1>0, <1>a, <2>1, <2>2, <2>3, TaskParts, NoEntryTyped DEF JournalTyped
<1>9. CASE Close
  <2>1. NoTask \in Task
        BY DEF NoTask, Task, Pcs
  <2> QED
      BY <1>a, <1>9, <2>1 DEF Close, JournalTyped
<1>10. CASE Restart
  <2>1. NoTask \in Task
        BY DEF NoTask, Task, Pcs
  <2>2. journal' \in Entry /\ entry' = journal'
    <3>1. /\ entry' = journal' /\ (chain = <<>> => journal' = journal)
          /\ chain # <<>> => journal' \in {journal, Snapshot, NoEntry}
          BY <1>10 DEF Restart, Torn
    <3> QED
        BY <1>0, <1>a, <3>1, SnapshotParts, NoEntryTyped
  <2>3. task' \in [Intents -> Task] /\ chain' = <<>>
        BY <1>10, <2>1 DEF Restart
  <2>4. <<>> \in Seq(Job)
        OBVIOUS
  <2> QED
      BY <2>2, <2>3, <2>4 DEF JournalTyped
<1>11. CASE \E m \in Sendable : RecvList(m) /\ UNCHANGED <<journal, sent>>
  <2>1. PICK m \in Sendable : RecvList(m) /\ UNCHANGED <<journal, sent>>
        BY <1>11
  <2> DEFINE e == Reconciled(m.inc # 0, m.flag)
             waiting == IF entry.id = 0 THEN chain ELSE Persist(FALSE, 0)
  <2>2. e \in {NoEntry, entry} /\ waiting \in Seq(Job)
        BY <1>a, <1>b DEF Reconciled
  <2>3. /\ entry' = e /\ journal' = journal
        /\ \/ e.id # 0 /\ SendDocDelete(e, waiting)
           \/ chain' = waiting /\ task' = task
        BY <2>1 DEF RecvList
  <2>4. e \in Entry
        BY <1>a, <2>2, NoEntryTyped
  <2> HIDE DEF e, waiting
  <2>5. chain' \in Seq(Job) /\ task' \in [Intents -> Task]
        BY <1>0, <1>a, <2>2, <2>3, <2>4, SendEffect
  <2> QED
      BY <1>a, <2>3, <2>4, <2>5 DEF JournalTyped
<1>12. CASE \E m \in Sendable : RecvResolved(m) /\ UNCHANGED <<journal, sent>>
  <2>1. PICK m \in Sendable : RecvResolved(m) /\ UNCHANGED <<journal, sent>>
        BY <1>12
  <2>2. m.id \in Intents /\ m.inc \in 0..MaxInc
        BY <2>1, FrameParts DEF RecvResolved
  <2>3. \/ Pin(m.id, m.inc, chain)
        \/ task' = Return(m.id) /\ UNCHANGED <<entry, chain>>
        \/ UNCHANGED <<entry, task, chain>>
        BY <2>1 DEF RecvResolved
  <2> QED
      BY <1>0, <1>a, <2>1, <2>2, <2>3, PinParts, TaskParts DEF JournalTyped
<1> QED
    BY <1>1, <1>2, <1>3, <1>4, <1>5, <1>6, <1>7, <1>8, <1>9, <1>10, <1>11, <1>12, CoroutineStep
       DEF CoroutineMoves

LEMMA TypesStep == Types /\ Next => Types'
BY ServerStep, LinkStep, EngineStep, JournalStep, CountsStep DEF Types

-------------------------------------------------------------------------------
(* The writes that wait.                                                    *)

\* The elements of a longer sequence.
LEMMA AppendIndex ==
  ASSUME NEW S, NEW c \in Seq(S), NEW x \in S
  PROVE  /\ DOMAIN c = 1..Len(c) /\ DOMAIN Append(c, x) = 1..(Len(c) + 1) /\ Len(c) \in Nat
         /\ \A k \in 1..Len(c) : Append(c, x)[k] = c[k] /\ c[k] \in S
         /\ Append(c, x)[Len(c) + 1] = x
BY AppendProperties

\* A write in the background concerns no coroutine.
LEMMA Background ==
  ASSUME NEW c \in Seq(Job), NEW t, WaitsFor(c, t)
  PROVE  WaitsFor(Append(c, [attempt |-> FALSE, who |-> 0]), t)
<1> DEFINE job == [attempt |-> FALSE, who |-> 0]
           d == Append(c, job)
<1>1. job \in Job /\ job.who = 0 /\ job.attempt = FALSE
      BY Constants DEF Job
<1> HIDE DEF job
<1>2. /\ DOMAIN c = 1..Len(c) /\ DOMAIN d = 1..(Len(c) + 1) /\ Len(c) \in Nat
      /\ \A k \in 1..Len(c) : d[k] = c[k]
      /\ d[Len(c) + 1] = job
      BY <1>1, AppendIndex
<1>3. \A k \in DOMAIN d : k \in DOMAIN c \/ k = Len(c) + 1
      BY <1>2
<1> HIDE DEF d
<1>4. WaitsFor(d, t)
      BY <1>1, <1>2, <1>3 DEF WaitsFor
<1> QED
    BY <1>4 DEF d, job

\* A coroutine that waits for no write starts to wait for its own.
LEMMA Joins ==
  ASSUME NEW c \in Seq(Job), NEW t \in [Intents -> Task], NEW s \in [Intents -> Task],
         NEW i \in Intents, NEW a \in BOOLEAN,
         WaitsFor(c, t), t[i].pc \notin Writing, s[i].pc \in Writing, a = (s[i].pc = "attempt"),
         \A j \in Intents \ {i} : s[j] = t[j]
  PROVE  WaitsFor(Append(c, [attempt |-> a, who |-> i]), s)
<1> DEFINE d == Append(c, [attempt |-> a, who |-> i])
<1>0. i # 0 /\ [attempt |-> a, who |-> i] \in Job
      BY Constants DEF Intents, Job
<1>1. /\ DOMAIN c = 1..Len(c) /\ DOMAIN d = 1..(Len(c) + 1) /\ Len(c) \in Nat
      /\ \A k \in 1..Len(c) : d[k] = c[k] /\ c[k] \in Job
      /\ d[Len(c) + 1] = [attempt |-> a, who |-> i]
      BY <1>0, AppendIndex
<1>2. \A k \in 1..Len(c) : c[k].who # 0 => c[k].who \in Intents
      BY <1>1, Constants DEF Job, Intents
<1>3. \A k \in 1..Len(c) : c[k].who # i
      BY <1>0, <1>1 DEF WaitsFor
<1>4. \A k \in DOMAIN d : k \in 1..Len(c) \/ k = Len(c) + 1
      BY <1>1
<1> HIDE DEF d
<1>5. \A k \in DOMAIN d : d[k].who # 0 => s[d[k].who].pc \in Writing
      BY <1>1, <1>2, <1>3, <1>4 DEF WaitsFor
<1>6. \A k, l \in DOMAIN d : d[k].who # 0 /\ d[k].who = d[l].who => k = l
      BY <1>1, <1>3, <1>4 DEF WaitsFor
<1>7. \A j \in Intents : s[j].pc \in Writing => \E k \in DOMAIN d : d[k].who = j
  <2> SUFFICES ASSUME NEW j \in Intents, s[j].pc \in Writing PROVE \E k \in DOMAIN d : d[k].who = j
      OBVIOUS
  <2>1. CASE j = i
        BY <1>1, <2>1
  <2>2. CASE j # i
    <3>1. PICK k \in DOMAIN c : c[k].who = j
          BY <2>2 DEF WaitsFor
    <3> QED
        BY <1>1, <3>1
  <2> QED
      BY <2>1, <2>2
<1>8. \A k \in DOMAIN d : d[k].attempt <=> d[k].who # 0 /\ s[d[k].who].pc = "attempt"
  <2> SUFFICES ASSUME NEW k \in DOMAIN d
               PROVE  d[k].attempt <=> d[k].who # 0 /\ s[d[k].who].pc = "attempt"
      OBVIOUS
  <2>1. CASE k \in 1..Len(c)
    <3>1. d[k] = c[k] /\ (c[k].who # 0 => s[c[k].who] = t[c[k].who])
          BY <1>1, <1>2, <1>3, <2>1
    <3> QED
        BY <1>1, <2>1, <3>1 DEF WaitsFor
  <2>2. CASE k = Len(c) + 1
    <3>1. d[k].attempt = a /\ d[k].who = i
          BY <1>1, <2>2
    <3> QED
        BY <1>0, <3>1
  <2> QED
      BY <1>4, <2>1, <2>2
<1> QED
    BY <1>5, <1>6, <1>7, <1>8 DEF WaitsFor, d

\* The write at the head is done: the coroutine that waited for it, if any, waits no more.
LEMMA Leaves ==
  ASSUME NEW c \in Seq(Job), NEW t \in [Intents -> Task], NEW s \in [Intents -> Task], c # <<>>,
         WaitsFor(c, t),
         \A j \in Intents : IF j = Head(c).who THEN s[j].pc \notin Writing ELSE s[j] = t[j]
  PROVE  WaitsFor(Tail(c), s)
<1> DEFINE d == Tail(c)
<1>1. /\ DOMAIN c = 1..Len(c) /\ DOMAIN d = 1..(Len(c) - 1) /\ Len(c) \in Nat /\ Len(c) > 0
      /\ Head(c) = c[1] /\ \A k \in 1..Len(c) : c[k] \in Job
      /\ \A k \in DOMAIN d : d[k] = c[k + 1] /\ k + 1 \in DOMAIN c /\ k + 1 # 1
      OBVIOUS
<1>2. \A k \in 1..Len(c) : c[k].who # 0 => c[k].who \in Intents
      BY <1>1, Constants DEF Job, Intents
<1>3. \A k \in DOMAIN d : d[k].who # 0 => d[k].who # Head(c).who
      BY <1>1 DEF WaitsFor
<1>4. \A k \in DOMAIN d : d[k].who # 0 => d[k].who \in Intents /\ s[d[k].who] = t[d[k].who]
      BY <1>1, <1>2, <1>3
<1> HIDE DEF d
<1>5. \A k \in DOMAIN d : d[k].who # 0 => s[d[k].who].pc \in Writing
      BY <1>1, <1>4 DEF WaitsFor
<1>6. \A k, l \in DOMAIN d : d[k].who # 0 /\ d[k].who = d[l].who => k = l
  <2> SUFFICES ASSUME NEW k \in DOMAIN d, NEW l \in DOMAIN d, d[k].who # 0, d[k].who = d[l].who
               PROVE  k = l
      OBVIOUS
  <2>1. k + 1 = l + 1
        BY <1>1 DEF WaitsFor
  <2> QED
      BY <1>1, <2>1
<1>7. \A j \in Intents : s[j].pc \in Writing => \E k \in DOMAIN d : d[k].who = j
  <2> SUFFICES ASSUME NEW j \in Intents, s[j].pc \in Writing PROVE \E k \in DOMAIN d : d[k].who = j
      OBVIOUS
  <2>1. j # Head(c).who /\ s[j] = t[j]
        OBVIOUS
  <2>2. PICK k \in DOMAIN c : c[k].who = j
        BY <2>1 DEF WaitsFor
  <2>3. k # 1 /\ k - 1 \in DOMAIN d /\ k - 1 + 1 = k
        BY <1>1, <2>1, <2>2
  <2> QED
      BY <1>1, <2>2, <2>3
<1>8. \A k \in DOMAIN d : d[k].attempt <=> d[k].who # 0 /\ s[d[k].who].pc = "attempt"
      BY <1>1, <1>4 DEF WaitsFor
<1> QED
    BY <1>5, <1>6, <1>7, <1>8 DEF WaitsFor, d

\* Coroutines that wait for no write move.
LEMMA Moves ==
  ASSUME NEW c \in Seq(Job), NEW t, NEW s, WaitsFor(c, t),
         \A j \in Intents : s[j] = t[j] \/ (s[j].pc \notin Writing /\ t[j].pc \notin Writing)
  PROVE  WaitsFor(c, s)
<1>1. \A k \in DOMAIN c : c[k].who \in 0..MaxIntents
  <2>1. \A k \in DOMAIN c : c[k] \in Job
        OBVIOUS
  <2> QED
      BY <2>1 DEF Job
<1>2. \A k \in DOMAIN c : c[k].who # 0 => c[k].who \in Intents
      BY <1>1, Constants DEF Intents
<1> QED
    BY <1>2 DEF WaitsFor, Writing

LEMMA SendWaits ==
  ASSUME JournalTyped, NEW e \in Entry, e.id # 0, NEW waiting \in Seq(Job), SendDocDelete(e, waiting),
         WaitsFor(waiting, task)
  PROVE  WaitsFor(chain', task')
<1>1. CASE chain' = waiting /\ task' = task
      BY <1>1
<1>2. CASE Starts(e, waiting)
  <2>0. e.id \in 0..MaxIntents
        BY DEF Entry
  <2>1. e.id \in Intents
        BY <2>0, Constants DEF Intents
  <2>2. task \in [Intents -> Task] /\ task' \in [Intents -> Task]
        BY SendEffect DEF JournalTyped
  <2>3. /\ task[e.id].pc \notin Writing /\ task'[e.id].pc \in Writing /\ task'[e.id].pc # "attempt"
        /\ \A j \in Intents \ {e.id} : task'[j] = task[j]
        BY <1>2, <2>1, <2>2 DEF Starts, Writing
  <2> DEFINE i == e.id
             t == task'
  <2> HIDE DEF t
  <2>4. WaitsFor(Append(waiting, [attempt |-> FALSE, who |-> e.id]), t)
        BY <2>1, <2>2, <2>3, Joins DEF t
  <2> QED
      BY <1>2, <2>4 DEF Starts, t
<1> QED
    BY <1>1, <1>2, SendEffect

LEMMA PinWaits ==
  ASSUME JournalTyped, NEW i \in Intents, NEW value \in 0..MaxInc, NEW waiting \in Seq(Job),
         Pin(i, value, waiting), NEW t \in [Intents -> Task], WaitsFor(waiting, t),
         t[i].pc \notin Writing, \A j \in Intents \ {i} : t[j] = task[j]
  PROVE  WaitsFor(chain', task')
<1>1. task' = Goto(i, "attempt") /\ chain' = Append(waiting, [attempt |-> TRUE, who |-> i])
      BY DEF Pin
<1>2. /\ Goto(i, "attempt") \in [Intents -> Task] /\ Goto(i, "attempt")[i].pc = "attempt"
      /\ \A j \in Intents \ {i} : Goto(i, "attempt")[j] = t[j]
  <2>1. /\ Goto(i, "attempt") \in [Intents -> Task] /\ Goto(i, "attempt")[i].pc = "attempt"
        /\ \A j \in Intents \ {i} : Goto(i, "attempt")[j] = task[j]
        BY TaskParts DEF Pcs
  <2> QED
      BY <2>1
<1>3. WaitsFor(Append(waiting, [attempt |-> TRUE, who |-> i]), Goto(i, "attempt"))
      BY <1>2, Joins DEF Writing
<1> QED
    BY <1>1, <1>3

LEMMA WaitsStep == Types /\ Waits /\ Next => Waits'
<1> SUFFICES ASSUME Types, Waits, Next PROVE WaitsFor(chain', task')
    BY DEF Waits
<1>0. JournalTyped /\ CountsTyped /\ EngineTyped
      BY DEF Types
<1>a. /\ entry \in Entry /\ task \in [Intents -> Task] /\ chain \in Seq(Job)
      /\ owned \in 0..MaxInc /\ WaitsFor(chain, task)
      BY <1>0 DEF JournalTyped, EngineTyped, Waits
<1>b. WaitsFor(Persist(FALSE, 0), task) /\ Persist(FALSE, 0) \in Seq(Job)
  <2>1. 0 \in 0..MaxIntents
        BY Constants
  <2> QED
      BY <1>a, <2>1, Background, JobTyped DEF Persist
<1>1. CASE UNCHANGED <<task, chain>>
      BY <1>a, <1>1
<1>2. CASE task' = task /\ chain' \in {chain, Persist(FALSE, 0)}
      BY <1>a, <1>b, <1>2
<1>3. CASE UserDelete
  <2>1. intents < MaxIntents /\ SendDocDelete(NewIntent(owned), chain)
        BY <1>3 DEF UserDelete
  <2>2. NewIntent(owned) \in Entry /\ NewIntent(owned).id # 0
        BY <1>a, <1>0, <2>1, NewIntentTyped, Constants DEF CountsTyped
  <2> QED
      BY <1>0, <1>a, <2>1, <2>2, SendWaits
<1>4. CASE \E i \in Intents : (Stops(i) \/ Cleaned(i)) /\ UNCHANGED chain
  <2>1. PICK i \in Intents : (Stops(i) \/ Cleaned(i)) /\ UNCHANGED chain
        BY <1>4
  <2>2. /\ task[i].pc \notin Writing
        /\ task' \in {Return(i), Goto(i, "own")}
        BY <2>1 DEF Stops, Cleaned, Writing
  <2>3. task'[i].pc \notin Writing /\ \A j \in Intents \ {i} : task'[j] = task[j]
        BY <1>0, <2>2, TaskParts DEF Writing, Pcs
  <2> DEFINE s == task'
  <2>4. \A j \in Intents : s[j] = task[j] \/ (s[j].pc \notin Writing /\ task[j].pc \notin Writing)
        BY <2>2, <2>3
  <2> HIDE DEF s
  <2>5. WaitsFor(chain, s)
        BY <1>a, <2>4, Moves
  <2> QED
      BY <2>1, <2>5 DEF s
<1>5. CASE \E i \in Intents : Emit(i)
  <2>1. PICK i \in Intents : Emit(i)
        BY <1>5
  <2>2. /\ task[i].pc = "own" /\ task' = Goto(i, "final")
        /\ chain' = Append(chain, [attempt |-> FALSE, who |-> i])
        BY <2>1 DEF Emit, Persist
  <2>3. /\ Goto(i, "final") \in [Intents -> Task] /\ Goto(i, "final")[i].pc = "final"
        /\ \A j \in Intents \ {i} : Goto(i, "final")[j] = task[j]
        BY <1>0, TaskParts DEF Pcs
  <2>4. WaitsFor(Append(chain, [attempt |-> FALSE, who |-> i]), Goto(i, "final"))
        BY <1>a, <2>2, <2>3, Joins DEF Writing
  <2> QED
      BY <2>2, <2>4
<1>6. ASSUME chain # <<>>, chain' = Tail(chain), NEW s \in [Intents -> Task], task' = s,
             \A j \in Intents : IF j = Head(chain).who THEN s[j].pc \notin Writing ELSE s[j] = task[j]
      PROVE  WaitsFor(chain', task')
  <2>1. WaitsFor(Tail(chain), s)
        BY <1>a, <1>6, Leaves
  <2> QED
      BY <1>6, <2>1
<1>7. ASSUME chain # <<>>, chain' = Tail(chain), Head(chain).who # 0,
             \/ task' = Return(Head(chain).who)
             \/ \E pc \in {"resolve", "clean"} : task' = Goto(Head(chain).who, pc)
      PROVE  WaitsFor(chain', task')
  <2>1. Head(chain).who \in Intents
        BY <1>0, <1>7, SnapshotParts, Constants DEF Intents
  <2>2. CASE task' = Return(Head(chain).who)
    <3>1. /\ Return(Head(chain).who) \in [Intents -> Task]
          /\ Return(Head(chain).who)[Head(chain).who].pc \notin Writing
          /\ \A j \in Intents \ {Head(chain).who} : Return(Head(chain).who)[j] = task[j]
          BY <1>0, <2>1, TaskParts DEF Writing
    <3> QED
        BY <1>6, <1>7, <2>2, <3>1
  <2>3. CASE \E pc \in {"resolve", "clean"} : task' = Goto(Head(chain).who, pc)
    <3>1. PICK pc \in {"resolve", "clean"} : task' = Goto(Head(chain).who, pc)
          BY <2>3
    <3>2. /\ Goto(Head(chain).who, pc) \in [Intents -> Task]
          /\ Goto(Head(chain).who, pc)[Head(chain).who].pc \notin Writing
          /\ \A j \in Intents \ {Head(chain).who} : Goto(Head(chain).who, pc)[j] = task[j]
          BY <1>0, <2>1, TaskParts DEF Writing, Pcs
    <3> QED
        BY <1>6, <1>7, <3>1, <3>2
  <2> QED
      BY <1>7, <2>2, <2>3
<1>8. ASSUME chain # <<>>, chain' = Tail(chain), Head(chain).who = 0, task' = task
      PROVE  WaitsFor(chain', task')
  <2>1. \A j \in Intents : j # Head(chain).who
        BY <1>8, Constants DEF Intents
  <2> QED
      BY <1>6, <1>8, <1>a, <2>1
<1>9. CASE Save
  <2> DEFINE i == Head(chain).who
  <2>1. chain # <<>>
        BY <1>9 DEF Save
  <2>2. \/ i = 0 /\ chain' = Tail(chain) /\ UNCHANGED <<entry, task>>
        \/ i # 0 /\ Saved(i)
        \/ i # 0 /\ Attempted(i)
        \/ i # 0 /\ task' = Return(i) /\ chain' = Tail(chain) /\ UNCHANGED entry
        BY <1>9 DEF Save
  <2>3. CASE i # 0 /\ Saved(i)
    <3>0. i \in Intents /\ Tail(chain) \in Seq(Job)
          BY <1>0, <2>1, <2>3, SnapshotParts, Constants DEF Intents
    <3>1. CASE Pin(i, entry.token.value, Tail(chain))
      <4>1. /\ Return(i) \in [Intents -> Task] /\ Return(i)[i].pc \notin Writing
            /\ \A j \in Intents \ {i} : Return(i)[j] = task[j]
            BY <1>0, <3>0, TaskParts DEF Writing
      <4>2. WaitsFor(Tail(chain), Return(i))
            BY <1>a, <2>1, <4>1, Leaves
      <4>3. entry.token.value \in 0..MaxInc
            BY <1>a, EntryParts
      <4> QED
          BY <1>0, <3>0, <3>1, <4>1, <4>2, <4>3, PinWaits
    <3>2. CASE ~Pin(i, entry.token.value, Tail(chain))
      <4>1. task' \in {Return(i), Goto(i, "resolve")} /\ chain' = Tail(chain)
            BY <2>3, <3>2 DEF Saved
      <4> QED
          BY <1>7, <2>1, <2>3, <4>1
    <3> QED
        BY <3>1, <3>2
  <2>4. CASE i # 0 /\ Attempted(i)
    <3>1. task' \in {Return(i), Goto(i, "clean")} /\ chain' = Tail(chain)
          BY <2>4 DEF Attempted
    <3> QED
        BY <1>7, <2>1, <2>4, <3>1
  <2> QED
      BY <1>7, <1>8, <2>1, <2>2, <2>3, <2>4
<1>10. CASE SaveFails
  <2>1. /\ chain # <<>> /\ chain' = Tail(chain)
        /\ task' = IF Head(chain).who = 0 THEN task ELSE Return(Head(chain).who)
        BY <1>10 DEF SaveFails
  <2> QED
      BY <1>7, <1>8, <2>1
<1>11. CASE Close
  <2>1. task' = [j \in Intents |-> IF task[j].pc = "resolve" THEN NoTask ELSE task[j]] /\ chain' = chain
        BY <1>11 DEF Close
  <2> DEFINE s == [j \in Intents |-> IF task[j].pc = "resolve" THEN NoTask ELSE task[j]]
  <2>2. \A j \in Intents : s[j] = task[j] \/ (s[j].pc \notin Writing /\ task[j].pc \notin Writing)
        BY DEF Writing, NoTask
  <2> HIDE DEF s
  <2>3. WaitsFor(chain, s)
        BY <1>a, <2>2, Moves
  <2> QED
      BY <2>1, <2>3 DEF s
<1>12. CASE Restart
  <2>1. task' = [j \in Intents |-> NoTask] /\ chain' = <<>>
        BY <1>12 DEF Restart
  <2>2. \A j \in Intents : [k \in Intents |-> NoTask][j].pc \notin Writing
        BY DEF NoTask, Writing
  <2>3. WaitsFor(<<>>, [j \in Intents |-> NoTask])
        BY <2>2 DEF WaitsFor
  <2> QED
      BY <2>1, <2>3
<1>13. CASE \E m \in Sendable : RecvList(m) /\ UNCHANGED <<journal, sent>>
  <2>1. PICK m \in Sendable : RecvList(m)
        BY <1>13
  <2> DEFINE e == Reconciled(m.inc # 0, m.flag)
             waiting == IF entry.id = 0 THEN chain ELSE Persist(FALSE, 0)
  <2>2. e \in {NoEntry, entry} /\ waiting \in Seq(Job) /\ WaitsFor(waiting, task)
        BY <1>a, <1>b DEF Reconciled
  <2>3. \/ e.id # 0 /\ SendDocDelete(e, waiting)
        \/ chain' = waiting /\ task' = task
        BY <2>1 DEF RecvList
  <2>4. e \in Entry
        BY <1>a, <2>2, NoEntryTyped
  <2> HIDE DEF e, waiting
  <2> QED
      BY <1>0, <2>2, <2>3, <2>4, SendWaits
<1>14. CASE \E m \in Sendable : RecvResolved(m) /\ UNCHANGED <<journal, sent>>
  <2>1. PICK m \in Sendable : RecvResolved(m)
        BY <1>14
  <2>2. m.id \in Intents /\ m.inc \in 0..MaxInc
        BY <2>1, FrameParts DEF RecvResolved
  <2>3. CASE task[m.id].pc = "resolve" /\ Pin(m.id, m.inc, chain)
        BY <1>0, <1>a, <2>2, <2>3, PinWaits DEF Writing
  <2>4. CASE task[m.id].pc = "resolve" /\ task' = Return(m.id) /\ chain' = chain
    <3>1. task'[m.id].pc \notin Writing /\ \A j \in Intents \ {m.id} : task'[j] = task[j]
          BY <1>0, <2>2, <2>4, TaskParts DEF Writing
    <3> DEFINE s == task'
    <3>2. \A j \in Intents : s[j] = task[j] \/ (s[j].pc \notin Writing /\ task[j].pc \notin Writing)
          BY <2>4, <3>1 DEF Writing
    <3> HIDE DEF s
    <3>3. WaitsFor(chain, s)
          BY <1>a, <3>2, Moves
    <3> QED
        BY <2>4, <3>3 DEF s
  <2> QED
      BY <1>1, <2>1, <2>3, <2>4 DEF RecvResolved
<1> QED
    BY <1>1, <1>2, <1>3, <1>4, <1>5, <1>9, <1>10, <1>11, <1>12, <1>13, <1>14, CoroutineStep
       DEF CoroutineMoves, Consume, DocDeleted

\* Waits counts to one: TypeOK's form of it.
LEMMA OneWrite ==
  ASSUME Types, Waits, NEW i \in Intents
  PROVE  Cardinality({k \in DOMAIN chain : chain[k].who = i}) = IF task[i].pc \in Writing THEN 1 ELSE 0
<1> DEFINE mine == {k \in DOMAIN chain : chain[k].who = i}
<1>0. i # 0
      BY Constants DEF Intents
<1>1. CASE task[i].pc \in Writing
  <2>1. PICK k \in DOMAIN chain : chain[k].who = i
        BY <1>1 DEF Waits, WaitsFor
  <2>2. mine = {k}
        BY <1>0, <2>1 DEF Waits, WaitsFor
  <2> QED
      BY <1>1, <2>2, FS_Singleton
<1>2. CASE task[i].pc \notin Writing
  <2>1. mine = {}
        BY <1>0, <1>2 DEF Waits, WaitsFor
  <2> QED
      BY <1>2, <2>1, FS_EmptySet
<1> QED
    BY <1>1, <1>2

LEMMA TypesGive == Types /\ Waits => TypeOK
<1> SUFFICES ASSUME Types, Waits PROVE TypeOK
    OBVIOUS
<1>1. up \in Seq(Frame) /\ down \in Seq(Frame)
      BY DEF Types, LinkTyped, Sendable
<1>2. {file, serverTomb, accept, flush} \subseteq BOOLEAN
      BY DEF Types, EngineTyped
<1>3. \A i \in Intents :
        Cardinality({k \in DOMAIN chain : chain[k].who = i}) = IF task[i].pc \in Writing THEN 1 ELSE 0
      BY OneWrite
<1> QED
    BY <1>1, <1>2, <1>3 DEF TypeOK, Types, ServerTyped, LinkTyped, EngineTyped, JournalTyped, CountsTyped,
       Job, SyncState

-------------------------------------------------------------------------------
(* What the device knows of the deletes it sent.                            *)

\* The head of the chain marks its snapshot exactly for a coroutine about to attempt.
LEMMA HeadMarks ==
  ASSUME Types, Waits, chain # <<>>
  PROVE  Head(chain).attempt <=> Head(chain).who # 0 /\ task[Head(chain).who].pc = "attempt"
<1>1. chain \in Seq(Job)
      BY DEF Types, JournalTyped
<1>2. 1 \in DOMAIN chain /\ Head(chain) = chain[1]
      BY <1>1
<1> QED
    BY <1>2 DEF Waits, WaitsFor

\* What a torn or finished write leaves on disk knows of every attempt, when memory does.
LEMMA SnapshotLedger ==
  ASSUME Types, Waits, Ledger, chain # <<>>, NEW j, j \in {journal, Snapshot, NoEntry}
  PROVE  /\ j.id <= intents /\ (j.attempted => j.token.kind = "pinned")
         /\ \A i \in Intents : sent[i] # 0 \/ task[i].pc \in {"clean", "own"} => (j.id = i => j.attempted)
<1>0. JournalTyped /\ intents \in Nat
      BY Constants DEF Types, CountsTyped
<1>1. CASE j = journal
      BY <1>1 DEF Ledger, Fresh, Pinned, Unsent, Known
<1>2. CASE j = NoEntry
      BY <1>0, <1>2, NoEntryTyped, Constants DEF Intents
<1>3. CASE j = Snapshot
  <2>1. j.id = entry.id /\ j.token = entry.token /\ (entry.attempted => j.attempted)
        BY <1>0, <1>3, SnapshotParts
  <2>2. j.attempted => entry.token.kind = "pinned"
    <3>1. CASE entry.attempted
          BY <3>1 DEF Ledger, Pinned
    <3>2. CASE Head(chain).attempt /\ Owns(Head(chain).who)
      <4>1. Head(chain).who \in Intents /\ task[Head(chain).who].pc = "attempt"
            BY <1>0, <3>2, HeadMarks, SnapshotParts, Constants DEF Intents
      <4> QED
          BY <3>2, <4>1 DEF Ledger, Pinned
    <3> QED
        BY <1>0, <1>3, <3>1, <3>2, SnapshotParts
  <2> QED
      BY <2>1, <2>2 DEF Ledger, Fresh, Unsent, Known
<1> QED
    BY <1>1, <1>2, <1>3

LEMMA LedgerStep == Types /\ Waits /\ Ledger /\ Next => Ledger'
<1> SUFFICES ASSUME Types, Waits, Ledger, Next PROVE Ledger'
    OBVIOUS
<1>0. JournalTyped /\ CountsTyped /\ EngineTyped
      BY DEF Types
<1>a. /\ entry \in Entry /\ task \in [Intents -> Task] /\ chain \in Seq(Job)
      /\ owned \in 0..MaxInc /\ intents \in Nat /\ sent \in [Intents -> Nat]
      BY <1>0, Constants DEF JournalTyped, EngineTyped, CountsTyped
<1>c. journal.id \in Nat /\ entry.id \in Nat
      BY <1>0, Constants DEF JournalTyped, Entry
<1>b. NoEntry.id = 0 /\ ~NoEntry.attempted /\ 0 \notin Intents
      BY NoEntryTyped, Constants DEF Intents
<1>1. CASE UNCHANGED <<entry, task, chain, journal, sent, intents>>
      BY <1>1 DEF Ledger, Fresh, Pinned, Unsent, Known, Owns
<1>2. CASE Consume /\ UNCHANGED <<journal, sent, intents>>
      BY <1>2, <1>a, <1>b DEF Consume, Ledger, Fresh, Pinned, Unsent, Known, Owns
<1>3. CASE UserDelete
  <2> DEFINE n == intents + 1
             new == NewIntent(owned)
  <2>1. intents < MaxIntents /\ entry' = new /\ intents' = n /\ UNCHANGED <<journal, sent>>
        BY <1>3 DEF UserDelete
  <2>2. new \in Entry /\ new.id = n /\ ~new.attempted /\ n \in Intents /\ n # 0
        BY <1>a, <2>1, NewIntentTyped
  <2>3. Starts(new, chain) \/ task' = task
        BY <1>0, <1>a, <1>3, <2>2, SendEffect DEF UserDelete
  <2>4. sent[n] = 0 /\ task[n].pc = "none"
        BY <1>a, <2>2 DEF Ledger, Fresh
  <2>5. /\ \A i \in Intents \ {n} : task'[i] = task[i]
        /\ task'[n].pc \in {"none", "persist"}
        BY <1>a, <2>2, <2>3, <2>4 DEF Starts
  <2> HIDE DEF new
  <2>6. Fresh'
    <3>1. entry'.id <= intents' /\ journal'.id <= intents'
          BY <1>a, <1>c, <2>1, <2>2 DEF Ledger, Fresh
    <3>2. ASSUME NEW i \in Intents, i > intents' PROVE sent'[i] = 0 /\ task'[i].pc = "none"
      <4>1. i > intents /\ i # n
        <5>1. i \in Nat /\ intents \in Nat /\ i > intents + 1
              BY <1>a, <2>1, <3>2 DEF Intents
        <5> QED
            BY <5>1
      <4> QED
          BY <2>1, <2>5, <4>1 DEF Ledger, Fresh
    <3> QED
        BY <3>1, <3>2 DEF Fresh
  <2>7. Pinned'
        BY <2>1, <2>2, <2>4, <2>5 DEF Ledger, Pinned, Owns
  <2>8. Unsent'
        BY <2>1, <2>2, <2>4, <2>5 DEF Ledger, Unsent
  <2>9. Known'
        BY <2>1, <2>2, <2>4 DEF Ledger, Known
  <2> QED
      BY <2>6, <2>7, <2>8, <2>9 DEF Ledger
<1>4. CASE DocDeleted /\ UNCHANGED <<journal, sent>>
  <2>1. CASE intents < MaxIntents /\ entry' = NewIntent(0) /\ intents' = intents + 1 /\ task' = task
    <3>1. /\ NewIntent(0).id = intents + 1 /\ ~NewIntent(0).attempted /\ intents + 1 \in Intents
          BY <2>1, NewIntentTyped, Constants
    <3>2. sent[intents + 1] = 0 /\ task[intents + 1].pc = "none"
          BY <1>a, <3>1 DEF Ledger, Fresh
    <3>3. Fresh'
          BY <1>a, <1>c, <1>4, <2>1, <3>1 DEF Ledger, Fresh, Intents
    <3>4. Pinned' /\ Unsent' /\ Known'
          BY <1>4, <2>1, <3>1, <3>2 DEF Ledger, Pinned, Owns, Unsent, Known
    <3> QED
        BY <3>3, <3>4 DEF Ledger
  <2>2. CASE entry' \in {entry, [entry EXCEPT !.acked = TRUE]} /\ intents' = intents /\ task' = task
    <3>1. entry'.id = entry.id /\ entry'.attempted = entry.attempted /\ entry'.token = entry.token
          BY <1>a, <2>2 DEF Entry
    <3> QED
        BY <1>4, <2>2, <3>1 DEF Ledger, Fresh, Pinned, Unsent, Known, Owns
  <2> QED
      BY <1>4, <2>1, <2>2 DEF DocDeleted
<1>5. CASE \E i \in Intents : (Stops(i) \/ Cleaned(i)) /\ UNCHANGED <<entry, chain, journal, sent, intents>>
  <2>1. PICK i \in Intents : (Stops(i) \/ Cleaned(i)) /\ UNCHANGED <<entry, chain, journal, sent, intents>>
        BY <1>5
  <2>2. /\ \A j \in Intents \ {i} : task'[j] = task[j]
        /\ task'[i].pc = "none" \/ (task[i].pc = "clean" /\ task'[i].pc = "own")
        /\ task[i].pc # "none"
        BY <1>0, <2>1, TaskParts DEF Stops, Cleaned, Pcs
  <2>3. Fresh'
        BY <2>1, <2>2 DEF Ledger, Fresh
  <2>4. Pinned' /\ Known'
        BY <2>1, <2>2 DEF Ledger, Pinned, Known, Owns
  <2>5. Unsent'
        BY <2>1, <2>2 DEF Ledger, Unsent
  <2> QED
      BY <2>3, <2>4, <2>5 DEF Ledger
<1>6. CASE \E i \in Intents : Emit(i)
  <2>1. PICK i \in Intents : Emit(i)
        BY <1>6
  <2>2. /\ task[i].pc = "own" /\ entry.id = i /\ task' = Goto(i, "final")
        /\ entry' = [entry EXCEPT !.acked = TRUE] /\ UNCHANGED <<journal, intents>>
        /\ sent' \in {sent, [sent EXCEPT ![i] = @ + 1]}
        BY <2>1 DEF Emit, Owns
  <2>3. entry'.id = entry.id /\ entry'.attempted = entry.attempted /\ entry'.token = entry.token
        BY <1>a, <2>2 DEF Entry
  <2>4. task'[i].pc = "final" /\ \A j \in Intents \ {i} : task'[j] = task[j]
        BY <1>0, <2>2, TaskParts DEF Pcs
  <2>5. sent[i] = 0 /\ entry.attempted /\ (journal.id = i => journal.attempted)
        BY <2>2 DEF Ledger, Unsent
  <2>6. sent'[i] \in {0, 1} /\ \A j \in Intents \ {i} : sent'[j] = sent[j]
        BY <1>a, <2>2, <2>5
  <2>7. i <= intents
        BY <2>2 DEF Ledger, Fresh
  <2>8. Fresh'
        BY <1>a, <2>2, <2>3, <2>4, <2>6, <2>7 DEF Ledger, Fresh, Intents
  <2>9. Pinned'
        BY <2>2, <2>3, <2>4 DEF Ledger, Pinned, Owns
  <2>10. Unsent'
        BY <2>2, <2>3, <2>4, <2>6 DEF Ledger, Unsent
  <2>11. Known'
        BY <2>2, <2>3, <2>5, <2>6 DEF Ledger, Known
  <2> QED
      BY <2>8, <2>9, <2>10, <2>11 DEF Ledger
<1>7. CASE Save
  <2> DEFINE i == Head(chain).who
             j == journal'
  <2>1. chain # <<>> /\ j = Snapshot /\ UNCHANGED <<sent, intents>>
        BY <1>7 DEF Save
  <2>2. i # 0 => i \in Intents
        BY <1>0, <2>1, SnapshotParts, Constants DEF Intents
  <2>3. /\ j.id <= intents /\ (j.attempted => j.token.kind = "pinned")
        /\ \A k \in Intents : sent[k] # 0 \/ task[k].pc \in {"clean", "own"} => (j.id = k => j.attempted)
    <3> HIDE DEF j
    <3> QED
        BY <2>1, SnapshotLedger
  <2>4. CASE i # 0 /\ task[i].pc = "persist" /\ Pin(i, entry.token.value, Tail(chain))
    <3>1. /\ entry'.id = entry.id /\ entry'.attempted = entry.attempted /\ entry'.token.kind = "pinned"
      <4>1. entry.token.value \in 0..MaxInc /\ Tail(chain) \in Seq(Job)
            BY <1>0, <1>a, <2>1, EntryParts, SnapshotParts
      <4> QED
          BY <1>0, <2>2, <2>4, <4>1, PinParts
    <3>2. task'[i].pc = "attempt" /\ \A k \in Intents \ {i} : task'[k] = task[k]
          BY <1>0, <2>2, <2>4, TaskParts DEF Pin, Pcs
    <3>3. Fresh' /\ Pinned'
          BY <2>1, <2>2, <2>3, <2>4, <3>1, <3>2 DEF Ledger, Fresh, Pinned, Owns
    <3>4. Unsent' /\ Known'
          BY <2>1, <2>2, <2>3, <2>4, <3>1, <3>2 DEF Ledger, Unsent, Known
    <3> QED
        BY <3>3, <3>4 DEF Ledger
  <2>5. CASE i # 0 /\ task[i].pc = "attempt" /\ Attempted(i)
    <3>1. /\ entry' = Snapshot /\ Snapshot.id = entry.id /\ Snapshot.token = entry.token
          /\ entry.attempted => Snapshot.attempted
          BY <1>0, <2>1, <2>5, SnapshotParts DEF Attempted
    <3>2. entry.id = i => Snapshot.attempted
          BY <1>0, <2>1, <2>5, HeadMarks, SnapshotParts DEF Owns
    <3>3. task'[i].pc \in {"none", "clean"} /\ \A k \in Intents \ {i} : task'[k] = task[k]
          BY <1>0, <2>2, <2>5, TaskParts DEF Attempted, Pcs
    <3>4. Fresh' /\ Pinned'
          BY <2>1, <2>2, <2>3, <2>5, <3>1, <3>3 DEF Ledger, Fresh, Pinned, Owns
    <3>5. Unsent' /\ Known'
          BY <2>1, <2>2, <2>3, <2>5, <3>1, <3>2, <3>3 DEF Ledger, Unsent, Known
    <3> QED
        BY <3>4, <3>5 DEF Ledger
  <2> DEFINE Calm ==
               \A k \in Intents :
                 \/ task'[k] = task[k] \/ task'[k].pc = "none"
                 \/ task[k].pc = "persist" /\ task'[k].pc = "resolve"
  <2>6. entry' = entry /\ Calm => Ledger'
    <3> SUFFICES ASSUME entry' = entry, Calm PROVE Ledger'
        OBVIOUS
    <3>1. Fresh' /\ Pinned'
          BY <2>1, <2>3 DEF Ledger, Fresh, Pinned, Owns
    <3>2. Unsent' /\ Known'
          BY <2>1, <2>3 DEF Ledger, Unsent, Known
    <3> QED
        BY <3>1, <3>2 DEF Ledger
  <2>7. CASE /\ i # 0 /\ entry' = entry
             /\ \/ task' = Return(i)
                \/ task[i].pc = "persist" /\ task' = Goto(i, "resolve")
    <3>1. Calm
      <4>1. /\ Return(i)[i].pc = "none" /\ Goto(i, "resolve")[i].pc = "resolve"
            /\ \A k \in Intents \ {i} : Return(i)[k] = task[k] /\ Goto(i, "resolve")[k] = task[k]
            BY <1>0, <2>2, <2>7, TaskParts DEF Pcs
      <4> QED
          BY <2>7, <4>1
    <3> QED
        BY <2>6, <2>7, <3>1
  <2>8. CASE UNCHANGED <<entry, task>>
    <3>1. Calm
          BY <2>8
    <3> QED
        BY <2>6, <2>8, <3>1
  <2> QED
      BY <1>7, <2>4, <2>5, <2>7, <2>8 DEF Save, Saved
<1>8. CASE SaveFails
  <2>1. /\ chain # <<>> /\ journal' \in {journal, Snapshot, NoEntry} /\ UNCHANGED <<entry, sent, intents>>
        /\ task' = IF Head(chain).who = 0 THEN task ELSE Return(Head(chain).who)
        BY <1>8 DEF SaveFails, Torn, Fault
  <2>2. Head(chain).who # 0 => Head(chain).who \in Intents
        BY <1>0, <2>1, SnapshotParts, Constants DEF Intents
  <2>3. \A i \in Intents : task'[i] = task[i] \/ task'[i].pc = "none"
        BY <1>0, <2>1, <2>2, TaskParts
  <2> DEFINE j == journal'
  <2>4. /\ j.id <= intents /\ (j.attempted => j.token.kind = "pinned")
        /\ \A i \in Intents : sent[i] # 0 \/ task[i].pc \in {"clean", "own"} => (j.id = i => j.attempted)
    <3> HIDE DEF j
    <3>1. j \in {journal, Snapshot, NoEntry}
          BY <2>1 DEF j
    <3> QED
        BY <2>1, <3>1, SnapshotLedger
  <2>5. Fresh' /\ Pinned'
        BY <2>1, <2>3, <2>4 DEF Ledger, Fresh, Pinned, Owns
  <2>6. Unsent' /\ Known'
        BY <2>1, <2>3, <2>4 DEF Ledger, Unsent, Known
  <2> QED
      BY <2>5, <2>6 DEF Ledger
<1>9. CASE Close
  <2>1. /\ task' = [i \in Intents |-> IF task[i].pc = "resolve" THEN NoTask ELSE task[i]]
        /\ UNCHANGED <<entry, journal, sent, intents>>
        BY <1>9 DEF Close
  <2>2. \A i \in Intents : task'[i] = task[i] \/ task'[i].pc = "none"
        BY <2>1 DEF NoTask
  <2>3. Fresh' /\ Pinned'
        BY <2>1, <2>2 DEF Ledger, Fresh, Pinned, Owns
  <2>4. Unsent' /\ Known'
        BY <2>1, <2>2 DEF Ledger, Unsent, Known
  <2> QED
      BY <2>3, <2>4 DEF Ledger
<1>10. CASE Restart
  <2>1. /\ entry' = journal' /\ task' = [i \in Intents |-> NoTask] /\ UNCHANGED <<sent, intents>>
        /\ IF chain = <<>> THEN journal' = journal ELSE journal' \in {journal, Snapshot, NoEntry}
        BY <1>10 DEF Restart, Torn
  <2>2. \A i \in Intents : task'[i].pc = "none"
        BY <2>1 DEF NoTask
  <2> DEFINE j == journal'
  <2>3. /\ j.id <= intents /\ (j.attempted => j.token.kind = "pinned")
        /\ \A i \in Intents : sent[i] # 0 => (j.id = i => j.attempted)
    <3>1. CASE j = journal
          BY <3>1 DEF Ledger, Fresh, Pinned, Known
    <3>2. CASE chain # <<>> /\ j \in {journal, Snapshot, NoEntry}
      <4> HIDE DEF j
      <4> QED
          BY <3>2, SnapshotLedger
    <3> QED
        BY <2>1, <3>1, <3>2
  <2>4. Fresh' /\ Pinned'
        BY <2>1, <2>2, <2>3 DEF Ledger, Fresh, Pinned, Owns
  <2>5. Unsent' /\ Known'
        BY <2>1, <2>2, <2>3 DEF Ledger, Unsent, Known
  <2> QED
      BY <2>4, <2>5 DEF Ledger
<1>11. CASE \E m \in Sendable : RecvList(m) /\ UNCHANGED <<journal, sent>>
  <2>1. PICK m \in Sendable : RecvList(m) /\ UNCHANGED <<journal, sent>>
        BY <1>11
  <2> DEFINE e == Reconciled(m.inc # 0, m.flag)
             waiting == IF entry.id = 0 THEN chain ELSE Persist(FALSE, 0)
  <2>2. e \in {NoEntry, entry} /\ waiting \in Seq(Job)
    <3>1. 0 \in 0..MaxIntents
          BY Constants
    <3>2. Persist(FALSE, 0) \in Seq(Job)
          BY <1>a, <3>1, JobTyped DEF Persist
    <3> QED
        BY <1>a, <3>2 DEF Reconciled
  <2>3. /\ entry' = e /\ UNCHANGED <<journal, sent, intents>>
        /\ \/ e.id # 0 /\ SendDocDelete(e, waiting)
           \/ chain' = waiting /\ task' = task
        BY <2>1 DEF RecvList
  <2>4. e \in Entry
        BY <1>a, <2>2, NoEntryTyped
  <2> HIDE DEF e, waiting
  <2>5. task' = task \/ (e.id # 0 /\ Starts(e, waiting))
        BY <1>0, <2>2, <2>3, <2>4, SendEffect
  <2>6. CASE task' = task
        BY <1>a, <1>b, <2>2, <2>3, <2>6 DEF Ledger, Fresh, Pinned, Unsent, Known, Owns
  <2>7. CASE e.id # 0 /\ Starts(e, waiting)
    <3>1. e = entry /\ entry.id \in Intents /\ ~entry.attempted /\ task[entry.id].pc = "none"
          BY <1>b, <1>0, <2>2, <2>7, Constants DEF Starts, JournalTyped, Entry, Intents
    <3>2. task'[entry.id].pc = "persist" /\ \A k \in Intents \ {entry.id} : task'[k] = task[k]
          BY <1>a, <2>7, <3>1 DEF Starts
    <3>3. sent[entry.id] = 0 /\ entry.id <= intents
          BY <3>1 DEF Ledger, Known, Fresh
    <3>4. Fresh'
          BY <1>a, <2>3, <3>1, <3>2, <3>3 DEF Ledger, Fresh, Intents
    <3>5. Pinned'
          BY <2>3, <3>1, <3>2 DEF Ledger, Pinned, Owns
    <3>6. Unsent' /\ Known'
          BY <2>3, <3>1, <3>2, <3>3 DEF Ledger, Unsent, Known
    <3> QED
        BY <3>4, <3>5, <3>6 DEF Ledger
  <2> QED
      BY <2>5, <2>6, <2>7
<1>12. CASE \E m \in Sendable : RecvResolved(m) /\ UNCHANGED <<journal, sent>>
  <2>1. PICK m \in Sendable : RecvResolved(m) /\ UNCHANGED <<journal, sent>>
        BY <1>12
  <2>2. m.id \in Intents /\ m.inc \in 0..MaxInc /\ UNCHANGED <<journal, sent, intents>>
        BY <2>1, FrameParts DEF RecvResolved
  <2>3. CASE task[m.id].pc = "resolve" /\ Pin(m.id, m.inc, chain)
    <3>1. /\ entry'.id = entry.id /\ entry'.attempted = entry.attempted /\ entry'.token.kind = "pinned"
          BY <1>0, <1>a, <2>2, <2>3, PinParts
    <3>2. task'[m.id].pc = "attempt" /\ \A k \in Intents \ {m.id} : task'[k] = task[k]
          BY <1>0, <2>2, <2>3, TaskParts DEF Pin, Pcs
    <3>3. Fresh' /\ Pinned'
          BY <2>2, <2>3, <3>1, <3>2 DEF Ledger, Fresh, Pinned, Owns
    <3>4. Unsent' /\ Known'
          BY <2>2, <2>3, <3>1, <3>2 DEF Ledger, Unsent, Known
    <3> QED
        BY <3>3, <3>4 DEF Ledger
  <2>4. CASE task' = Return(m.id) /\ UNCHANGED <<entry, chain>>
    <3>1. \A k \in Intents : task'[k] = task[k] \/ task'[k].pc = "none"
          BY <1>0, <2>2, <2>4, TaskParts
    <3>2. Fresh' /\ Pinned'
          BY <2>2, <2>4, <3>1 DEF Ledger, Fresh, Pinned, Owns
    <3>3. Unsent' /\ Known'
          BY <2>2, <2>4, <3>1 DEF Ledger, Unsent, Known
    <3> QED
        BY <3>2, <3>3 DEF Ledger
  <2> QED
      BY <1>1, <2>1, <2>2, <2>3, <2>4 DEF RecvResolved
<1> QED
    BY <1>1, <1>2, <1>3, <1>4, <1>5, <1>6, <1>7, <1>8, <1>9, <1>10, <1>11, <1>12, CoroutineStep
       DEF CoroutineMoves

-------------------------------------------------------------------------------
(* Deletes and writes on one socket.                                        *)

LEMMA ConcatIndex ==
  ASSUME NEW S, NEW c \in Seq(S), NEW d \in Seq(S)
  PROVE  /\ DOMAIN c = 1..Len(c) /\ DOMAIN d = 1..Len(d) /\ DOMAIN (c \o d) = 1..(Len(c) + Len(d))
         /\ Len(c) \in Nat /\ Len(d) \in Nat
         /\ \A k \in 1..Len(c) : (c \o d)[k] = c[k] /\ c[k] \in S
         /\ \A k \in DOMAIN (c \o d) : k \in 1..Len(c) \/ (k > Len(c) /\ k - Len(c) \in DOMAIN d /\ (c \o d)[k] = d[k - Len(c)])
BY ConcatProperties

LEMMA TailIndex ==
  ASSUME NEW S, NEW c \in Seq(S), c # <<>>
  PROVE  /\ 1 \in DOMAIN c /\ Head(c) = c[1] /\ DOMAIN c \subseteq Nat
         /\ \A k \in DOMAIN Tail(c) : k \in Nat /\ k >= 1 /\ k + 1 \in DOMAIN c /\ Tail(c)[k] = c[k + 1]
OBVIOUS

\* What is sent carries marks that were reached.
LEMMA BoundedMoves ==
  ASSUME NEW u \in Seq(Sendable), NEW n \in Nat, Bounded(u, n)
  PROVE  /\ u # <<>> => Bounded(Tail(u), n)
         /\ \A fs \in Seq(Sendable) : Bounded(fs, n) => Bounded(u \o fs, n)
         /\ \A m \in Nat : n <= m => Bounded(u, m)
<1>1. ASSUME u # <<>> PROVE Bounded(Tail(u), n)
      BY <1>1, TailIndex DEF Bounded
<1>2. ASSUME NEW fs \in Seq(Sendable), Bounded(fs, n) PROVE Bounded(u \o fs, n)
      BY <1>2, ConcatIndex DEF Bounded
<1>3. \A k \in DOMAIN u : u[k].id \in Nat
  <2>1. \A k \in DOMAIN u : u[k] \in Sendable
        OBVIOUS
  <2> QED
      BY <2>1, FrameParts, Constants
<1>4. ASSUME NEW m \in Nat, n <= m PROVE Bounded(u, m)
      BY <1>3, <1>4 DEF Bounded
<1> QED
    BY <1>1, <1>2, <1>4

\* The server takes the frames in order.
LEMMA OrderedServed ==
  ASSUME NEW u \in Seq(Sendable), NEW w \in Nat, Ordered(u, w), u # <<>>,
         NEW v \in Nat, v \in {0, w} \/ (IsWrite(Head(u)) /\ v = Head(u).id)
  PROVE  Ordered(Tail(u), v)
<1>1. /\ 1 \in DOMAIN u /\ Head(u) = u[1]
      /\ \A k \in DOMAIN Tail(u) : k \in Nat /\ k >= 1 /\ k + 1 \in DOMAIN u /\ Tail(u)[k] = u[k + 1]
      BY TailIndex
<1>2. \A k \in DOMAIN u : u[k].id \in Nat
  <2>1. \A k \in DOMAIN u : u[k] \in Sendable
        OBVIOUS
  <2> QED
      BY <2>1, FrameParts, Constants
<1> DEFINE t == Tail(u)
<1> HIDE DEF t
<1>3. ASSUME NEW b \in DOMAIN t, t[b].type = "delete" PROVE v < t[b].id
  <2>1. /\ b + 1 \in DOMAIN u /\ t[b] = u[b + 1] /\ 1 < b + 1
        BY <1>1 DEF t
  <2>2. w < u[b + 1].id /\ (IsWrite(u[1]) => u[1].id < u[b + 1].id)
        BY <1>1, <1>3, <2>1 DEF Ordered
  <2> QED
      BY <1>1, <1>2, <2>1, <2>2
<1>4. ASSUME NEW b \in DOMAIN t, t[b].type = "delete", NEW a \in DOMAIN t, a < b, IsWrite(t[a])
      PROVE  t[a].id < t[b].id
  <2>1. /\ b + 1 \in DOMAIN u /\ t[b] = u[b + 1] /\ a + 1 \in DOMAIN u /\ t[a] = u[a + 1] /\ a + 1 < b + 1
        BY <1>1, <1>4 DEF t
  <2> QED
      BY <1>4, <2>1 DEF Ordered
<1> QED
    BY <1>3, <1>4 DEF Ordered, t

\* What is sent behind the deletes does not concern them.
LEMMA OrderedBehind ==
  ASSUME NEW u \in Seq(Sendable), NEW w, Ordered(u, w), NEW fs \in Seq(Sendable),
         \A k \in DOMAIN fs : fs[k].type # "delete"
  PROVE  Ordered(u \o fs, w)
<1> DEFINE t == u \o fs
<1>1. /\ DOMAIN u = 1..Len(u) /\ Len(u) \in Nat /\ DOMAIN t = 1..(Len(u) + Len(fs)) /\ Len(fs) \in Nat
      /\ \A k \in 1..Len(u) : t[k] = u[k]
      /\ \A k \in DOMAIN t : k \in 1..Len(u) \/ t[k].type # "delete"
      BY ConcatIndex
<1> HIDE DEF t
<1>2. Ordered(t, w)
      BY <1>1 DEF Ordered
<1> QED
    BY <1>2 DEF t

\* A delete that is newer than every write may follow them.
LEMMA OrderedDelete ==
  ASSUME NEW u \in Seq(Sendable), NEW w, Ordered(u, w), NEW m \in Sendable, w < m.id,
         \A k \in DOMAIN u : IsWrite(u[k]) => u[k].id < m.id
  PROVE  Ordered(Append(u, m), w)
<1> DEFINE t == Append(u, m)
<1>1. /\ DOMAIN u = 1..Len(u) /\ Len(u) \in Nat /\ DOMAIN t = 1..(Len(u) + 1)
      /\ \A k \in 1..Len(u) : t[k] = u[k]
      /\ t[Len(u) + 1] = m
      BY AppendIndex
<1> HIDE DEF t
<1>2. Ordered(t, w)
      BY <1>1 DEF Ordered
<1> QED
    BY <1>2 DEF t

\* When the note leaves the vault, what was written of it counts no more.
LEMMA FileStep == Types /\ Next => file' = file \/ file' = TRUE \/ wrote' = 0
<1> SUFFICES ASSUME Types, Next PROVE file' = file \/ file' = TRUE \/ wrote' = 0
    OBVIOUS
<1>1. CASE Receive
  <2>1. PICK m \in Sendable : Handles(m)
        BY <1>1, ReceiveEffect
  <2> QED
      BY <2>1 DEF Handles, RecvList, RecvDeleted, RecvAck, RecvRejected, RecvResolved, DocDeleted
<1>2. CASE ~Receive
      BY <1>2 DEF Next, DocDeleted, UserDelete, UserWrite, Write, UserWriteSuppressed, RenameSuppressed,
       PushBegin, PushDropped, PushEnd, Clean, Emit, Abandon, ResolveFails, Save, SaveFails, SaveOwned,
       Connect, AuthOk, Close, Restart, SyncRecreate, SyncCreate, SyncMerge, SyncTombstone, SyncDownload,
       SyncNothing, SyncFails, SyncFlush, Serve, PeerCreate, PeerDelete, Fault
<1> QED
    BY <1>1, <1>2

\* Whoever admits a recreation has consumed the intent.
LEMMA AdmitStep == Next => admitted' = admitted \/ (admitted' = intents /\ entry' = NoEntry)
BY DEF Next, Admit, Consume, Receive, UserDelete, UserWrite, Write, UserWriteSuppressed, RenameSuppressed,
       PushBegin, PushDropped, PushEnd, Clean, Emit, Abandon, ResolveFails, Save, SaveFails, SaveOwned,
       Connect, AuthOk, Close, Restart, SyncRecreate, SyncCreate, SyncMerge, SyncTombstone, SyncDownload,
       SyncNothing, SyncFails, SyncFlush, Serve, PeerCreate, PeerDelete, Fault

LEMMA MarksStep == Types /\ Marks /\ Next => Marks'
<1> SUFFICES ASSUME Types, Marks, Next PROVE Marks'
    OBVIOUS
<1>0. /\ up \in Seq(Sendable) /\ intents \in Nat /\ admitted \in Nat /\ wrote \in Nat
      /\ file \in BOOLEAN /\ admitted' \in Nat /\ wrote' \in Nat
  <2>1. CountsTyped'
        BY TypesStep DEF Types
  <2> QED
      BY <2>1, Constants DEF Types, LinkTyped, CountsTyped, EngineTyped
<1>1. admitted <= admitted' /\ admitted' <= intents'
      BY <1>0, AdmitStep, IntentsStep DEF Marks
<1>2. wrote' <= admitted
  <2>1. CASE wrote' \in {0, wrote}
        BY <1>0, <2>1 DEF Marks
  <2>2. CASE up # <<>> /\ IsWrite(Head(up)) /\ wrote' = Head(up).id
    <3>1. 1 \in DOMAIN up /\ Head(up) = up[1]
          BY <1>0, <2>2, TailIndex
    <3> QED
        BY <2>2, <3>1 DEF Marks, Bounded
  <2> QED
      BY <2>1, <2>2, MarksMove
<1>3. wrote' # 0 => file'
  <2>1. CASE Serve
        BY <2>1, MarksMove DEF Serve, Marks
  <2>2. CASE ~Serve
    <3>1. wrote' # 0 => wrote' = wrote /\ file
          BY <2>2, MarksMove DEF Marks
    <3> QED
        BY <3>1, FileStep
  <2> QED
      BY <2>1, <2>2
<1>4. Bounded(up', admitted)
  <2>0. Bounded(up, admitted)
        BY DEF Marks
  <2>1. CASE up' = up \/ up' = <<>>
        BY <2>0, <2>1 DEF Bounded
  <2>2. CASE up # <<>> /\ up' = Tail(up)
        BY <1>0, <2>0, <2>2, BoundedMoves
  <2>3. CASE \E m \in Sendable : ~IsWrite(m) /\ up' = Append(up, m)
    <3>1. PICK m \in Sendable : ~IsWrite(m) /\ up' = Append(up, m)
          BY <2>3
    <3>2. <<m>> \in Seq(Sendable) /\ Append(up, m) = up \o <<m>> /\ Bounded(<<m>>, admitted)
          BY <1>0, <3>1, AppendIsConcat DEF Bounded
    <3>3. Bounded(up \o <<m>>, admitted)
          BY <1>0, <2>0, <3>2, BoundedMoves
    <3> QED
        BY <3>1, <3>2, <3>3
  <2>4. CASE \E fs \in Seq(OwnWrites) : up' = up \o fs
    <3>1. PICK fs \in Seq(OwnWrites) : up' = up \o fs
          BY <2>4
    <3>2. fs \in Seq(Sendable)
          BY DEF OwnWrites
    <3>3. \A k \in DOMAIN fs : fs[k].id = admitted
      <4>1. \A k \in DOMAIN fs : fs[k] \in OwnWrites
            OBVIOUS
      <4> QED
          BY <4>1 DEF OwnWrites
    <3>4. Bounded(fs, admitted)
          BY <1>0, <3>3 DEF Bounded
    <3>5. Bounded(up \o fs, admitted)
          BY <1>0, <2>0, <3>2, <3>4, BoundedMoves
    <3> QED
        BY <3>1, <3>5
  <2>5. CASE \E i \in Intents : up' = Append(up, Msg("delete", i, entry.token.value, FALSE))
    <3>1. PICK i \in Intents : up' = Append(up, Msg("delete", i, entry.token.value, FALSE))
          BY <2>5
    <3>2. Msg("delete", i, entry.token.value, FALSE) \in Sendable
      <4>1. entry \in Entry /\ i \in 0..MaxIntents
            BY Constants DEF Types, JournalTyped, Intents
      <4>2. entry.token.value \in 0..MaxInc
            BY <4>1, EntryParts
      <4> QED
          BY <4>1, <4>2, MsgTyped
    <3>3. ~IsWrite(Msg("delete", i, entry.token.value, FALSE))
          BY DEF IsWrite, Msg
    <3> QED
        BY <2>3, <3>1, <3>2, <3>3
  <2>6. CASE \E m \in Sendable : m.type \in {"resolve", "list"} /\ up' = Append(up, m)
        BY <2>3, <2>6 DEF IsWrite
  <2> QED
      BY <2>1, <2>2, <2>4, <2>5, <2>6, UpStep DEF UpMoves
<1>5. Bounded(up', admitted')
  <2>1. up' \in Seq(Sendable)
        BY LinkStep DEF LinkTyped
  <2> QED
      BY <1>0, <1>1, <1>4, <2>1, BoundedMoves
<1> QED
    BY <1>0, <1>1, <1>2, <1>3, <1>5 DEF Marks

\* The delete that goes out is newer than every write of this device that the server has taken or
\* will take before it.
LEMMA EmitIsNewer ==
  ASSUME Types, Marks, Harmless, NEW i \in Intents, Emit(i)
  PROVE  wrote < i /\ \A k \in DOMAIN up : IsWrite(up[k]) => up[k].id < i
<1>0. /\ up \in Seq(Sendable) /\ admitted \in Nat /\ wrote \in Nat /\ i \in Nat /\ i > 0
      BY Constants DEF Types, LinkTyped, CountsTyped, Intents
<1>1. \A k \in DOMAIN up : up[k].id \in Nat
  <2>1. \A k \in DOMAIN up : up[k] \in Sendable
        BY <1>0
  <2> QED
      BY <2>1, FrameParts, Constants
<1>2. entry.id = i /\ task[i].pc = "own"
      BY DEF Emit, Owns
<1>3. CASE i <= admitted
  <2>1. Revived
        BY <1>0, <1>2, <1>3 DEF Revived
  <2> QED
      BY <1>0, <1>2, <2>1 DEF Harmless
<1>4. CASE i > admitted
      BY <1>0, <1>1, <1>4 DEF Marks, Bounded
<1> QED
    BY <1>0, <1>3, <1>4

LEMMA OrderStep == Types /\ Marks /\ Order /\ Harmless /\ Next => Order'
<1> SUFFICES ASSUME Types, Marks, Order, Harmless, Next PROVE Ordered(up', wrote')
    BY DEF Order
<1>0. /\ up \in Seq(Sendable) /\ wrote \in Nat /\ wrote' \in Nat
      /\ \A k \in DOMAIN up : up[k].id \in Nat
  <2>1. CountsTyped'
        BY TypesStep DEF Types
  <2>2. up \in Seq(Sendable) /\ wrote \in Nat /\ wrote' \in Nat
        BY <2>1, Constants DEF Types, LinkTyped, CountsTyped
  <2>3. \A k \in DOMAIN up : up[k] \in Sendable
        BY <2>2
  <2> QED
      BY <2>2, <2>3, FrameParts, Constants
<1>1. Ordered(up, wrote)
      BY DEF Order
<1>2. CASE Serve
  <2>1. up # <<>> /\ up' = Tail(up)
        BY <1>2 DEF Serve
  <2>2. wrote' \in {0, wrote} \/ (IsWrite(Head(up)) /\ wrote' = Head(up).id)
        BY MarksMove
  <2> DEFINE v == wrote'
  <2> HIDE DEF v
  <2>3. Ordered(Tail(up), v)
        BY <1>0, <1>1, <2>1, <2>2, OrderedServed DEF v
  <2> QED
      BY <2>1, <2>3 DEF v
<1>3. CASE ~Serve
  <2>1. wrote' \in {0, wrote}
        BY <1>3, MarksMove
  <2>2. \A u \in Seq(Sendable) : Ordered(u, wrote) => Ordered(u, wrote')
    <3> SUFFICES ASSUME NEW u \in Seq(Sendable), Ordered(u, wrote) PROVE Ordered(u, wrote')
        OBVIOUS
    <3>1. \A k \in DOMAIN u : u[k] \in Sendable
          OBVIOUS
    <3>2. \A k \in DOMAIN u : u[k].id \in Nat
          BY <3>1, FrameParts, Constants
    <3> QED
        BY <1>0, <2>1, <3>2 DEF Ordered
  <2>3. Ordered(up', wrote)
    <3>1. CASE up' = up \/ up' = <<>>
          BY <1>1, <3>1 DEF Ordered
    <3>2. CASE \E m \in Sendable : m.type \in {"resolve", "list"} /\ up' = Append(up, m)
      <4>1. PICK m \in Sendable : m.type \in {"resolve", "list"} /\ up' = Append(up, m)
            BY <3>2
      <4>2. /\ <<m>> \in Seq(Sendable) /\ Append(up, m) = up \o <<m>>
            /\ \A k \in DOMAIN <<m>> : <<m>>[k].type # "delete"
            BY <1>0, <4>1, AppendIsConcat
      <4>3. Ordered(up \o <<m>>, wrote)
            BY <1>0, <1>1, <4>2, OrderedBehind
      <4> QED
          BY <4>1, <4>2, <4>3
    <3>3. CASE \E fs \in Seq(OwnWrites) : up' = up \o fs
      <4>1. PICK fs \in Seq(OwnWrites) : up' = up \o fs
            BY <3>3
      <4>2. fs \in Seq(Sendable)
            BY DEF OwnWrites
      <4>3. \A k \in DOMAIN fs : fs[k].type # "delete"
        <5>1. \A k \in DOMAIN fs : fs[k] \in OwnWrites
              OBVIOUS
        <5> QED
            BY <5>1 DEF OwnWrites, IsWrite
      <4>4. Ordered(up \o fs, wrote)
            BY <1>0, <1>1, <4>2, <4>3, OrderedBehind
      <4> QED
          BY <4>1, <4>4
    <3>4. CASE \E i \in Intents : Emit(i) /\ up' = Append(up, Msg("delete", i, entry.token.value, FALSE))
      <4>1. PICK i \in Intents : Emit(i) /\ up' = Append(up, Msg("delete", i, entry.token.value, FALSE))
            BY <3>4
      <4> DEFINE m == Msg("delete", i, entry.token.value, FALSE)
      <4>2. m \in Sendable
        <5>1. entry \in Entry /\ i \in 0..MaxIntents
              BY Constants DEF Types, JournalTyped, Intents
        <5>2. entry.token.value \in 0..MaxInc
              BY <5>1, EntryParts
        <5> QED
            BY <5>1, <5>2, MsgTyped
      <4>3. m.id = i
            BY DEF Msg
      <4> HIDE DEF m
      <4>4. wrote < m.id /\ \A k \in DOMAIN up : IsWrite(up[k]) => up[k].id < m.id
            BY <4>1, <4>3, EmitIsNewer
      <4>5. Ordered(Append(up, m), wrote)
            BY <1>0, <1>1, <4>2, <4>4, OrderedDelete
      <4> QED
          BY <4>1, <4>5 DEF m
    <3> QED
        BY <1>3, <3>1, <3>2, <3>3, <3>4, UpStep DEF UpMoves
  <2>4. up' \in Seq(Sendable)
        BY LinkStep DEF LinkTyped
  <2> QED
      BY <2>2, <2>3, <2>4
<1> QED
    BY <1>2, <1>3

\* The entry stays, goes, is a new intent, or is read from the journal.
LEMMA EntryStep ==
  Types /\ Next => \/ Restart
                   \/ entry'.id = 0
                   \/ entry'.id = entry.id
                   \/ entry'.id = intents + 1
<1> SUFFICES ASSUME Types, Next
             PROVE  Restart \/ entry'.id = 0 \/ entry'.id = entry.id \/ entry'.id = intents + 1
    OBVIOUS
<1>0. entry \in Entry /\ JournalTyped /\ NoEntry.id = 0 /\ \A k : NewIntent(k).id = intents + 1
      BY NoEntryTyped DEF Types, JournalTyped, NewIntent
<1>1. \A t, a : /\ [entry EXCEPT !.token = t].id = entry.id
               /\ [entry EXCEPT !.acked = a].id = entry.id
      BY <1>0 DEF Entry
<1>2. CASE entry' \in {entry, NoEntry}
      BY <1>0, <1>2
<1>3. CASE UserDelete \/ DocDeleted
      BY <1>0, <1>1, <1>3 DEF UserDelete, DocDeleted
<1>4. CASE \E i \in Intents : Emit(i)
      BY <1>1, <1>4 DEF Emit
<1>5. CASE Save
  <2>1. chain # <<>> /\ Snapshot.id = entry.id
        BY <1>0, <1>5, SnapshotParts DEF Save
  <2> QED
      BY <1>1, <1>5, <2>1 DEF Save, Saved, Attempted, Pin
<1>6. CASE \E m \in Sendable : RecvList(m) \/ RecvResolved(m)
      BY <1>0, <1>1, <1>6 DEF RecvList, Reconciled, RecvResolved, Pin
<1> QED
    BY <1>2, <1>3, <1>4, <1>5, <1>6, CoroutineStep DEF CoroutineMoves, Consume, SaveFails, Close

\* A coroutine at rest is started by a new delete or by the answer to a list only.
LEMMA Rests ==
  ASSUME Types, Next, entry.id # 0, entry'.id = entry.id, entry.id <= intents,
         task[entry.id].pc = "none", sync.at = "idle"
  PROVE  task'[entry.id].pc = "none"
<1> DEFINE e == entry.id
<1>0. JournalTyped /\ e \in Intents /\ intents \in Nat /\ task \in [Intents -> Task]
      BY Constants DEF Types, JournalTyped, CountsTyped, Entry, Intents
<1>1. CASE task' = task
      BY <1>1
<1>2. CASE UserDelete
  <2>1. entry'.id = intents + 1
        BY <1>2 DEF UserDelete, NewIntent
  <2> QED
      BY <1>0, <2>1
<1>3. CASE \E i \in Intents : task[i].pc # "none" /\ \E pc \in Pcs : task' \in {Return(i), Goto(i, pc)}
  <2>1. PICK i \in Intents : task[i].pc # "none" /\ \E pc \in Pcs : task' \in {Return(i), Goto(i, pc)}
        BY <1>3
  <2> QED
      BY <1>0, <2>1, TaskParts
<1>4. CASE Save
  <2> DEFINE i == Head(chain).who
  <2>1. i # 0 => i \in Intents
        BY <1>0, <1>4, SnapshotParts, Constants DEF Save, Intents
  <2>2. \/ task' = task
        \/ /\ i # 0 /\ task[i].pc # "none"
           /\ task' = Return(i) \/ \E pc \in {"resolve", "attempt", "clean"} : task' = Goto(i, pc)
        BY <1>4 DEF Save, Saved, Attempted, Pin
  <2> QED
      BY <1>1, <1>3, <2>1, <2>2 DEF Pcs
<1>5. CASE SaveFails
  <2>1. /\ chain # <<>>
        /\ task' = IF Head(chain).who = 0 THEN task ELSE Return(Head(chain).who)
        BY <1>5 DEF SaveFails
  <2>2. Head(chain).who # 0 => Head(chain).who \in Intents
        BY <1>0, <2>1, SnapshotParts, Constants DEF Intents
  <2> QED
      BY <1>0, <2>1, <2>2, TaskParts
<1>6. CASE Close \/ Restart
      BY <1>0, <1>6 DEF Close, Restart, NoTask
<1>7. CASE \E m \in Sendable : RecvList(m)
      BY <1>7 DEF RecvList
<1>8. CASE \E m \in Sendable : RecvResolved(m)
  <2>1. PICK m \in Sendable : RecvResolved(m)
        BY <1>8
  <2>2. m.id \in Intents
        BY <2>1, FrameParts DEF RecvResolved
  <2> QED
      BY <1>1, <1>3, <2>1, <2>2 DEF RecvResolved, Pin, Pcs
<1>9. CASE \E i \in Intents : Stops(i) \/ Cleaned(i) \/ Emit(i)
      BY <1>3, <1>9 DEF Stops, Cleaned, Emit, Pcs
<1> QED
    BY <1>1, <1>2, <1>4, <1>5, <1>6, <1>7, <1>8, <1>9, CoroutineStep DEF CoroutineMoves, Consume, DocDeleted

\* What a step does with the initial sync, when it does not consume the intent.
LEMMA SyncMoves ==
  ASSUME Types, Next, entry.id # 0, entry'.id = entry.id
  PROVE  \/ sync' \in {sync, NoSync}
         \/ AuthOk /\ ~file /\ ~sync'.had /\ sync'.at = "list"
         \/ sync'.had = sync.had /\ sync'.at = sync.at /\ sync'.live = sync.live /\ sync'.tomb = sync.tomb
         \/ sync.at = "list" /\ sync'.had = sync.had /\ sync'.live /\ ~sync'.tomb
<1>0. sync \in SyncState /\ NoEntry.id = 0 /\ file \in BOOLEAN
      BY NoEntryTyped DEF Types, EngineTyped
<1>1. CASE Receive
  <2>1. PICK m \in Sendable : Handles(m)
        BY <1>1, ReceiveEffect
  <2>2. CASE RecvList(m)
    <3>1. /\ entry' = Reconciled(m.inc # 0, m.flag) /\ sync.at = "list"
          /\ sync' = [sync EXCEPT !.at = "act", !.live = m.inc # 0, !.tomb = m.flag,
                                  !.pending = Reconciled(m.inc # 0, m.flag).id # 0]
          BY <2>2 DEF RecvList
    <3>2. m.inc # 0 /\ ~m.flag
          BY <1>0, <3>1 DEF Reconciled
    <3>3. sync'.had = sync.had /\ sync'.live = (m.inc # 0) /\ sync'.tomb = m.flag
          BY <1>0, <3>1 DEF SyncState
    <3> QED
        BY <3>1, <3>2, <3>3
  <2>3. CASE RecvDeleted(m)
    <3>1. sync' = sync \/ sync' = [sync EXCEPT !.deleted = TRUE]
          BY <2>3 DEF RecvDeleted
    <3> QED
        BY <1>0, <3>1 DEF SyncState
  <2> QED
      BY <2>1, <2>2, <2>3 DEF Handles, RecvAck, RecvRejected, RecvResolved
<1>2. CASE AuthOk
  <2>1. \/ sync' = sync
        \/ file /\ entry' = NoEntry
        \/ ~file /\ sync' = [NoSync EXCEPT !.at = "list", !.had = file, !.recreate = file /\ entry.id # 0]
        BY <1>2 DEF AuthOk, Admit, Consume
  <2> QED
      BY <1>0, <1>2, <2>1 DEF NoSync
<1>3. CASE SyncFlush
  <2>1. sync' = [sync EXCEPT !.deleted = FALSE]
        BY <1>3 DEF SyncFlush
  <2> QED
      BY <1>0, <2>1 DEF SyncState
<1>4. CASE sync' \in {sync, NoSync}
      BY <1>4
<1> QED
    BY <1>1, <1>2, <1>3, <1>4 DEF SyncEnd, Next, UserDelete, UserWrite, Write, UserWriteSuppressed, RenameSuppressed,
       PushBegin, PushDropped, PushEnd, Clean, Emit, Abandon, ResolveFails, Save, SaveFails, SaveOwned,
       Connect, Close, Restart, SyncRecreate, SyncCreate, SyncMerge, SyncTombstone, SyncDownload,
       SyncNothing, SyncFails, Serve, PeerCreate, PeerDelete, Fault

\* No write leaves while a revived intent waits for the first sync or was met by a sync that found
\* no note.
LEMMA Silent ==
  ASSUME Types, Harmless, Revived, Writes, entry'.id = entry.id
  PROVE  up' = up
<1>0. entry.id # 0 /\ NoEntry.id = 0 /\ ~sync.had /\ (sync.at = "act" => sync.live /\ ~sync.tomb)
      BY NoEntryTyped DEF Harmless, Revived
<1>1. CASE PushEnd
      BY <1>0, <1>1 DEF PushEnd, Consume
<1>2. CASE SyncRecreate
      BY <1>0, <1>2 DEF SyncRecreate, Consume
<1>3. CASE SyncCreate \/ SyncMerge \/ SyncTombstone
      BY <1>0, <1>3 DEF SyncCreate, SyncMerge, SyncTombstone, Partition
<1> QED
    BY <1>1, <1>2, <1>3 DEF Writes

LEMMA HarmlessStep == Types /\ Marks /\ Harmless /\ Next => Harmless'
<1> SUFFICES ASSUME Types, Marks, Harmless, Next, Revived' PROVE Harmless'
    BY DEF Harmless
<1>0. /\ entry \in Entry /\ intents \in Nat /\ admitted \in Nat /\ wrote \in Nat /\ NoEntry.id = 0
      /\ entry' \in Entry /\ admitted <= intents
  <2>1. JournalTyped'
        BY TypesStep DEF Types
  <2> QED
      BY <2>1, NoEntryTyped, Constants DEF Types, JournalTyped, CountsTyped, Marks
<1>1. entry'.id # 0 /\ entry'.id <= admitted'
      BY DEF Revived
<1>2. CASE Restart
  <2>1. /\ up' = <<>> /\ sync' = NoSync /\ sock' = "down" /\ task' = [k \in Intents |-> NoTask]
        BY <1>2 DEF Restart, Drop
  <2>2. entry'.id \in Intents
        BY <1>0, <1>1, Constants DEF Entry, Intents
  <2> QED
      BY <2>1, <2>2 DEF Harmless, NoSync, NoTask
<1>3. CASE ~Restart
  <2>1. admitted' = admitted
        BY <1>0, <1>1, AdmitStep
  <2>2. entry'.id = entry.id /\ entry.id # 0 /\ entry.id <= intents
    <3>1. entry'.id \in Nat
          BY <1>0, Constants DEF Entry
    <3>2. entry'.id = 0 \/ entry'.id = entry.id \/ entry'.id = intents + 1
          BY <1>3, EntryStep
    <3> QED
        BY <1>0, <1>1, <2>1, <3>1, <3>2
  <2>3. Revived
        BY <1>1, <2>1, <2>2 DEF Revived
  <2>4. /\ \A k \in DOMAIN up : ~IsWrite(up[k])
        /\ ~sync.had /\ (sync.at = "act" => sync.live /\ ~sync.tomb)
        /\ \/ wrote = 0
           \/ sock # "auth" /\ sync.at = "idle" /\ task[entry.id].pc = "none"
        BY <2>3 DEF Harmless
  <2>5. ~sync'.had /\ (sync'.at = "act" => sync'.live /\ ~sync'.tomb)
        BY <2>2, <2>4, SyncMoves DEF NoSync
  <2>6. \A k \in DOMAIN up' : ~IsWrite(up'[k])
    <3>0. up \in Seq(Sendable)
          BY DEF Types, LinkTyped
    <3>1. CASE up' = up \/ up' = <<>>
          BY <2>4, <3>1
    <3>2. CASE up # <<>> /\ up' = Tail(up)
          BY <2>4, <3>0, <3>2, TailIndex
    <3>3. CASE \E m \in Sendable : ~IsWrite(m) /\ up' = Append(up, m)
      <4>1. PICK m \in Sendable : ~IsWrite(m) /\ up' = Append(up, m)
            BY <3>3
      <4>2. /\ DOMAIN up = 1..Len(up) /\ DOMAIN Append(up, m) = 1..(Len(up) + 1) /\ Len(up) \in Nat
            /\ \A k \in 1..Len(up) : Append(up, m)[k] = up[k]
            /\ Append(up, m)[Len(up) + 1] = m
            BY <3>0, AppendIndex
      <4>3. \A k \in DOMAIN Append(up, m) : k \in 1..Len(up) \/ k = Len(up) + 1
            BY <4>2
      <4> QED
          BY <2>4, <4>1, <4>2, <4>3
    <3>4. CASE Writes
          BY <2>2, <2>3, <3>1, <3>4, Silent
    <3>5. CASE \E i \in Intents : up' = Append(up, Msg("delete", i, entry.token.value, FALSE))
      <4>1. PICK i \in Intents : up' = Append(up, Msg("delete", i, entry.token.value, FALSE))
            BY <3>5
      <4>2. Msg("delete", i, entry.token.value, FALSE) \in Sendable
        <5>1. i \in 0..MaxIntents
              BY Constants DEF Intents
        <5>2. entry.token.value \in 0..MaxInc
              BY <1>0, EntryParts
        <5> QED
            BY <5>1, <5>2, MsgTyped
      <4>3. ~IsWrite(Msg("delete", i, entry.token.value, FALSE))
            BY DEF IsWrite, Msg
      <4> QED
          BY <3>3, <4>1, <4>2, <4>3
    <3>6. CASE \E m \in Sendable : m.type \in {"resolve", "list"} /\ up' = Append(up, m)
          BY <3>3, <3>6 DEF IsWrite
    <3> QED
        BY <3>1, <3>2, <3>4, <3>5, <3>6, UpStep DEF UpMoves
  <2>7. wrote' \in {0, wrote}
    <3>1. up # <<>> => ~IsWrite(Head(up))
      <4>1. up \in Seq(Sendable)
            BY DEF Types, LinkTyped
      <4> QED
          BY <2>4, <4>1, TailIndex
    <3> QED
        BY <3>1, MarksMove
  <2>8. CASE wrote = 0
        BY <2>5, <2>6, <2>7, <2>8 DEF Harmless
  <2>9. CASE wrote # 0 /\ sock # "auth" /\ sync.at = "idle" /\ task[entry.id].pc = "none"
    <3>1. file
          BY <2>9 DEF Marks
    <3>2. ~AuthOk
          BY <1>0, <2>2, <2>9, <3>1 DEF AuthOk, Admit, Consume
    <3>3. sock' # "auth"
          BY <2>9, <3>2 DEF Drop, Next, Receive, UserDelete, UserWrite, Write, UserWriteSuppressed, RenameSuppressed,
       PushBegin, PushDropped, PushEnd, Clean, Emit, Abandon, ResolveFails, Save, SaveFails, SaveOwned,
       Connect, Close, Restart, SyncRecreate, SyncCreate, SyncMerge, SyncTombstone, SyncDownload,
       SyncNothing, SyncFails, SyncFlush, Serve, PeerCreate, PeerDelete, Fault
    <3>4. sync'.at = "idle"
          BY <2>2, <2>9, <3>2, SyncMoves DEF NoSync
    <3>5. task'[entry.id].pc = "none"
          BY <2>2, <2>9, Rests
    <3> QED
        BY <2>2, <2>5, <2>6, <3>3, <3>4, <3>5 DEF Harmless
  <2> QED
      BY <2>4, <2>8, <2>9
<1> QED
    BY <1>2, <1>3

-------------------------------------------------------------------------------
(* The theorems.                                                            *)

LEMMA InitIInv == Init => IInv
<1> SUFFICES ASSUME Init PROVE IInv
    OBVIOUS
<1>1. Types
      BY InitTypes
<1>2. Waits
      BY DEF Init, Waits, WaitsFor, NoTask, Writing
<1>3. Ledger
      BY DEF Init, Ledger, Fresh, Pinned, Unsent, Known, NoEntry, NoTask, NoToken, Owns
<1>4. Marks /\ Order
      BY DEF Init, Marks, Bounded, Order, Ordered
<1>5. Harmless
      BY DEF Init, Harmless, Revived, NoEntry
<1> QED
    BY <1>1, <1>2, <1>3, <1>4, <1>5 DEF IInv

LEMMA Inductive == IInv /\ [Next]_vars => IInv'
<1> SUFFICES ASSUME IInv, [Next]_vars PROVE IInv'
    OBVIOUS
<1>1. CASE Next
      BY <1>1, TypesStep, WaitsStep, LedgerStep, MarksStep, OrderStep, HarmlessStep DEF IInv
<1>2. CASE UNCHANGED vars
  <2>1. Types' /\ Waits'
        BY <1>2 DEF vars, IInv, Types, ServerTyped, LinkTyped, EngineTyped, JournalTyped, CountsTyped, Waits
  <2>2. Ledger'
        BY <1>2 DEF vars, IInv, Ledger, Fresh, Pinned, Unsent, Known, Owns
  <2>3. Marks' /\ Order' /\ Harmless'
        BY <1>2 DEF vars, IInv, Marks, Order, Harmless, Revived
  <2> QED
      BY <2>1, <2>2, <2>3 DEF IInv
<1> QED
    BY <1>1, <1>2

LEMMA Invariant == Spec => []IInv
BY InitIInv, Inductive, PTL DEF Spec

\* The state has its types, and a coroutine of sendDocDelete (src/push-handler.ts) that waits for
\* the disk waits for exactly one write of the journal, so that no resend runs an intent twice.
THEOREM TypeCorrect == Spec => []TypeOK
<1>1. IInv => TypeOK
      BY TypesGive DEF IInv
<1> QED
    BY <1>1, Invariant, PTL

\* An intent's doc_delete is sent at most once, however often the application crashes, the disk
\* fails and the socket closes: sendDocDelete marks the attempt on disk first, and the resend of the
\* initial sync leaves attempted intents alone.
THEOREM SendsOnce == Spec => []SentOnce
<1>1. IInv => SentOnce
  <2> SUFFICES ASSUME IInv, NEW i \in Intents PROVE sent[i] <= 1
      BY DEF SentOnce
  <2>1. sent[i] \in Nat
        BY DEF IInv, Types, CountsTyped
  <2>2. sent[i] # 0 => sent[i] = 1
        BY DEF IInv, Ledger, Known
  <2> QED
      BY <2>1, <2>2
<1> QED
    BY <1>1, Invariant, PTL

\* Once a doc_delete was sent, the journal on disk has forgotten its intent or knows that it was
\* attempted and with which token.
THEOREM AttemptsAreDurable == Spec => []AttemptIsDurable
<1>1. IInv => AttemptIsDurable
  <2> SUFFICES ASSUME IInv, NEW i \in Intents, sent[i] > 0, journal.id = i
               PROVE  journal.attempted /\ journal.token.kind = "pinned"
      BY DEF AttemptIsDurable
  <2>1. sent[i] \in Nat
        BY DEF IInv, Types, CountsTyped
  <2>2. journal.attempted
        BY <2>1 DEF IInv, Ledger, Known
  <2> QED
      BY <2>2 DEF IInv, Ledger, Pinned
<1> QED
    BY <1>1, Invariant, PTL

\* The delete that the server serves is newer than what this device last wrote into the document and
\* still has in its vault: whatever edits, peers, reconnects, crashes and disk faults came between,
\* a deletion never destroys a later recreation.
THEOREM LaterWritesSurvive == Spec => NeverDeletesLaterWrites
<1>1. IInv /\ [Next]_vars =>
        [up # <<>> /\ Serve /\ Head(up).type = "delete" /\ live' # live /\ file => Head(up).id > wrote]_vars
  <2> SUFFICES ASSUME IInv, up # <<>>, Head(up).type = "delete" PROVE Head(up).id > wrote
      OBVIOUS
  <2>1. up \in Seq(Sendable) /\ wrote \in Nat
        BY Constants DEF IInv, Types, LinkTyped, CountsTyped
  <2>2. 1 \in DOMAIN up /\ Head(up) = up[1] /\ up[1] \in Sendable
        BY <2>1, TailIndex
  <2>3. Head(up).id \in Nat
        BY <2>2, FrameParts, Constants
  <2>4. wrote < Head(up).id
        BY <2>2 DEF IInv, Order, Ordered
  <2> QED
      BY <2>1, <2>3, <2>4
<1> QED
    BY <1>1, Invariant, PTL DEF Spec, NeverDeletesLaterWrites
=============================================================================
