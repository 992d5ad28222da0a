----------------------------- MODULE DeleteIntents -----------------------------
(***************************************************************************)
(* Deleting one note: the delete journal of PushHandler                    *)
(* (src/push-handler.ts), the ownership cache (src/ownership-cache.ts),    *)
(* the parts of the initial sync (src/sync-initial.ts) and of SyncEngine   *)
(* that touch them, and the server (external, as the plugin uses it and    *)
(* docs/decisions/0006 describes it), which gives every new life of a      *)
(* document a fresh incarnation.                                           *)
(*                                                                         *)
(* A delete is an intent with an id.  sendDocDelete runs as a coroutine:   *)
(* between two of its awaits the user, the peers, the socket and the disk  *)
(* may do anything, and after every await the intent must still own the    *)
(* journal entry.  The journal is one file, saved by a FIFO of writes that *)
(* take their snapshot when they run.  Nothing reads the file but a start, *)
(* so a write lands in one step with its snapshot; a crash may tear it.    *)
(*                                                                         *)
(* Left out: the content of the note, broadcasts of edits, doc_tombstoned  *)
(* and its refusal, case-only renames (the same intent without local       *)
(* cleanup), the pull and push modes of the first sync, and servers        *)
(* without incarnations.  A rename is, for the path it leaves, the delete  *)
(* it reports to PushHandler.  onDocDeleted decides and acts in one step.  *)
(***************************************************************************)
EXTENDS Naturals, Sequences, FiniteSets

CONSTANTS
  MaxIntents,  \* bound on the intents ever made
  MaxInc,      \* bound on the incarnations of the document
  MaxWrites,   \* bound on the user's edits of the note
  MaxConnects, \* bound on the sockets opened
  MaxRestarts, \* bound on the crashes of the application
  MaxFaults    \* bound on the failing disk operations

ASSUME IntentAssumption ==
  /\ MaxInc \in Nat \ {0}   \* the note may exist at the start
  /\ {MaxIntents, MaxWrites, MaxConnects, MaxRestarts, MaxFaults} \subseteq Nat

Intents == 1..MaxIntents

VARIABLES
  live, tomb, next,   \* server: the live incarnation or 0, a tombstone, the next incarnation
  up, down, sock,     \* frames under way, and this.ws: "down", "open" (no auth_ok yet), "auth"
  file,               \* the note exists in the vault
  entry,              \* pendingDeletes.get(path)
  task,               \* sendDocDelete of each intent: where it is, and sendAllowed
  chain,              \* journalPersistChain: the writes that wait
  owned,              \* ownership.ownedTokens.get(path), 0 when there is none
  serverTomb,         \* serverTombstones.has(path)
  push,               \* where the push of the user's last edit is: "none", "read" or "load"
  sync, flush,        \* the initial sync, and a doc_deleted it queued and still has to apply
  accept,             \* acceptVaultChangeEvents
  journal, ownedDisk, \* the two files
  intents, writes, connects, restarts, faults,   \* what happened so far
  sent,               \* history: how often each intent's delete was sent
  keeps,              \* history: the intents markRecreateIntent made
  admitted, wrote     \* history: the newest intent when a local recreation was last admitted, and
                      \* what this was when this device last wrote the note into the live
                      \* incarnation, 0 again when the note leaves the vault

lives == <<live, tomb, next>>
server == <<lives, wrote>>
link == <<up, down, sock>>
coroutines == <<entry, task, chain>>
disk == <<journal, ownedDisk>>
bounds == <<intents, writes, connects, restarts, faults>>
history == <<sent, keeps, admitted>>
vars == <<live, tomb, next, wrote, up, down, sock, file, entry, task, chain, owned, serverTomb, push,
          sync, flush, accept, journal, ownedDisk, intents, writes, connects, restarts, faults,
          sent, keeps, admitted>>

Token == [kind : {"unresolved", "owned", "pinned"}, value : 0..MaxInc]
NoToken == [kind |-> "unresolved", value |-> 0]
Entry == [id : 0..MaxIntents, acked : BOOLEAN, attempted : BOOLEAN, token : Token]
NoEntry == [id |-> 0, acked |-> FALSE, attempted |-> FALSE, token |-> NoToken]

\* Where a coroutine is: the await it is in, or what it does next.
Pcs == {"none", "persist", "resolve", "attempt", "clean", "own", "final"}
Task == [pc : Pcs, open : BOOLEAN]
NoTask == [pc |-> "none", open |-> FALSE]

NoSync == [at |-> "idle", had |-> FALSE, recreate |-> FALSE, live |-> FALSE, tomb |-> FALSE,
           pending |-> FALSE, deleted |-> FALSE]

Frame == [type : {"create", "push", "delete", "resolve", "list", "ack", "rejected", "deleted"},
          id : 0..MaxIntents, inc : 0..MaxInc, flag : BOOLEAN]
Msg(type, id, inc, flag) == [type |-> type, id |-> id, inc |-> inc, flag |-> flag]

Writing == {"persist", "attempt", "final"}

\* The types; and a coroutine that waits for the disk waits for exactly one write, its own, so
\* that no resend runs sendDocDelete of a running intent a second time.
TypeOK ==
  /\ live \in 0..MaxInc /\ tomb \in BOOLEAN /\ next \in 1..(MaxInc + 1)
  /\ up \in Seq(Frame) /\ down \in Seq(Frame) /\ sock \in {"down", "open", "auth"}
  /\ {file, serverTomb, accept, flush} \subseteq BOOLEAN
  /\ entry \in Entry /\ journal \in Entry
  /\ task \in [Intents -> Task]
  /\ chain \in Seq([attempt : BOOLEAN, who : 0..MaxIntents])
  /\ owned \in 0..MaxInc /\ ownedDisk \in 0..MaxInc
  /\ push \in {"none", "read", "load"}
  /\ sync \in [at : {"idle", "list", "act"}, had : BOOLEAN, recreate : BOOLEAN,
               live : BOOLEAN, tomb : BOOLEAN, pending : BOOLEAN, deleted : BOOLEAN]
  /\ intents \in 0..MaxIntents /\ connects \in 0..MaxConnects
  /\ sent \in [Intents -> Nat] /\ keeps \subseteq Intents
  /\ admitted \in 0..MaxIntents /\ wrote \in 0..MaxIntents
  /\ \A i \in Intents :
       Cardinality({k \in DOMAIN chain : chain[k].who = i}) = IF task[i].pc \in Writing THEN 1 ELSE 0

-------------------------------------------------------------------------------
(* The journal entry and its persistence.                                   *)

Owns(i) == entry.id = i

\* persistJournal() on behalf of coroutine `who`, 0 in the background.
Persist(attempt, who) == Append(chain, [attempt |-> attempt, who |-> who])

\* newIntent(path), when this device owns incarnation k, or none
NewIntent(k) ==
  [id |-> intents + 1, acked |-> FALSE, attempted |-> FALSE,
   token |-> [kind |-> IF k = 0 THEN "unresolved" ELSE "owned", value |-> k]]

\* Mutant: a delete that is running is left alone.
ConsumeIdle ==
  /\ entry' = IF entry.id # 0 /\ task[entry.id].pc # "none" THEN entry ELSE NoEntry
  /\ chain' = IF entry.id = 0 THEN chain ELSE Persist(FALSE, 0)
  /\ UNCHANGED task

\* consumePendingDeleteForRecreate(path)
Consume ==
  /\ entry' = NoEntry
  /\ chain' = IF entry.id = 0 THEN chain ELSE Persist(FALSE, 0)
  /\ UNCHANGED task

\* admitRecreation(path)
Admit ==
  /\ Consume
  /\ serverTomb' = (serverTomb \/ entry.id # 0)

\* Mutant: runningDeletes is not consulted.
SendRunning(e, waiting) ==
  IF e.acked \/ e.attempted
  THEN chain' = waiting /\ UNCHANGED task
  ELSE /\ task' = [task EXCEPT ![e.id] = [pc |-> "persist", open |-> sock # "down"]]
       /\ chain' = Append(waiting, [attempt |-> FALSE, who |-> e.id])

\* Mutant: an attempted delete that was not acked is sent again.
SendAttempted(e, waiting) ==
  IF e.acked \/ task[e.id].pc # "none"
  THEN chain' = waiting /\ UNCHANGED task
  ELSE /\ task' = [task EXCEPT ![e.id] = [pc |-> "persist", open |-> sock # "down"]]
       /\ chain' = Append(waiting, [attempt |-> FALSE, who |-> e.id])

\* The first, synchronous part of sendDocDelete(e): persist the journal and wait for it.
SendDocDelete(e, waiting) ==
  IF e.acked \/ e.attempted \/ task[e.id].pc # "none"
  THEN chain' = waiting /\ UNCHANGED task
  ELSE /\ task' = [task EXCEPT ![e.id] = [pc |-> "persist", open |-> sock # "down"]]
       /\ chain' = Append(waiting, [attempt |-> FALSE, who |-> e.id])

Init ==
  /\ live \in {0, 1} /\ tomb = FALSE /\ next = live + 1
  /\ up = <<>> /\ down = <<>> /\ sock = "down"
  /\ file = TRUE
  /\ entry = NoEntry /\ task = [i \in Intents |-> NoTask] /\ chain = <<>>
  /\ owned \in {0, live} /\ ownedDisk = owned
  /\ serverTomb = FALSE /\ push = "none" /\ sync = NoSync /\ flush = FALSE /\ accept = FALSE
  /\ journal = NoEntry
  /\ intents = 0 /\ writes = 0 /\ connects = 0 /\ restarts = 0 /\ faults = 0
  /\ sent = [i \in Intents |-> 0] /\ keeps = {} /\ admitted = 0 /\ wrote = 0

Fault ==
  /\ faults < MaxFaults
  /\ faults' = faults + 1
  /\ UNCHANGED <<intents, writes, connects, restarts>>

-------------------------------------------------------------------------------
(* The user.                                                                *)

\* The vault's delete event: onFileDeleted(path).
UserDelete ==
  /\ file /\ intents < MaxIntents
  /\ file' = FALSE
  /\ intents' = intents + 1
  /\ entry' = NewIntent(owned)
  /\ SendDocDelete(NewIntent(owned), chain)
  /\ wrote' = 0
  /\ UNCHANGED <<lives, link, owned, serverTomb, push, sync, flush, accept, disk,
                 writes, connects, restarts, faults, history>>

Write ==
  /\ writes < MaxWrites
  /\ file' = TRUE
  /\ writes' = writes + 1
  /\ UNCHANGED <<server, link, owned, sync, flush, accept, disk,
                 intents, connects, restarts, faults, sent, keeps>>

\* An accepted create or modify event, or an edit in an open editor: the pending delete is
\* invalidated at once, before the file is read or the debounce has run.
UserWrite ==
  /\ accept \/ file
  /\ Write /\ Admit
  /\ admitted' = intents
  /\ push' = "read"

\* A create or modify event before the first initial sync of this start(): suppressed.
UserWriteSuppressed ==
  /\ ~accept
  /\ Write
  /\ UNCHANGED <<coroutines, serverTomb, push, admitted>>

\* A rename before that is suppressed too: the note is gone from this path.
RenameSuppressed ==
  /\ ~accept /\ file
  /\ file' = FALSE /\ wrote' = 0
  /\ UNCHANGED <<lives, link, coroutines, owned, serverTomb, push, sync, flush, accept, disk, bounds, history>>

\* pushFileDelta: admitted once more, then the document is loaded.
PushBegin ==
  /\ push = "read"
  /\ push' = "load"
  /\ Admit
  /\ UNCHANGED <<server, link, file, owned, sync, flush, accept, disk, bounds, history>>

\* The content cannot be read: no editor shows the note, or the file is gone.
PushDropped ==
  /\ push = "read"
  /\ push' = "none"
  /\ UNCHANGED <<server, link, file, coroutines, owned, serverTomb, sync, flush, accept, disk, bounds, history>>

\* The rest of pushFileDeltaAsync: nothing to push, offline, a recreation or a delta.
PushEnd ==
  /\ push = "load"
  /\ push' = "none"
  /\ \/ UNCHANGED <<up, coroutines, serverTomb>>
     \/ /\ sock # "down" /\ (entry.id # 0 \/ serverTomb)
        /\ Consume
        /\ serverTomb' = FALSE
        /\ up' = Append(up, Msg("create", admitted, 0, TRUE))
     \/ /\ sock # "down" /\ entry.id = 0 /\ ~serverTomb
        /\ up' = Append(up, Msg("push", admitted, 0, FALSE))
        /\ UNCHANGED <<coroutines, serverTomb>>
  /\ UNCHANGED <<server, down, sock, file, owned, sync, flush, accept, disk, bounds, history>>

-------------------------------------------------------------------------------
(* sendDocDelete, one await after the other.                                *)

\* The coroutine of intent i goes on to its next await, or returns.
Goto(i, pc) == [task EXCEPT ![i].pc = pc]
Return(i) == [task EXCEPT ![i] = NoTask]

\* The token is pinned, and the attempt must be durable before anything else happens.
Pin(i, value, waiting) ==
  /\ task' = Goto(i, "attempt")
  /\ entry' = [entry EXCEPT !.token = [kind |-> "pinned", value |-> value]]
  /\ chain' = Append(waiting, [attempt |-> TRUE, who |-> i])

Ready(i) == Owns(i) /\ task[i].open /\ sock = "auth"

\* The intent is saved: still the owner, still connected, capable, and a token to attest.
Saved(i) ==
  \/ /\ ~Ready(i)
     /\ task' = Return(i) /\ chain' = Tail(chain) /\ UNCHANGED <<entry, up>>
  \/ /\ Ready(i) /\ entry.token.kind = "unresolved"
     /\ up' = Append(up, Msg("resolve", i, 0, FALSE))
     /\ task' = Goto(i, "resolve") /\ chain' = Tail(chain)
     /\ UNCHANGED entry
  \/ /\ Ready(i) /\ entry.token.kind # "unresolved"
     /\ Pin(i, entry.token.value, Tail(chain))
     /\ UNCHANGED up

\* removeAndClean is done; then ownership.remove.
Clean(i) ==
  /\ task[i].pc = "clean"
  /\ \/ Owns(i) /\ task' = Goto(i, "own") /\ owned' = 0 /\ UNCHANGED bounds
     \/ ~Owns(i) /\ task' = Return(i) /\ UNCHANGED <<owned, bounds>>
     \/ Fault /\ task' = Return(i) /\ UNCHANGED owned
  /\ UNCHANGED <<server, link, file, entry, chain, serverTomb, push, sync, flush, accept, disk, history>>

\* The ownership cache is saved: the delete goes out, and the entry counts as acked.
Emit(i) ==
  /\ task[i].pc = "own" /\ Owns(i)
  /\ ownedDisk' = owned
  /\ IF sock = "down"
     THEN UNCHANGED <<up, sent>>
     ELSE /\ up' = Append(up, Msg("delete", i, entry.token.value, FALSE))
          /\ sent' = [sent EXCEPT ![i] = @ + 1]
  /\ task' = Goto(i, "final")
  /\ entry' = [entry EXCEPT !.acked = TRUE]
  /\ chain' = Persist(FALSE, i)
  /\ UNCHANGED <<server, down, sock, file, owned, serverTomb, push, sync, flush, accept, journal, bounds,
                 keeps, admitted>>

Abandon(i) ==
  /\ task[i].pc = "own"
  /\ \/ ~Owns(i) /\ ownedDisk' = owned /\ UNCHANGED bounds
     \/ Fault /\ UNCHANGED ownedDisk
  /\ task' = Return(i)
  /\ UNCHANGED <<server, link, file, entry, chain, owned, serverTomb, push, sync, flush, accept, journal, history>>

\* The probe of an unresolved intent times out or is rejected.
ResolveFails(i) ==
  /\ task[i].pc = "resolve"
  /\ task' = Return(i)
  /\ UNCHANGED <<server, link, file, entry, chain, owned, serverTomb, push, sync, flush, accept, disk, bounds, history>>

-------------------------------------------------------------------------------
(* The two files.                                                           *)

\* Mutant: the attempt is marked in memory only, when the write is done.
SnapshotUnmarked == entry

\* What the write at the head of the chain saves: an attempt is marked in the snapshot already.
Snapshot ==
  LET w == Head(chain)
  IN IF w.attempt /\ Owns(w.who) THEN [entry EXCEPT !.attempted = TRUE] ELSE entry

\* The attempt is saved: marked on the entry object, when the intent is still the owner.
Attempted(i) ==
  /\ task' = IF Owns(i) THEN Goto(i, "clean") ELSE Return(i)
  /\ entry' = Snapshot
  /\ chain' = Tail(chain)
  /\ UNCHANGED up

\* A write lands, and the coroutine that waited for it goes on.
Save ==
  /\ chain # <<>>
  /\ journal' = Snapshot
  /\ LET i == Head(chain).who
     IN \/ i = 0 /\ chain' = Tail(chain) /\ UNCHANGED <<entry, task, up>>
        \/ i # 0 /\ task[i].pc = "persist" /\ Saved(i)
        \/ i # 0 /\ task[i].pc = "attempt" /\ Attempted(i)
        \/ i # 0 /\ task[i].pc = "final" /\ task' = Return(i) /\ chain' = Tail(chain) /\ UNCHANGED <<entry, up>>
  /\ UNCHANGED <<server, down, sock, file, owned, serverTomb, push, sync, flush, accept, ownedDisk, bounds, history>>

\* Old bytes, new bytes, or bytes that load as an empty journal.
Torn == journal' \in {journal, Snapshot, NoEntry}

SaveFails ==
  /\ chain # <<>>
  /\ Fault /\ Torn
  /\ chain' = Tail(chain)
  /\ task' = IF Head(chain).who = 0 THEN task ELSE Return(Head(chain).who)
  /\ UNCHANGED <<server, link, file, entry, owned, serverTomb, push, sync, flush, accept, ownedDisk, history>>

\* A background save of the ownership cache.
SaveOwned ==
  /\ ownedDisk # owned
  /\ ownedDisk' = owned
  /\ UNCHANGED <<server, link, file, coroutines, owned, serverTomb, push, sync, flush, accept,
                 journal, bounds, history>>

-------------------------------------------------------------------------------
(* The socket and the engine.                                               *)

Connect ==
  /\ sock = "down" /\ connects < MaxConnects
  /\ sock' = "open"
  /\ connects' = connects + 1
  /\ UNCHANGED <<server, up, down, file, coroutines, owned, serverTomb, push, sync, flush, accept, disk,
                 intents, writes, restarts, faults, history>>

\* auth_ok: an initial sync starts, unless one is running.  A local file at the path of a
\* pending delete is a recreation.
AuthOk ==
  /\ sock = "open"
  /\ sock' = "auth"
  /\ IF sync.at # "idle"
     THEN UNCHANGED <<up, sync, coroutines, serverTomb, admitted>>
     ELSE /\ up' = Append(up, Msg("list", 0, 0, FALSE))
          /\ sync' = [NoSync EXCEPT !.at = "list", !.had = file, !.recreate = file /\ entry.id # 0]
          /\ IF file THEN Admit /\ admitted' = intents ELSE UNCHANGED <<coroutines, serverTomb, admitted>>
  /\ UNCHANGED <<server, down, file, owned, push, flush, accept, disk, bounds, sent, keeps>>

\* The socket is gone: nothing under way arrives any more, and what waits for an answer rejects.
Drop == sock' = "down" /\ up' = <<>> /\ down' = <<>>

Close ==
  /\ sock # "down"
  /\ Drop
  /\ sync' = IF sync.at = "list" THEN NoSync ELSE sync
  /\ task' = [i \in Intents |-> IF task[i].pc = "resolve" THEN NoTask ELSE task[i]]
  /\ UNCHANGED <<server, file, entry, chain, owned, serverTomb, push, flush, accept, disk, bounds, history>>

\* The application dies, and start() loads the two files.  (A note that comes or goes meanwhile
\* is one whose event was suppressed.)
Restart ==
  /\ restarts < MaxRestarts
  /\ restarts' = restarts + 1
  /\ Drop /\ sync' = NoSync
  /\ IF chain = <<>> THEN UNCHANGED journal ELSE Torn
  /\ entry' = journal' /\ owned' = ownedDisk
  /\ task' = [i \in Intents |-> NoTask] /\ chain' = <<>>
  /\ serverTomb' = FALSE /\ push' = "none" /\ flush' = FALSE /\ accept' = FALSE
  /\ UNCHANGED <<server, file, ownedDisk, intents, writes, connects, faults, history>>

-------------------------------------------------------------------------------
(* The initial sync, for this path.                                         *)

\* reconcilePendingDeletes: what the server's list leaves of the entry.
Reconciled(isLive, isTomb) ==
  IF entry.id = 0 \/ isTomb \/ ~isLive \/ entry.acked THEN NoEntry ELSE entry

\* The answer to request_doc_list: reconcile, note tombstones, resend what is left, partition.
RecvList(m) ==
  LET isLive == m.inc # 0
      e == Reconciled(isLive, m.flag)
      waiting == IF entry.id = 0 THEN chain ELSE Persist(FALSE, 0)
  IN /\ m.type = "list" /\ sync.at = "list"
     /\ owned' = IF isLive THEN owned ELSE 0
     /\ entry' = e
     /\ serverTomb' = (m.flag /\ ~isLive)
     /\ IF e.id # 0 /\ ~sync.recreate
        THEN SendDocDelete(e, waiting)
        ELSE chain' = waiting /\ UNCHANGED task
     /\ sync' = [sync EXCEPT !.at = "act", !.live = isLive, !.tomb = m.flag, !.pending = e.id # 0]
     /\ UNCHANGED <<up, file, wrote, push, flush, intents, keeps>>

Partition(p) == sync.at = "act" /\ p

\* The end of a successful initial sync; what it queued is applied before events are accepted.
SyncEnd ==
  /\ sync' = NoSync
  /\ IF sync.deleted THEN flush' = TRUE /\ UNCHANGED accept ELSE accept' = TRUE /\ UNCHANGED flush

Sends(frames) == up' = IF sock = "down" THEN up ELSE up \o frames
Create(replace) == <<Msg("create", admitted, 0, replace)>>
Delta == <<Msg("push", admitted, 0, FALSE)>>

\* Local file at a path with a pending delete: doc_create that replaces the tombstone, after the
\* merge that the open note gets first.
SyncRecreate ==
  /\ Partition(sync.recreate) /\ file
  /\ Consume
  /\ \E merge \in {<<>>} \cup (IF sync.live THEN {Delta} ELSE {}) : Sends(merge \o Create(TRUE))
  /\ serverTomb' = FALSE
  /\ SyncEnd
  /\ UNCHANGED <<server, down, sock, file, owned, push, disk, bounds, history>>

\* Local file the server knows nothing of.
SyncCreate ==
  /\ Partition(sync.had /\ ~sync.recreate /\ ~sync.live /\ ~sync.tomb /\ ~sync.pending) /\ file
  /\ Sends(Create(FALSE))
  /\ serverTomb' = FALSE
  /\ SyncEnd
  /\ UNCHANGED <<server, down, sock, file, coroutines, owned, push, disk, bounds, history>>

\* Both sides have the note: merge, and perhaps push.  The open note is merged even when a
\* delete of it is pending.
SyncMerge ==
  /\ Partition(sync.had /\ ~sync.recreate /\ sync.live) /\ file
  /\ \E merge \in {<<>>, Delta} : Sends(merge)
  /\ SyncEnd
  /\ UNCHANGED <<server, down, sock, file, coroutines, owned, serverTomb, push, disk, bounds, history>>

\* The note was deleted elsewhere: kept and created again, or trashed.
SyncTombstone ==
  /\ Partition(~sync.recreate /\ sync.tomb /\ ~sync.live)
  /\ \/ file /\ Sends(Create(TRUE)) /\ serverTomb' = FALSE /\ UNCHANGED <<file, wrote>>
     \/ file' = FALSE /\ wrote' = 0 /\ UNCHANGED <<up, serverTomb>>
  /\ SyncEnd
  /\ UNCHANGED <<lives, down, sock, coroutines, owned, push, disk, bounds, history>>

\* Only the server has the note.
SyncDownload ==
  /\ Partition(~sync.had /\ sync.live /\ ~sync.pending) /\ sock # "down"
  /\ file' = TRUE
  /\ SyncEnd
  /\ UNCHANGED <<server, link, coroutines, owned, serverTomb, push, disk, bounds, history>>

\* A pending delete hides the path from every partition, or there is nothing to do.
SyncNothing ==
  /\ Partition(~sync.recreate /\ (sync.pending \/ (~sync.had /\ ~sync.live /\ ~sync.tomb)))
  /\ SyncEnd
  /\ UNCHANGED <<server, link, file, coroutines, owned, serverTomb, push, disk, bounds, history>>

\* A request fails with the socket, or the file listed for a push is gone.
SyncFails ==
  /\ Partition(sock = "down" \/ (sync.had /\ ~file))
  /\ sync' = NoSync
  /\ UNCHANGED <<server, link, file, coroutines, owned, serverTomb, push, flush, accept, disk, bounds, history>>

\* onDocDeleted: local edits keep the note and leave a recreate intent, else it is trashed.  The
\* ownership was removed when the frame came in.
DocDeleted ==
  /\ UNCHANGED task
  /\ \/ /\ file /\ intents < MaxIntents
        /\ entry' = NewIntent(0)
        /\ intents' = intents + 1
        /\ keeps' = keeps \cup {intents + 1}
        /\ chain' = Persist(FALSE, 0)
        /\ UNCHANGED <<file, wrote>>
     \/ /\ entry' = IF entry.id = 0 THEN entry ELSE [entry EXCEPT !.acked = TRUE]
        /\ chain' = IF entry.id = 0 \/ entry.acked THEN chain ELSE Persist(FALSE, 0)
        /\ file' = FALSE /\ wrote' = 0
        /\ UNCHANGED <<intents, keeps>>

\* The queue of the initial sync is applied after it; a sync that starts meanwhile loses its own.
SyncFlush ==
  /\ flush
  /\ DocDeleted
  /\ flush' = FALSE /\ accept' = TRUE
  /\ sync' = [sync EXCEPT !.deleted = FALSE]
  /\ UNCHANGED <<lives, link, owned, serverTomb, push, disk,
                 writes, connects, restarts, faults, sent, admitted>>

-------------------------------------------------------------------------------
(* Frames from the server.                                                  *)

RecvDeleted(m) ==
  /\ m.type = "deleted"
  /\ owned' = 0
  /\ IF sync.at # "idle"
     THEN sync' = [sync EXCEPT !.deleted = TRUE] /\ UNCHANGED <<coroutines, file, wrote, intents, keeps>>
     ELSE DocDeleted /\ UNCHANGED sync
  /\ UNCHANGED <<up, serverTomb, push, flush>>

\* ack of a write: the only source of ownership.
RecvAck(m) ==
  /\ m.type = "ack"
  /\ owned' = m.inc
  /\ UNCHANGED <<up, file, wrote, coroutines, serverTomb, push, sync, flush, intents, keeps>>

\* delete_rejected retires the exact intent.
RecvRejected(m) ==
  /\ m.type = "rejected"
  /\ owned' = 0
  /\ IF entry.id = m.id THEN Consume ELSE UNCHANGED coroutines
  /\ UNCHANGED <<up, file, wrote, serverTomb, push, sync, flush, intents, keeps>>

\* The answer to the probe of an unresolved intent.
RecvResolved(m) ==
  /\ m.type = "resolve"
  /\ \/ task[m.id].pc = "resolve" /\ Owns(m.id) /\ Pin(m.id, m.inc, chain)
     \/ task[m.id].pc = "resolve" /\ ~Owns(m.id) /\ task' = Return(m.id) /\ UNCHANGED <<entry, chain>>
     \/ task[m.id].pc # "resolve" /\ UNCHANGED coroutines
  /\ UNCHANGED <<up, file, wrote, owned, serverTomb, push, sync, flush, intents, keeps>>

Receive ==
  /\ down # <<>>
  /\ down' = Tail(down)
  /\ LET m == Head(down)
     IN RecvList(m) \/ RecvDeleted(m) \/ RecvAck(m) \/ RecvRejected(m) \/ RecvResolved(m)
  /\ UNCHANGED <<lives, sock, accept, disk, writes, connects, restarts, faults, sent, admitted>>

-------------------------------------------------------------------------------
(* The server and the other devices (external).                             *)

Reply(m) == down' = Append(down, m)

\* doc_create and sync_push: update the live document, start a new life, or refuse.
ServeWrite(m) ==
  /\ m.type \in {"create", "push"}
  /\ \/ /\ live # 0
        /\ wrote' = IF file /\ m.id > wrote THEN m.id ELSE wrote
        /\ Reply(Msg("ack", 0, live, FALSE))
        /\ UNCHANGED <<live, tomb, next>>
     \/ /\ live = 0 /\ (~tomb \/ m.flag) /\ next <= MaxInc
        /\ live' = next /\ next' = next + 1 /\ tomb' = FALSE
        /\ wrote' = IF file THEN m.id ELSE 0
        /\ Reply(Msg("ack", 0, next, FALSE))
     \/ /\ live = 0 /\ tomb /\ ~m.flag
        /\ UNCHANGED <<live, tomb, next, wrote, down>>

\* A guarded delete: the expected incarnation, or a rejection.
ServeDelete(m) ==
  /\ m.type = "delete"
  /\ IF live # 0 /\ m.inc = live
     THEN live' = 0 /\ tomb' = TRUE /\ UNCHANGED down
     ELSE /\ IF live = 0 /\ m.inc = 0 THEN UNCHANGED down ELSE Reply(Msg("rejected", m.id, 0, FALSE))
          /\ UNCHANGED <<live, tomb>>
  /\ UNCHANGED <<next, wrote>>

ServeQuery(m) ==
  /\ \/ m.type = "resolve" /\ Reply(Msg("resolve", m.id, live, FALSE))
     \/ m.type = "list" /\ Reply(Msg("list", 0, live, tomb))
  /\ UNCHANGED server

Serve ==
  /\ up # <<>>
  /\ up' = Tail(up)
  /\ LET m == Head(up) IN ServeWrite(m) \/ ServeDelete(m) \/ ServeQuery(m)
  /\ UNCHANGED <<sock, file, coroutines, owned, serverTomb, push, sync, flush, accept, disk, bounds, history>>

PeerCreate ==
  /\ live = 0 /\ next <= MaxInc
  /\ live' = next /\ next' = next + 1 /\ tomb' = FALSE /\ wrote' = 0
  /\ UNCHANGED <<link, file, coroutines, owned, serverTomb, push, sync, flush, accept, disk, bounds, history>>

PeerDelete ==
  /\ live # 0
  /\ live' = 0 /\ tomb' = TRUE
  /\ down' = IF sock = "auth" THEN Append(down, Msg("deleted", 0, 0, FALSE)) ELSE down
  /\ UNCHANGED <<next, wrote, up, sock, file, coroutines, owned, serverTomb, push, sync, flush, accept,
                 disk, bounds, history>>

Next ==
  \/ UserDelete \/ UserWrite \/ UserWriteSuppressed \/ RenameSuppressed
  \/ PushBegin \/ PushDropped \/ PushEnd
  \/ \E i \in Intents : Clean(i) \/ Emit(i) \/ Abandon(i) \/ ResolveFails(i)
  \/ Save \/ SaveFails \/ SaveOwned
  \/ Connect \/ AuthOk \/ Close \/ Restart
  \/ SyncRecreate \/ SyncCreate \/ SyncMerge \/ SyncTombstone \/ SyncDownload
  \/ SyncNothing \/ SyncFails \/ SyncFlush
  \/ Receive \/ Serve \/ PeerCreate \/ PeerDelete

Spec == Init /\ [][Next]_vars

-------------------------------------------------------------------------------
(* Properties.                                                              *)

\* A delete never destroys a note that this device wrote again after the delete was asked for and
\* that has stayed in its vault since, whatever happened meanwhile: offline, across a crash, or
\* between two awaits of sendDocDelete.  (A crash before the consumption of an intent is saved
\* brings the intent back; if the note was then moved away before the first sync, the delete is
\* sent: what it destroys has left the vault.)
NeverDeletesLaterWrites ==
  [][up # <<>> /\ Serve /\ Head(up).type = "delete" /\ live' # live /\ file
       => Head(up).id > wrote]_vars

\* An intent's delete is sent at most once, also across crashes: a replay could hit a recreation.
SentOnce == \A i \in Intents : sent[i] <= 1

\* Nothing is sent before the pinned attempt is on disk: after a crash at any moment the journal
\* has forgotten the intent, or knows that it was attempted and with which token.
AttemptIsDurable ==
  \A i \in Intents :
    (sent[i] > 0 /\ journal.id = i) => journal.attempted /\ journal.token.kind = "pinned"

\* A delete that was sent and lost shows up again as a restored file: no initial sync that finds
\* the note live on the server leaves it out of the vault because of that delete, unless the
\* delete is still running or acked (then the next initial sync drops the entry and restores).
LostDeleteReappears ==
  [][SyncNothing /\ sync.live /\ ~file /\ entry.id # 0 /\ sent[entry.id] > 0
       => entry.acked \/ task[entry.id].pc # "none"]_vars

\* An intent that only records that the note was kept is never sent as a delete.
RecreateIntentsNeverDelete == \A i \in keeps : sent[i] = 0
===============================================================================
