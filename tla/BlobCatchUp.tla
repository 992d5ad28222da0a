---------------------------- MODULE BlobCatchUp ----------------------------
(* The catch-up pass of the attachment lane (src/blob-uploader.ts): it lists *)
(* the rows the server accepted since the cursor, page by page up to a fence *)
(* that is fixed with the first page, applies them, and certifies how far it *)
(* came. A remote delete of a path on which an upload or a download is under *)
(* way stops the walk; the settlement of that work starts another pass.      *)
(*                                                                           *)
(* A path is busy or not, and the index knows a row or does not: what its    *)
(* file holds is not modelled, nor are local deletes and renames. The        *)
(* generations by which the server orders competing writes are left out: it  *)
(* accepts or refuses a write.                                               *)
EXTENDS Naturals, FiniteSets

CONSTANTS
  Paths,        \* blob path keys
  PageSize,     \* rows of one answer (limit=1000)
  MaxSeq,       \* bound: rows the server ever accepts
  MaxConnects,  \* bound: initial syncs, the first one included
  MaxWork       \* bound: uploads and downloads started

ASSUME CatchUpAssumption ==
  /\ PageSize \in Nat \ {0}
  /\ MaxSeq \in Nat /\ MaxConnects \in Nat /\ MaxWork \in Nat

VARIABLES
  rows,          \* server: the latest row of every path, seq 0 when it has none
  top,           \* server: max_seq
  index,         \* the entry of every path: its seq, and whether a decision is pending
  cursor,        \* index.cursor()
  stored,        \* what the index file holds: an index and a cursor
  queued,        \* paths whose upload is queued or runs (isPending)
  effects,       \* paths with a registered download (pathEffects.pending)
  posted,        \* per path the seq of an accepted POST whose answer is on its way
  deferredPaths,
  trailing,      \* trailingPassNeeded
  request,       \* catchUpRequest # null
  pass,          \* the running pass (catchUpWork)
  timer,         \* blobCatchUpTimer is set: a peer's write has been announced
  given,         \* history: per path the last row left to a file the index does not know
  owed,          \* history: paths at which a pass stopped, no later pass has started
  failed,        \* history: the last pass ended early, or the client crashed
  connects, work \* counters of the bounds

server == <<rows, top>>
memory == <<index, cursor>>
busy == <<queued, effects, posted>>
rearm == <<deferredPaths, trailing, request>>
history == <<given, owed, failed>>
counters == <<connects, work>>
vars == <<server, memory, stored, busy, rearm, pass, timer, history, counters>>

Seqs == 0..MaxSeq
Rows == [seq: Seqs, live: BOOLEAN]
Entries == [seq: Seqs, st: {"none", "live", "decided"}]
ListedRows == [path: Paths, seq: Seqs, live: BOOLEAN]
NoEntry == [seq |-> 0, st |-> "none"]

Points == {"start", "none", "list", "rows", "apply", "flush", "tail"}
Passes == [at: Points, p: Seqs, fence: Seqs \cup {MaxSeq + 1}, todo: SUBSET ListedRows,
           full: BOOLEAN, deferred: BOOLEAN]
NoFence == MaxSeq + 1
NoPass == [at |-> "none", p |-> 0, fence |-> NoFence, todo |-> {},
           full |-> FALSE, deferred |-> FALSE]
Started == [NoPass EXCEPT !.at = "start"]
NoWork == pass.at \in {"none", "start"}  \* catchUpWork = null

TypeOK ==
  /\ rows \in [Paths -> Rows] /\ top \in Seqs
  /\ index \in [Paths -> Entries] /\ cursor \in Seqs
  /\ stored \in [index: [Paths -> Entries], cursor: Seqs]
  /\ queued \subseteq Paths /\ effects \subseteq Paths /\ posted \in [Paths -> Seqs]
  /\ deferredPaths \subseteq Paths /\ trailing \in BOOLEAN /\ request \in BOOLEAN
  /\ pass \in Passes /\ timer \in BOOLEAN
  /\ given \in [Paths -> Seqs] /\ owed \subseteq Paths /\ failed \in BOOLEAN
  /\ connects \in 0..MaxConnects /\ work \in 0..MaxWork

Init ==
  /\ rows = [p \in Paths |-> [seq |-> 0, live |-> FALSE]] /\ top = 0
  /\ index = [p \in Paths |-> NoEntry] /\ cursor = 0
  /\ stored = [index |-> index, cursor |-> cursor]
  /\ queued = {} /\ effects = {} /\ posted = [p \in Paths |-> 0]
  /\ deferredPaths = {} /\ trailing = FALSE /\ request = FALSE
  /\ pass = NoPass /\ timer = FALSE
  /\ given = [p \in Paths |-> 0] /\ owed = {} /\ failed = FALSE
  /\ connects = 0 /\ work = 0

-----------------------------------------------------------------------------
(* Who asks for a pass. catchUp() hands every caller the request that is     *)
(* already there, whether its pass waits for its turn or is about to end.    *)

Connect ==
  /\ connects < MaxConnects /\ request' = TRUE /\ connects' = connects + 1
  /\ UNCHANGED <<server, memory, stored, busy, deferredPaths, trailing, pass, timer, history, work>>

AnnouncementTimer ==
  /\ timer /\ request' = TRUE /\ timer' = FALSE
  /\ UNCHANGED <<server, memory, stored, busy, deferredPaths, trailing, pass, history, counters>>

(* Mutant: a settlement during a pass only joins the request of that pass.   *)
UploadSettledCoalesced(p) ==
  IF p \notin deferredPaths THEN UNCHANGED rearm ELSE
    /\ deferredPaths' = deferredPaths \ {p}
    /\ request' = TRUE
    /\ UNCHANGED trailing

(* uploadSettled, as the end of the work on p calls it. With a pass running  *)
(* the next one is left to the end of its request. (settlementGeneration     *)
(* only repeats this at the end of the walk.)                                *)
UploadSettled(p) ==
  IF p \notin deferredPaths THEN UNCHANGED rearm ELSE
    /\ deferredPaths' = deferredPaths \ {p}
    /\ trailing' = ~NoWork
    /\ request' = TRUE

-----------------------------------------------------------------------------
(* Work on a path: an upload from its queueing to its end, a download from   *)
(* its registration to its settlement. The file of a path without a row may  *)
(* be there or not; a path with a pending decision is not uploaded.          *)

UploadQueued(p) ==
  /\ work < MaxWork /\ p \notin queued /\ index[p].st # "decided"
  /\ queued' = queued \cup {p} /\ work' = work + 1
  /\ UNCHANGED <<server, memory, stored, effects, posted, rearm, pass, timer, history, connects>>

UploadAccepted(p) ==
  /\ p \in queued /\ posted[p] = 0 /\ index[p].st # "decided" /\ top < MaxSeq
  /\ rows' = [rows EXCEPT ![p] = [seq |-> top + 1, live |-> TRUE]] /\ top' = top + 1
  /\ posted' = [posted EXCEPT ![p] = top + 1]
  /\ UNCHANGED <<memory, stored, queued, effects, rearm, pass, timer, history, counters>>

(* The answer of reference() records the accepted seq unless the index knows *)
(* a later one by now, and ends a decision that is older than it.            *)
UploadAcked(p) ==
  /\ posted[p] # 0
  /\ posted' = [posted EXCEPT ![p] = 0]
  /\ index' = IF posted[p] > index[p].seq
                THEN [index EXCEPT ![p] = [seq |-> posted[p], st |-> "live"]] ELSE index
  /\ UNCHANGED <<server, cursor, stored, queued, effects, rearm, pass, timer, history, counters>>

(* The end of an upload: acknowledged, given up, refused, or with an answer  *)
(* that was lost.                                                            *)
UploadEnds(p) ==
  /\ p \in queued
  /\ queued' = queued \ {p} /\ posted' = [posted EXCEPT ![p] = 0]
  /\ UploadSettled(p)
  /\ UNCHANGED <<server, memory, stored, effects, pass, timer, history, counters>>

DownloadRegistered(p) ==
  /\ work < MaxWork /\ p \notin effects /\ index[p].st = "live"
  /\ effects' = effects \cup {p} /\ work' = work + 1
  /\ UNCHANGED <<server, memory, stored, queued, posted, rearm, pass, timer, history, connects>>

DownloadSettles(p) ==
  /\ p \in effects
  /\ effects' = effects \ {p}
  /\ UploadSettled(p)
  /\ UNCHANGED <<server, memory, stored, queued, posted, pass, timer, history, counters>>

(* A peer changes or deletes a path; the server announces the change.        *)
PeerWrites(p, live) ==
  /\ top < MaxSeq /\ (live \/ rows[p].live)
  /\ rows' = [rows EXCEPT ![p] = [seq |-> top + 1, live |-> live]] /\ top' = top + 1
  /\ timer' = TRUE
  /\ UNCHANGED <<memory, stored, busy, rearm, pass, history, counters>>

-----------------------------------------------------------------------------
(* The pass.                                                                 *)

PassStarts ==
  /\ request /\ pass.at = "none"
  /\ pass' = [NoPass EXCEPT !.at = "list", !.p = cursor]
  /\ owed' = {} /\ failed' = FALSE
  /\ UNCHANGED <<server, memory, stored, busy, rearm, timer, given, counters>>

(* Mutant: a pass that deferred a row asks for the next one itself.          *)
PassOverPolling(early) ==
  /\ pass' = NoPass
  /\ request' = (trailing \/ deferredPaths # {})
  /\ trailing' = FALSE
  /\ failed' = early

(* The pass settles, and with it its request: catchUpWork and catchUpRequest *)
(* are cleared by continuations of one promise, taken as one step. A pass    *)
(* that is still needed starts with a request of its own.                    *)
PassOver(early) ==
  /\ pass' = NoPass
  /\ request' = trailing
  /\ trailing' = FALSE
  /\ failed' = early

(* What the server answers for since_seq: its first PageSize rows, and       *)
(* max_seq.                                                                  *)
Above(p) == {[path |-> q, seq |-> rows[q].seq, live |-> rows[q].live] :
               q \in {r \in Paths : rows[r].seq > p}}
Pages(p) == {page \in SUBSET Above(p) :
               /\ \A s \in page, t \in Above(p) \ page : s.seq < t.seq
               /\ \/ page = Above(p) /\ Cardinality(page) < PageSize
                  \/ Cardinality(page) = PageSize}

(* Mutant: an empty first page fixes no fence.                               *)
ListAnsweredUnfenced ==
  /\ pass.at = "list"
  /\ \E page \in Pages(pass.p) :
       LET fence == IF pass.fence = NoFence /\ page # {} THEN top ELSE pass.fence
           more == pass.p # fence
       IN pass' = [pass EXCEPT !.fence = fence,
                               !.at = IF more THEN "rows" ELSE "flush",
                               !.todo = IF more THEN page ELSE {},
                               !.full = Cardinality(page) = PageSize]
  /\ UNCHANGED <<server, memory, stored, busy, rearm, timer, history, counters>>

ListAnswered ==
  /\ pass.at = "list"
  /\ \E page \in Pages(pass.p) :
       LET fence == IF pass.fence = NoFence THEN top ELSE pass.fence
           more == pass.p # fence
       IN pass' = [pass EXCEPT !.fence = fence,
                               !.at = IF more THEN "rows" ELSE "flush",
                               !.todo = IF more THEN page ELSE {},
                               !.full = Cardinality(page) = PageSize]
  /\ UNCHANGED <<server, memory, stored, busy, rearm, timer, history, counters>>

ListFails ==
  /\ pass.at = "list" /\ PassOver(TRUE)
  /\ UNCHANGED <<server, memory, stored, busy, deferredPaths, timer, given, owed, counters>>

NextRow(s) == s \in pass.todo /\ \A t \in pass.todo : s.seq <= t.seq

PageDone ==
  /\ pass.at = "rows" /\ pass.todo = {}
  /\ pass' = [pass EXCEPT !.at = IF pass.full THEN "list" ELSE "flush"]
  /\ UNCHANGED <<server, memory, stored, busy, rearm, timer, history, counters>>

BeyondFence ==
  /\ pass.at = "rows"
  /\ \E s \in pass.todo : NextRow(s) /\ s.seq > pass.fence
  /\ pass' = [pass EXCEPT !.at = "flush", !.todo = {}]
  /\ UNCHANGED <<server, memory, stored, busy, rearm, timer, history, counters>>

(* A remote delete meets work under way: the pass stops before this row.     *)
Defer ==
  /\ pass.at = "rows"
  /\ \E s \in pass.todo :
       /\ NextRow(s) /\ s.seq <= pass.fence
       /\ ~s.live /\ s.path \in queued \cup effects
       /\ deferredPaths' = deferredPaths \cup {s.path}
       /\ owed' = owed \cup {s.path}
  /\ pass' = [pass EXCEPT !.at = "flush", !.todo = {}, !.deferred = TRUE]
  /\ UNCHANGED <<server, memory, stored, busy, trailing, request, timer, given, failed, counters>>

TakeRow ==
  /\ pass.at = "rows"
  /\ \E s \in pass.todo :
       /\ NextRow(s) /\ s.seq <= pass.fence
       /\ s.live \/ s.path \notin queued \cup effects
  /\ pass' = [pass EXCEPT !.at = "apply"]
  /\ UNCHANGED <<server, memory, stored, busy, rearm, timer, history, counters>>

(* applyRemoteLive after its last await: a path without an entry is indexed, *)
(* unless a local file of other content is there; a later entry stays.       *)
LiveApplied(s) ==
  \/ /\ index[s.path].st # "none"
     /\ index' = IF s.seq <= index[s.path].seq THEN index ELSE
                   [index EXCEPT ![s.path] = [seq |-> s.seq, st |-> "live"]]
     /\ UNCHANGED given
  \/ /\ index[s.path].st = "none"
     /\ \/ /\ index' = [index EXCEPT ![s.path] = [seq |-> s.seq, st |-> "live"]]
           /\ UNCHANGED given
        \/ given' = [given EXCEPT ![s.path] = s.seq] /\ UNCHANGED index

(* applyRemoteTombstone after its last await: an entry whose file is gone is *)
(* removed, any other one takes a decision to delete or to publish again.    *)
TombstoneApplied(s) ==
  /\ IF \/ index[s.path].st = "none" \/ s.seq < index[s.path].seq
        \/ index[s.path] = [seq |-> s.seq, st |-> "decided"] THEN UNCHANGED index
     ELSE \/ index' = [index EXCEPT ![s.path] = NoEntry]
          \/ index' = [index EXCEPT ![s.path] = [seq |-> s.seq, st |-> "decided"]]
  /\ UNCHANGED given

Apply ==
  /\ pass.at = "apply"
  /\ \E s \in pass.todo :
       /\ NextRow(s)
       /\ IF s.live THEN LiveApplied(s) ELSE TombstoneApplied(s)
       /\ pass' = [pass EXCEPT !.at = IF s.seq = pass.fence THEN "flush" ELSE "rows",
                               !.p = s.seq,
                               !.todo = IF s.seq = pass.fence THEN {} ELSE @ \ {s}]
  /\ UNCHANGED <<server, cursor, stored, busy, rearm, timer, owed, failed, counters>>

(* Mutant: the fence is certified although a row was deferred.               *)
FlushDeferred ==
  /\ pass.at = "flush"
  /\ stored' = [index |-> index, cursor |-> cursor]
  /\ cursor' = IF pass.fence > cursor THEN pass.fence ELSE cursor
  /\ pass' = [pass EXCEPT !.at = "tail"]
  /\ UNCHANGED <<server, index, busy, rearm, timer, history, counters>>

(* After the walk: only what is stored is certified.                         *)
Flush ==
  /\ pass.at = "flush"
  /\ stored' = [index |-> index, cursor |-> cursor]
  /\ LET certified == IF pass.deferred THEN pass.p ELSE pass.fence
     IN cursor' = IF certified > cursor THEN certified ELSE cursor
  /\ pass' = [pass EXCEPT !.at = "tail"]
  /\ UNCHANGED <<server, index, busy, rearm, timer, history, counters>>

FlushFails ==
  /\ pass.at = "flush" /\ PassOver(TRUE)
  /\ UNCHANGED <<server, memory, stored, busy, deferredPaths, timer, given, owed, counters>>

(* reconcilePendingDeletesInternal on one entry: the file is trashed and the *)
(* entry removed; or it is published again, which the server may refuse or   *)
(* accept with an answer that is lost. An entry it fails on stays decided.   *)
(* At start-up, before any pass, nothing is published.                       *)
Reconcile(p) ==
  /\ pass.at \in {"start", "tail"} /\ index[p].st = "decided"
  /\ \/ index' = [index EXCEPT ![p] = NoEntry] /\ UNCHANGED server
     \/ /\ pass.at = "tail"
        /\ index' = [index EXCEPT ![p] = [seq |-> index[p].seq, st |-> "live"]] /\ UNCHANGED server
     \/ /\ pass.at = "tail" /\ top < MaxSeq /\ top' = top + 1
        /\ rows' = [rows EXCEPT ![p] = [seq |-> top + 1, live |-> TRUE]]
        /\ \/ index' = [index EXCEPT ![p] = [seq |-> top + 1, st |-> "live"]]
           \/ UNCHANGED index
  /\ UNCHANGED <<cursor, stored, busy, rearm, pass, timer, history, counters>>

StartReconciled ==
  /\ pass.at = "start" /\ pass' = NoPass
  /\ UNCHANGED <<server, memory, stored, busy, rearm, timer, history, counters>>

(* The tail ends when the downloads and the sweeps it waits for have ended.  *)
PassEnds ==
  /\ pass.at = "tail" /\ PassOver(FALSE)
  /\ UNCHANGED <<server, memory, stored, busy, deferredPaths, timer, given, owed, counters>>

-----------------------------------------------------------------------------
(* The write queue of the index stores a whole snapshot at a time.           *)
Persist ==
  /\ stored' = [index |-> index, cursor |-> cursor]
  /\ UNCHANGED <<server, memory, busy, rearm, pass, timer, history, counters>>

(* The application is killed and started again: the index comes back as it   *)
(* was stored, everything else is gone.                                      *)
Crash ==
  /\ connects \in 1..(MaxConnects - 1)
  /\ index' = stored.index /\ cursor' = stored.cursor
  /\ queued' = {} /\ effects' = {} /\ posted' = [p \in Paths |-> 0]
  /\ deferredPaths' = {} /\ trailing' = FALSE /\ request' = FALSE
  /\ pass' = Started /\ timer' = FALSE /\ owed' = {} /\ failed' = TRUE
  /\ UNCHANGED <<server, stored, given, counters>>

Next ==
  \/ Connect \/ AnnouncementTimer \/ PassStarts
  \/ \E p \in Paths :
       \/ UploadQueued(p) \/ UploadAccepted(p) \/ UploadAcked(p) \/ UploadEnds(p)
       \/ DownloadRegistered(p) \/ DownloadSettles(p)
       \/ PeerWrites(p, TRUE) \/ PeerWrites(p, FALSE)
       \/ Reconcile(p)
  \/ ListAnswered \/ ListFails \/ PageDone \/ BeyondFence \/ Defer \/ TakeRow \/ Apply
  \/ Flush \/ FlushFails \/ PassEnds \/ StartReconciled
  \/ Persist \/ Crash

PassSteps ==
  \/ PassStarts \/ ListAnswered \/ ListFails \/ PageDone \/ BeyondFence \/ Defer \/ TakeRow \/ Apply
  \/ Flush \/ FlushFails \/ PassEnds \/ StartReconciled

(* Every call a pass waits for answers or fails, and its promises go on. No  *)
(* fairness of uploads and downloads: they may take for ever.                *)
Spec == Init /\ [][Next]_vars /\ WF_vars(PassSteps)

-----------------------------------------------------------------------------
(* The index knows the row of p: it has recorded it or a later one, or the   *)
(* row is a delete and nothing is left to delete, or the row was left to the *)
(* local file that will be uploaded over it.                                 *)
Known(p, idx) ==
  \/ idx[p].seq >= rows[p].seq
  \/ ~rows[p].live /\ idx[p].st = "none"
  \/ given[p] = rows[p].seq

(* A cursor, in memory and in the file, never passes a row that the index    *)
(* next to it does not know: nothing would ever list that row again. Rows    *)
(* move beyond the fence, pages end, writes fail and the client crashes      *)
(* while a pass certifies.                                                   *)
CursorCertifies ==
  \A p \in Paths :
    /\ rows[p].seq <= cursor => Known(p, index)
    /\ rows[p].seq <= stored.cursor => Known(p, stored.index)

(* A pass that stopped before a remote delete is followed by another: either *)
(* the work it met still runs and its settlement will ask for the pass, or   *)
(* the pass is asked for, whenever the settlement came.                      *)
FollowUpScheduled ==
  \A p \in owed :
    \/ p \in deferredPaths /\ p \in queued \cup effects
    \/ trailing
    \/ request /\ NoWork

(* Deferral never becomes a polling loop: once nothing new happens the lane  *)
(* comes to rest, even if the work it met never ends.                        *)
LaneRests == <>[](~request /\ NoWork)

(* docs/architecture.md:232: blob_path_changed schedules a catch-up. When    *)
(* the lane is at rest and no pass failed or stopped, what was announced has *)
(* been fetched.                                                             *)
AnnouncementFetched ==
  (~request /\ ~timer /\ ~failed /\ owed = {} /\ connects > 0) => \A p \in Paths : Known(p, index)

(* docs/architecture.md:225-226: a row does not count as handled while an    *)
(* upload of its path is in flight. So an entry never stays behind a row of  *)
(* its path that the cursor certifies: no later pass would bring it there.   *)
EntriesAreCurrent ==
  \A p \in Paths :
    index[p].st # "none" /\ rows[p].seq <= cursor => index[p].seq >= rows[p].seq
=============================================================================
