------------------------------ MODULE BlobPath ------------------------------
(* One attachment of one client: its file, its index entry, and everything   *)
(* that works on the two at a time - uploads, the delete handler, the        *)
(* download (hydration), and the lane of catch-up and reconciliation         *)
(* (src/blob-uploader.ts, src/blob-downloader.ts, src/path-effects.ts).      *)
(* Every await of the code is a place where the others may take a step.      *)
(*                                                                           *)
(* Contents are numbered as they are written, and all have one size: nothing *)
(* but their hash tells them apart. The generations by which the server      *)
(* orders writes are left out: it may refuse a write that does not know its  *)
(* row. Other paths, renames, the listing of rows in pages (BlobCatchUp) and *)
(* the files that store the index (BlobIndexStore) are not modelled here.    *)
EXTENDS Naturals, FiniteSets

CONSTANTS
  Slots,        \* uploads that may run at a time (maxParallel)
  MaxContents,  \* bound: contents that anyone writes
  MaxSeq,       \* bound: rows the server accepts, and faults with them
  MaxOps,       \* bound: what the user does with the file
  MaxFaults     \* bound: failed calls, closed gates, missed events, crashes

ASSUME BlobPathAssumption ==
  /\ MaxContents \in Nat \ {0} /\ MaxSeq \in Nat \ {0}
  /\ MaxOps \in Nat /\ MaxFaults \in Nat

VARIABLES
  row,         \* server: the latest row of the path
  file,        \* the content of the local file, None when there is none
  kept,        \* contents saved as conflict copies or moved to the trash
  entry,       \* the entry of the path in the index
  cursor,      \* index.cursor()
  stored,      \* the entry and the cursor that the index file holds
  queued,      \* the path is in queued: isPending
  waiting,     \* how often the path is in queue: uploads that have not begun
  gateBlocked,
  superseded,
  selfDelete,  \* selfDeletes names the path
  ups,         \* per slot the upload that runs
  del,         \* the delete handler that runs
  hyd,         \* the download that runs
  lane,        \* the row, or the decision, the lane works on
  published,   \* history: contents the server accepted
  mine,        \* history: what the user wrote last and has not replaced or deleted himself
  gone,        \* history: who removed the file since it was last written
  lapses,      \* history: what this session skipped (see RestIsNoticed)
  fresh, ops, faults  \* counters of the bounds

server == <<row, published>>
disk == <<file, kept>>
index == <<entry, cursor>>
queue == <<queued, waiting, gateBlocked, superseded>>
history == <<mine, gone, lapses>>
counters == <<fresh, ops, faults>>
vars == <<server, disk, index, stored, queue, selfDelete, ups, del, hyd, lane, history, counters>>

None == 0
Torn == MaxContents + 1   \* what a write that was cut short leaves
Contents == None..Torn
Stale == MaxContents + 2  \* the mtime of a file that was written over
Seqs == 0..MaxSeq
Decisions == {"none", "delete", "republish"}

(* hash, lastRemoteHash, hydrated, skipped and pendingDecision of an entry   *)
(* (the decision's seq is the entry's), and the content whose mtime it holds.*)
Entries == [seq: Seqs, hash: Contents, base: Contents, hydrated: BOOLEAN, skipped: BOOLEAN,
            decision: Decisions, expected: Contents, mtime: Contents \cup {Stale}]
NoEntry == [seq |-> 0, hash |-> None, base |-> None, hydrated |-> FALSE, skipped |-> FALSE,
            decision |-> "none", expected |-> None, mtime |-> None]
Known == entry # NoEntry
Decided == entry.decision # "none"
Undecided(e) == [e EXCEPT !.decision = "none", !.expected = None]

(* A file that is written anew gets another mtime, with the same content too.*)
Outdated(e, content) == [e EXCEPT !.mtime = IF e.mtime = content THEN Stale ELSE e.mtime]
Outdates(content) == stored' = [stored EXCEPT !.entry = Outdated(stored.entry, content)]

NoUpload == [at |-> "idle", content |-> None, seq |-> 0]
NoDelete == [at |-> "idle", seq |-> 0, decision |-> "none"]
NoHydration == [at |-> "idle", seq |-> 0, hash |-> None, base |-> None, cancelled |-> FALSE]
NoLane == [at |-> "idle", seq |-> 0, hash |-> None, live |-> FALSE, online |-> TRUE,
           deferred |-> FALSE, acked |-> 0]

Uploads == [at: {"idle", "gate", "read", "send", "post", "answer"}, content: Contents, seq: Seqs]
Deletes == [at: {"idle", "stat", "gate", "post", "answer"}, seq: Seqs, decision: Decisions]
Hydrations == [at: {"idle", "fetch", "compare", "lock", "write", "compensate"}, seq: Seqs,
               hash: Contents, base: Contents, cancelled: BOOLEAN]
Lanes == [at: {"idle", "apply", "live", "stat", "read", "flush", "reconcile", "stable", "trash",
               "republish", "send", "post", "answer"},
          seq: Seqs, hash: Contents, live: BOOLEAN, online: BOOLEAN, deferred: BOOLEAN, acked: Seqs]

TypeOK ==
  /\ row \in [seq: Seqs, live: BOOLEAN, hash: Contents] /\ published \subseteq Contents
  /\ file \in Contents /\ kept \subseteq Contents
  /\ entry \in Entries /\ cursor \in Seqs /\ stored \in [entry: Entries, cursor: Seqs]
  /\ {queued, gateBlocked, superseded, selfDelete} \subseteq BOOLEAN /\ waiting \in 0..2
  /\ ups \in [Slots -> Uploads] /\ del \in Deletes /\ hyd \in Hydrations /\ lane \in Lanes
  /\ mine \in Contents /\ gone \in {"no", "user", "remote", "undone"}
  /\ lapses \subseteq {"unposted", "unseen", "passed", "overwritten", "strayed"}
  /\ fresh \in 1..MaxContents + 1 /\ ops \in 0..MaxOps /\ faults \in 0..MaxFaults

(* Either nobody knows the path, or the client has it in step with the       *)
(* server.                                                                   *)
Synced == [NoEntry EXCEPT !.seq = 1, !.hash = 1, !.base = 1, !.hydrated = TRUE, !.mtime = 1]
Init ==
  /\ \/ /\ row = [seq |-> 0, live |-> FALSE, hash |-> None] /\ published = {}
        /\ file = None /\ entry = NoEntry /\ cursor = 0 /\ fresh = 1
     \/ /\ row = [seq |-> 1, live |-> TRUE, hash |-> 1] /\ published = {1}
        /\ file = 1 /\ entry = Synced /\ cursor = 1 /\ fresh = 2
  /\ stored = [entry |-> entry, cursor |-> cursor]
  /\ kept = {}
  /\ queued = FALSE /\ waiting = 0 /\ gateBlocked = FALSE
  /\ superseded = FALSE /\ selfDelete = FALSE
  /\ ups = [u \in Slots |-> NoUpload] /\ del = NoDelete /\ hyd = NoHydration /\ lane = NoLane
  /\ mine = None /\ gone = "no" /\ lapses = {}
  /\ ops = 0 /\ faults = 0

Bounded == row.seq + faults < MaxSeq
Fault == faults < MaxFaults /\ Bounded /\ faults' = faults + 1
NoFault == UNCHANGED faults

(* The server accepts a write of the path. It may refuse a write whose       *)
(* sender has not seen the row it has now (HTTP 409).                        *)
Accepts(content) ==
  /\ Bounded
  /\ row' = [seq |-> row.seq + 1, live |-> TRUE, hash |-> content]
  /\ published' = published \cup {content}
AcceptsDelete ==
  /\ Bounded
  /\ row' = [row EXCEPT !.seq = row.seq + 1, !.live = FALSE]
  /\ UNCHANGED published
MayRefuse(seq) == row.seq > seq

-----------------------------------------------------------------------------
(* Mutant: a path that is queued is queued again.                            *)
OnFileChangedAgain ==
  IF Decided THEN UNCHANGED <<queued, waiting>> ELSE queued' = TRUE /\ waiting' = waiting + 1

(* The two handlers of vault events. A path whose upload is queued or runs   *)
(* is not queued again. (Of the places in the queue two are counted: bound.) *)
OnFileChanged ==
  IF Decided \/ queued THEN UNCHANGED <<queued, waiting>>
  ELSE queued' = TRUE /\ waiting' = IF waiting < 2 THEN waiting + 1 ELSE 2

(* The end of an upload unmarks the path, also when an upload that was       *)
(* queued after a delete still waits or runs.                                *)
UploadEnds(u) == ups' = [ups EXCEPT ![u] = NoUpload] /\ queued' = FALSE /\ UNCHANGED waiting

Uploading == \E u \in Slots : ups[u].at # "idle"

DropQueued == queued' = FALSE /\ waiting' = 0

(* Mutant: an entry that holds a delete decision posts its tombstone too.    *)
OnFileDeletedEcho ==
  IF selfDelete THEN selfDelete' = FALSE /\ UNCHANGED <<queue, hyd, entry, del>> ELSE
    /\ DropQueued /\ gateBlocked' = FALSE /\ superseded' = TRUE
    /\ hyd' = [hyd EXCEPT !.cancelled = hyd.at # "idle"]
    /\ IF entry.hash = None
         THEN entry' = NoEntry /\ UNCHANGED del
         ELSE /\ del.at = "idle"
              /\ del' = [at |-> IF entry.decision = "republish" THEN "stat" ELSE "gate",
                         seq |-> entry.seq, decision |-> entry.decision]
              /\ UNCHANGED entry
    /\ UNCHANGED selfDelete

(* onFileDeleted up to its first await. One such handler at a time goes on   *)
(* behind it (bound).                                                        *)
OnFileDeleted ==
  IF selfDelete THEN selfDelete' = FALSE /\ UNCHANGED <<queue, hyd, entry, del>> ELSE
    /\ DropQueued /\ gateBlocked' = FALSE /\ superseded' = TRUE
    /\ hyd' = [hyd EXCEPT !.cancelled = hyd.at # "idle"]
    /\ IF entry.hash = None \/ entry.decision = "delete"
         THEN entry' = NoEntry /\ UNCHANGED del
         ELSE /\ del.at = "idle"
              /\ del' = [at |-> IF entry.decision = "republish" THEN "stat" ELSE "gate",
                         seq |-> entry.seq, decision |-> entry.decision]
              /\ UNCHANGED entry
    /\ UNCHANGED selfDelete

-----------------------------------------------------------------------------
(* The user, and the peers. A vault event may be missed.                     *)

UserWrites ==
  /\ ops < MaxOps /\ ops' = ops + 1
  /\ fresh <= MaxContents /\ fresh' = fresh + 1
  /\ file' = fresh /\ gone' = "no"
  /\ mine' = fresh
  /\ lapses' = IF hyd.at \in {"lock", "write"} THEN lapses \cup {"overwritten"} ELSE lapses
  /\ \/ OnFileChanged /\ NoFault
     \/ UNCHANGED <<queued, waiting>> /\ Fault
  /\ UNCHANGED <<server, kept, index, stored, gateBlocked, superseded, selfDelete,
                 ups, del, hyd, lane>>

UserDeletes ==
  /\ ops < MaxOps /\ ops' = ops + 1
  /\ file # None /\ file' = None /\ mine' = None /\ gone' = "user"
  /\ \/ OnFileDeleted /\ NoFault
     \/ UNCHANGED <<queue, selfDelete, hyd, entry, del>> /\ Fault
  /\ UNCHANGED <<server, kept, cursor, stored, ups, lane, lapses, fresh>>

(* A peer writes new content, publishes the old one again, or deletes.       *)
PeerWrites ==
  /\ \/ fresh <= MaxContents /\ Accepts(fresh) /\ fresh' = fresh + 1
     \/ row.seq > 0 /\ Accepts(row.hash) /\ UNCHANGED fresh
     \/ row.live /\ AcceptsDelete /\ UNCHANGED fresh
  /\ UNCHANGED <<disk, index, stored, queue, selfDelete, ups, del, hyd, lane, history, ops, faults>>

-----------------------------------------------------------------------------
(* upload(): the gate, a stable size, the bytes, their transfer, and the     *)
(* reference that makes them the content of the path.                        *)

(* valid() of an upload.                                                     *)
Wanted == ~Decided /\ ~superseded

UploadStarts(u) ==
  /\ waiting > 0 /\ ups[u].at = "idle" /\ waiting' = waiting - 1
  /\ IF superseded THEN superseded' = FALSE /\ queued' = FALSE /\ UNCHANGED ups
     ELSE ups' = [ups EXCEPT ![u].at = "gate"] /\ UNCHANGED <<queued, superseded>>
  /\ UNCHANGED <<server, disk, index, stored, gateBlocked, selfDelete, del, hyd, lane, history, counters>>

UploadPassesGate(u) ==
  /\ ups[u].at = "gate"
  /\ \/ gateBlocked' = TRUE /\ UploadEnds(u) /\ UNCHANGED superseded /\ Fault
     \/ /\ superseded' = FALSE /\ UNCHANGED gateBlocked /\ NoFault
        /\ IF superseded \/ Decided THEN UploadEnds(u)
           ELSE ups' = [ups EXCEPT ![u].at = "read"] /\ UNCHANGED <<queued, waiting>>
  /\ UNCHANGED <<server, disk, index, stored, selfDelete, del, hyd, lane, history, fresh, ops>>

(* stableSize, readBinary, and the echo check against lastRemoteHash.        *)
UploadReads(u) ==
  /\ ups[u].at = "read"
  /\ IF file = None \/ Decided THEN UploadEnds(u) /\ UNCHANGED superseded
     ELSE /\ superseded' = FALSE
          /\ IF superseded \/ (Known /\ entry.base = file) THEN UploadEnds(u)
             ELSE /\ ups' = [ups EXCEPT ![u] = [at |-> "send", content |-> file, seq |-> 0]]
                  /\ UNCHANGED <<queued, waiting>>
  /\ UNCHANGED <<server, disk, index, stored, gateBlocked, selfDelete, del, hyd, lane, history, counters>>

(* update(path, {skipped: true}): refused by a cap, a quota or a check.      *)
Skipped == [(IF Known THEN entry ELSE [NoEntry EXCEPT !.hydrated = TRUE]) EXCEPT !.skipped = TRUE]

(* ensureBlob ends, and the reference is sent if the upload is still wanted. *)
UploadSends(u) ==
  /\ ups[u].at = "send"
  /\ \/ ~Wanted /\ UploadEnds(u) /\ UNCHANGED entry /\ NoFault
     \/ Wanted /\ UploadEnds(u) /\ entry' = Skipped /\ Fault
     \/ UploadEnds(u) /\ UNCHANGED entry /\ Fault
     \/ /\ Wanted /\ ups' = [ups EXCEPT ![u].at = "post", ![u].seq = entry.seq]
        /\ UNCHANGED <<queued, waiting, entry>> /\ NoFault
  /\ UNCHANGED <<server, disk, cursor, stored, gateBlocked, superseded, selfDelete, del, hyd, lane,
                 history, fresh, ops>>

(* The server takes the reference; or it is refused, or a message is lost.   *)
UploadPosts(u) ==
  /\ ups[u].at = "post"
  /\ \/ /\ Accepts(ups[u].content) /\ NoFault
        /\ ups' = [ups EXCEPT ![u].at = "answer", ![u].seq = row.seq + 1]
        /\ UNCHANGED <<queued, waiting>>
     \/ MayRefuse(ups[u].seq) /\ UploadEnds(u) /\ UNCHANGED server /\ NoFault
     \/ UploadEnds(u) /\ Fault /\ (UNCHANGED server \/ Accepts(ups[u].content))
  /\ UNCHANGED <<disk, index, stored, gateBlocked, superseded, selfDelete, del, hyd, lane, history,
                 fresh, ops>>

(* The acknowledgement: the mtime is that of the file as it is now.          *)
UploadAcked(u) ==
  /\ ups[u].at = "answer" /\ UploadEnds(u)
  /\ entry' = IF ups[u].seq <= entry.seq THEN entry ELSE
                [NoEntry EXCEPT !.seq = ups[u].seq, !.hash = ups[u].content, !.base = ups[u].content,
                                !.hydrated = TRUE, !.mtime = IF file # None THEN file ELSE entry.mtime]
  /\ lapses' = IF ups[u].seq > entry.seq /\ file \notin {None, ups[u].content}
                 THEN lapses \cup {"unseen"} ELSE lapses
  /\ UNCHANGED <<server, disk, cursor, stored, gateBlocked, superseded, selfDelete, del, hyd, lane,
                 mine, gone, counters>>

RetryGateBlocked ==
  /\ gateBlocked /\ gateBlocked' = FALSE /\ OnFileChanged
  /\ UNCHANGED <<server, disk, index, stored, superseded, selfDelete, ups, del, hyd, lane, history, counters>>

-----------------------------------------------------------------------------
(* onFileDeleted after its first await. What was not published because the   *)
(* gate is closed, or was not accepted, is removed from the index all the    *)
(* same; only a request that throws leaves the entry.                        *)

DeleteFindsFile ==
  /\ del.at = "stat"
  /\ del' = IF file # None THEN NoDelete ELSE [del EXCEPT !.at = "gate"]
  /\ UNCHANGED <<server, disk, index, stored, queue, selfDelete, ups, hyd, lane, history, counters>>

DeletePassesGate ==
  /\ del.at = "gate"
  /\ \/ del' = [del EXCEPT !.at = "post"] /\ UNCHANGED lapses /\ NoFault
     \/ del' = [del EXCEPT !.at = "answer"] /\ lapses' = lapses \cup {"unposted"} /\ Fault
  /\ UNCHANGED <<server, disk, index, stored, queue, selfDelete, ups, hyd, lane, mine, gone,
                 fresh, ops>>

DeletePosts ==
  /\ del.at = "post"
  /\ \/ /\ del' = [del EXCEPT !.at = "answer"] /\ AcceptsDelete
        /\ UNCHANGED lapses /\ NoFault
     \/ /\ del' = [del EXCEPT !.at = "answer"] /\ MayRefuse(del.seq)
        /\ UNCHANGED <<server, lapses>> /\ NoFault
     \/ /\ del' = [del EXCEPT !.at = "answer"] /\ lapses' = lapses \cup {"unposted"}
        /\ UNCHANGED server /\ Fault
     \/ /\ del' = NoDelete /\ (UNCHANGED server \/ AcceptsDelete)
        /\ UNCHANGED lapses /\ Fault
  /\ UNCHANGED <<disk, index, stored, queue, selfDelete, ups, hyd, lane, mine, gone, fresh, ops>>

(* Mutant: the entry of the path is removed, not only the captured one.      *)
DeleteAnsweredAnyway ==
  /\ del.at = "answer" /\ del' = NoDelete
  /\ del.decision = "republish" => hyd.at \notin {"write", "compensate"}
  /\ entry' = NoEntry
  /\ UNCHANGED <<server, disk, cursor, stored, queue, selfDelete, ups, hyd, lane, history, counters>>

(* removeCaptured, under the path lock when a decision was captured.         *)
DeleteAnswered ==
  /\ del.at = "answer" /\ del' = NoDelete
  /\ del.decision = "republish" => hyd.at \notin {"write", "compensate"}
  /\ entry' = IF entry.seq = del.seq /\ entry.decision = del.decision THEN NoEntry ELSE entry
  /\ UNCHANGED <<server, disk, cursor, stored, queue, selfDelete, ups, hyd, lane, history, counters>>

-----------------------------------------------------------------------------
(* hydrateOne: a registered download, the conflict copy, and under the path  *)
(* lock the write, its classification and the commit.                        *)

(* valid() of a download.                                                    *)
StillHydrates ==
  ~hyd.cancelled /\ Known /\ entry.seq = hyd.seq /\ entry.hash = hyd.hash /\ ~Decided

HydrationStarts ==
  /\ hyd.at = "idle"
  /\ entry.hash # None /\ ~Decided /\ ~entry.hydrated /\ ~entry.skipped
  /\ hyd' = [at |-> "fetch", seq |-> entry.seq, hash |-> entry.hash, base |-> entry.base,
             cancelled |-> FALSE]
  /\ UNCHANGED <<server, disk, index, stored, queue, selfDelete, ups, del, lane, history, counters>>

HydrationFetched ==
  /\ hyd.at = "fetch"
  /\ \/ hyd' = (IF StillHydrates THEN [hyd EXCEPT !.at = "compare"] ELSE NoHydration) /\ NoFault
     \/ hyd' = NoHydration /\ Fault
  /\ UNCHANGED <<server, disk, index, stored, queue, selfDelete, ups, del, lane, history, fresh, ops>>

(* Mutant: the local file is compared with the new hash of the entry only    *)
(* when the entry has none of its own.                                       *)
HydrationComparesLess ==
  /\ hyd.at = "compare"
  /\ kept' = IF file = None \/ file = hyd.hash \/ hyd.base # None THEN kept ELSE kept \cup {file}
  /\ hyd' = IF StillHydrates THEN [hyd EXCEPT !.at = "lock"] ELSE NoHydration
  /\ UNCHANGED <<server, file, index, stored, queue, selfDelete, ups, del, lane, history, counters>>

(* maybeConflictCopy: local bytes that are neither those to be written nor   *)
(* the last ones the server had are copied first.                            *)
HydrationCompares ==
  /\ hyd.at = "compare"
  /\ kept' = IF file \in {None, hyd.hash, hyd.base} \/ ~StillHydrates
                 THEN kept ELSE kept \cup {file}
  /\ hyd' = IF StillHydrates THEN [hyd EXCEPT !.at = "lock"] ELSE NoHydration
  /\ UNCHANGED <<server, file, index, stored, queue, selfDelete, ups, del, lane, history, counters>>

(* Under the lock, the echo baseline is set before the write. (What else     *)
(* takes the lock is one step here.)                                         *)
HydrationLocks ==
  /\ hyd.at = "lock"
  /\ IF StillHydrates
       THEN hyd' = [hyd EXCEPT !.at = "write"] /\ entry' = [entry EXCEPT !.base = hyd.hash]
       ELSE hyd' = NoHydration /\ UNCHANGED entry
  /\ UNCHANGED <<server, disk, cursor, stored, queue, selfDelete, ups, del, lane, history, counters>>

(* The write ends; the vault tells of it at once or not at all. classify: a  *)
(* cancelled write, or one whose entry is gone, is compensated; a newer row  *)
(* leaves the bytes and asks for a download again; else the download is      *)
(* committed.                                                                *)
HydrationWritten ==
  /\ hyd.at = "write" /\ file' = hyd.hash
  /\ (OnFileChanged \/ UNCHANGED <<queued, waiting>>)
  /\ IF hyd.cancelled \/ ~Known
       THEN /\ hyd' = [hyd EXCEPT !.at = "compensate"] /\ selfDelete' = TRUE
            /\ entry' = Outdated(entry, hyd.hash) /\ UNCHANGED gone
       ELSE /\ hyd' = NoHydration /\ gone' = "no"
            /\ entry' = [Outdated(entry, hyd.hash) EXCEPT
                           !.hydrated = entry.seq <= hyd.seq /\ entry.hash = hyd.hash]
            /\ UNCHANGED selfDelete
  /\ Outdates(hyd.hash)
  /\ UNCHANGED <<server, kept, cursor, gateBlocked, superseded, ups, del, lane,
                 mine, lapses, counters>>

(* A failed write may have cut the file short; the baseline is rolled back.  *)
HydrationWriteFails ==
  /\ hyd.at = "write" /\ Fault
  /\ hyd' = NoHydration
  /\ LET rolled == IF StillHydrates THEN [entry EXCEPT !.base = hyd.base] ELSE entry IN
     \/ UNCHANGED <<file, queued, waiting, stored>> /\ entry' = rolled
     \/ /\ file' = Torn /\ (OnFileChanged \/ UNCHANGED <<queued, waiting>>)
        /\ entry' = Outdated(rolled, Torn) /\ Outdates(Torn)
  /\ UNCHANGED <<server, kept, cursor, gateBlocked, superseded, selfDelete, ups,
                 del, lane, history, fresh, ops>>

(* compensate: the file goes to the trash, and the vault event of that is    *)
(* recognised as the client's own.                                           *)
HydrationCompensates ==
  /\ hyd.at = "compensate" /\ hyd' = NoHydration
  /\ \/ /\ file # None /\ file' = None /\ kept' = kept \cup {file}
        /\ gone' = "undone"
        /\ selfDelete' = FALSE /\ NoFault
     \/ file = None /\ UNCHANGED <<file, kept, selfDelete, gone>> /\ NoFault
     \/ UNCHANGED <<file, kept, gone>> /\ selfDelete' = FALSE /\ Fault
  /\ UNCHANGED <<server, index, stored, queue, ups, del, lane, mine, lapses, fresh, ops>>

SelfDeleteExpires ==
  /\ selfDelete /\ hyd.at # "compensate" /\ selfDelete' = FALSE
  /\ UNCHANGED <<server, disk, index, stored, queue, ups, del, hyd, lane, history, counters>>

-----------------------------------------------------------------------------
(* The lane: a row the server lists is applied, the index flushed, the       *)
(* cursor advanced, and a pending decision executed.                         *)

LaneLists ==
  /\ lane.at = "idle" /\ row.seq > cursor
  /\ lane' = [NoLane EXCEPT !.at = "apply", !.seq = row.seq, !.hash = row.hash, !.live = row.live]
  /\ UNCHANGED <<server, disk, index, stored, queue, selfDelete, ups, del, hyd, history, counters>>

LaneGoes(at) == lane' = [lane EXCEPT !.at = at]

(* The row as applyRemoteLive records it in an entry.                        *)
Recorded(e) ==
  IF e.hash = lane.hash THEN [e EXCEPT !.seq = lane.seq]
  ELSE [e EXCEPT !.seq = lane.seq, !.hash = lane.hash, !.hydrated = FALSE]

(* A live row of a path without an entry: a file of the same content is in   *)
(* step with it, a file of other content is left alone.                      *)
LiveUnindexed ==
  /\ lane.at = "apply" /\ lane.live /\ ~Known
  /\ LET same == file = lane.hash
         new == [NoEntry EXCEPT !.seq = lane.seq, !.hash = lane.hash, !.hydrated = same,
                                !.base = IF same THEN lane.hash ELSE None]
     IN /\ entry' = IF file = None \/ same THEN new ELSE entry
        /\ lapses' = IF (file = None \/ same) /\ ~Uploading THEN lapses ELSE lapses \cup {"passed"}
  /\ LaneGoes("flush")
  /\ UNCHANGED <<server, disk, cursor, stored, queue, selfDelete, ups, del, hyd, mine, gone,
                 counters>>

(* A live row that is newer than a decision ends it before it looks whether  *)
(* the file is there.                                                        *)
LiveIndexed ==
  /\ lane.at = "apply" /\ lane.live /\ Known
  /\ \/ lane.seq < entry.seq /\ LaneGoes("flush") /\ UNCHANGED entry
     \/ /\ Decided /\ lane.seq > entry.seq
        /\ entry' = Undecided(entry) /\ LaneGoes("live")
     \/ /\ lane.seq = entry.seq \/ (lane.seq > entry.seq /\ ~Decided)
        /\ entry' = Recorded(entry) /\ LaneGoes("flush")
  /\ UNCHANGED <<server, disk, cursor, stored, queue, selfDelete, ups, del, hyd, history, counters>>

LiveFindsFile ==
  /\ lane.at = "live" /\ LaneGoes("flush")
  /\ entry' = IF ~Known \/ lane.seq < entry.seq THEN entry ELSE
                Recorded([entry EXCEPT !.hydrated = entry.hydrated /\ file # None])
  /\ lapses' = IF Known THEN lapses ELSE lapses \cup {"passed"}
  /\ UNCHANGED <<server, disk, cursor, stored, queue, selfDelete, ups, del, hyd, mine, gone, counters>>

(* A delete waits for the upload or the download of its path (BlobCatchUp).  *)
TombstoneTaken ==
  /\ lane.at = "apply" /\ ~lane.live
  /\ \/ (queued \/ hyd.at # "idle") /\ lane' = [lane EXCEPT !.at = "flush", !.deferred = TRUE]
     \/ /\ ~queued /\ hyd.at = "idle"
        /\ IF ~Known \/ lane.seq < entry.seq \/ (Decided /\ entry.seq = lane.seq)
             THEN LaneGoes("flush") ELSE LaneGoes("stat")
  /\ lapses' = IF ~queued /\ Uploading THEN lapses \cup {"passed"} ELSE lapses
  /\ UNCHANGED <<server, disk, index, stored, queue, selfDelete, ups, del, hyd, mine, gone, counters>>

Decides(kind, content) ==
  entry' = [entry EXCEPT !.seq = lane.seq, !.decision = kind, !.expected = content]
Superseded == ~Known \/ lane.seq < entry.seq

TombstoneFindsFile ==
  /\ lane.at = "stat"
  /\ \/ Superseded /\ UNCHANGED entry /\ LaneGoes("flush")
     \/ ~Superseded /\ file = None /\ entry' = NoEntry /\ LaneGoes("flush")
     \/ ~Superseded /\ file # None /\ queued /\ Decides("republish", None) /\ LaneGoes("flush")
     \/ ~Superseded /\ file # None /\ ~queued /\ UNCHANGED entry /\ LaneGoes("read")
  /\ UNCHANGED <<server, disk, cursor, stored, queue, selfDelete, ups, del, hyd, history, counters>>

(* A file that is as the server last had it is to be deleted, any other one  *)
(* to be published again. A file that vanished fails the pass.               *)
TombstoneDecides ==
  /\ lane.at = "read"
  /\ \/ file = None /\ UNCHANGED entry /\ lane' = NoLane
     \/ file # None /\ Superseded /\ UNCHANGED entry /\ LaneGoes("flush")
     \/ /\ file # None /\ ~Superseded /\ LaneGoes("flush")
        /\ IF file = entry.base THEN Decides("delete", file) ELSE Decides("republish", None)
  /\ UNCHANGED <<server, disk, cursor, stored, queue, selfDelete, ups, del, hyd, history, counters>>

(* Only what is stored is certified, and only then are decisions executed.   *)
LaneFlushes ==
  /\ lane.at = "flush"
  /\ \/ /\ stored' = [entry |-> entry, cursor |-> cursor]
        /\ cursor' = IF lane.deferred \/ lane.seq <= cursor THEN cursor ELSE lane.seq
        /\ LaneGoes("reconcile") /\ NoFault
     \/ lane' = NoLane /\ UNCHANGED <<stored, cursor>> /\ Fault
  /\ UNCHANGED <<server, disk, entry, queue, selfDelete, ups, del, hyd, history, fresh, ops>>

(* valid() of the reconciler: the entry holds the decision it captured.      *)
Holds(kind) == entry.decision = kind /\ entry.seq = lane.seq

(* The file is not the one whose delete was decided: the decision becomes    *)
(* one to publish it, which has to be stored before it is followed.          *)
RepublishInstead ==
  /\ entry' = [entry EXCEPT !.decision = "republish", !.expected = None]
  /\ \/ /\ stored' = [entry |-> entry', cursor |-> cursor] /\ NoFault
        /\ lane' = [lane EXCEPT !.at = "republish", !.seq = entry.seq]
     \/ UNCHANGED stored /\ lane' = NoLane /\ Fault

(* reconcilePendingDeletesInternal: what the entry holds, and whether the    *)
(* file is still the one that was to be deleted.                             *)
Reconcile ==
  /\ lane.at = "reconcile"
  /\ \/ ~Decided /\ lane' = NoLane /\ UNCHANGED <<entry, stored>> /\ NoFault
     \/ /\ entry.decision = "republish" /\ UNCHANGED <<entry, stored>> /\ NoFault
        /\ lane' = [lane EXCEPT !.at = "republish", !.seq = entry.seq]
     \/ /\ entry.decision = "delete"
        /\ \/ file = None /\ entry' = NoEntry /\ lane' = NoLane /\ UNCHANGED stored /\ NoFault
           \/ file \notin {None, entry.expected} /\ RepublishInstead
           \/ /\ file = entry.expected /\ UNCHANGED <<entry, stored>> /\ NoFault
              /\ lane' = [lane EXCEPT !.at = "stable", !.seq = entry.seq]
  /\ UNCHANGED <<server, disk, cursor, queue, selfDelete, ups, del, hyd, history, fresh, ops>>

(* The second stat sees the size only.                                       *)
ReconcileStats ==
  /\ lane.at = "stable"
  /\ \/ ~Holds("delete") /\ lane' = NoLane /\ UNCHANGED <<entry, stored>> /\ NoFault
     \/ Holds("delete") /\ file = None /\ RepublishInstead
     \/ Holds("delete") /\ file # None /\ LaneGoes("trash") /\ UNCHANGED <<entry, stored>> /\ NoFault
  /\ UNCHANGED <<server, disk, cursor, queue, selfDelete, ups, del, hyd, history, fresh, ops>>

(* The file is trashed under the path lock. The vault tells of it before the *)
(* call returns, and the handler removes the entry; without a file there is  *)
(* nothing to tell of.                                                       *)
ReconcileTrashes ==
  /\ lane.at = "trash" /\ hyd.at \notin {"write", "compensate"}
  /\ lane' = NoLane
  /\ \/ /\ ~Holds("delete") /\ NoFault
        /\ UNCHANGED <<file, kept, gone, entry, queue, selfDelete, hyd, del, lapses>>
     \/ /\ Holds("delete") /\ file = None /\ entry' = NoEntry /\ NoFault
        /\ UNCHANGED <<file, kept, gone, queue, selfDelete, hyd, del, lapses>>
     \/ /\ Holds("delete") /\ file # None /\ file' = None /\ kept' = kept \cup {file} /\ NoFault
        /\ OnFileDeleted /\ gone' = "remote"
        /\ lapses' = IF Uploading \/ selfDelete THEN lapses \cup {"strayed"} ELSE lapses
     \/ UNCHANGED <<file, kept, gone, entry, queue, selfDelete, hyd, del, lapses>> /\ Fault
  /\ UNCHANGED <<server, cursor, stored, ups, mine, fresh, ops>>

(* republishLive: the bytes as they are now, their transfer, the reference   *)
(* and its acknowledgement. Nothing is published at start-up.                *)
RepublishReads ==
  /\ lane.at = "republish"
  /\ lane' = IF ~lane.online \/ ~Holds("republish") \/ file = None THEN NoLane
             ELSE [lane EXCEPT !.at = "send", !.hash = file]
  /\ UNCHANGED <<server, disk, index, stored, queue, selfDelete, ups, del, hyd, history, counters>>

RepublishSends ==
  /\ lane.at = "send"
  /\ \/ lane' = (IF Holds("republish") THEN [lane EXCEPT !.at = "post"] ELSE NoLane) /\ NoFault
     \/ lane' = NoLane /\ Fault
  /\ UNCHANGED <<server, disk, index, stored, queue, selfDelete, ups, del, hyd, history, fresh, ops>>

(* A refusal ends the decision: the local file stays, the server's row too.  *)
RepublishPosts ==
  /\ lane.at = "post"
  /\ \/ /\ Accepts(lane.hash) /\ UNCHANGED entry /\ NoFault
        /\ lane' = [lane EXCEPT !.at = "answer", !.acked = row.seq + 1]
     \/ /\ MayRefuse(lane.seq) /\ lane' = NoLane /\ UNCHANGED server /\ NoFault
        /\ entry' = IF Holds("republish") THEN Undecided(entry) ELSE entry
     \/ lane' = NoLane /\ UNCHANGED entry /\ Fault /\ (UNCHANGED server \/ Accepts(lane.hash))
  /\ UNCHANGED <<disk, cursor, stored, queue, selfDelete, ups, del, hyd, history, fresh, ops>>

RepublishAcked ==
  /\ lane.at = "answer" /\ lane' = NoLane
  /\ entry' = IF ~Holds("republish") \/ lane.acked <= entry.seq THEN entry ELSE
                [NoEntry EXCEPT !.seq = lane.acked, !.hash = lane.hash, !.base = lane.hash,
                                !.hydrated = TRUE, !.mtime = entry.mtime]
  /\ UNCHANGED <<server, disk, cursor, stored, queue, selfDelete, ups, del, hyd, history, counters>>

-----------------------------------------------------------------------------
(* sweepAttachments and backfillAttachments look for what the events missed. *)

(* A file whose mtime is not the recorded one, or, without a recorded one,   *)
(* whose hash is not that of the entry.                                      *)
Changed == ~Known \/ file # (IF entry.mtime # None THEN entry.mtime ELSE entry.hash)

SweepFindsFile ==
  /\ file # None /\ (Changed \/ entry.skipped) /\ OnFileChanged
  /\ UNCHANGED <<server, disk, index, stored, gateBlocked, superseded, selfDelete, ups, del, hyd,
                 lane, history, counters>>

MissesFile == file = None /\ entry.hydrated /\ ~entry.skipped /\ ~Decided
SweepMissesFile ==
  /\ MissesFile /\ OnFileDeleted
  /\ UNCHANGED <<server, disk, cursor, stored, ups, lane, history, counters>>

-----------------------------------------------------------------------------
Persist ==
  /\ stored' = [entry |-> entry, cursor |-> cursor]
  /\ UNCHANGED <<server, disk, index, queue, selfDelete, ups, del, hyd, lane, history, counters>>

(* The application is killed and started again: a write may be cut short,    *)
(* the index comes back as it was stored, pending deletes are reconciled     *)
(* without the network, and a create event comes for a file that is there.   *)
Crash ==
  /\ Fault
  /\ \/ UNCHANGED <<file, stored>>
     \/ hyd.at = "write" /\ file' \in {hyd.hash, Torn} /\ Outdates(file')
  /\ entry' = stored'.entry /\ cursor' = stored.cursor
  /\ queued' = (file' # None /\ stored.entry.decision = "none") /\ waiting' = IF queued' THEN 1 ELSE 0
  /\ gateBlocked' = FALSE /\ superseded' = FALSE /\ selfDelete' = FALSE
  /\ ups' = [u \in Slots |-> NoUpload] /\ del' = NoDelete /\ hyd' = NoHydration
  /\ lane' = [NoLane EXCEPT !.at = "reconcile", !.online = FALSE]
  /\ UNCHANGED <<server, kept, history, fresh, ops>>

UploadNext == \E u \in Slots :
  \/ UploadStarts(u) \/ UploadPassesGate(u) \/ UploadReads(u) \/ UploadSends(u)
  \/ UploadPosts(u) \/ UploadAcked(u)
DeleteNext == DeleteFindsFile \/ DeletePassesGate \/ DeletePosts \/ DeleteAnswered
HydrationNext ==
  \/ HydrationStarts \/ HydrationFetched \/ HydrationCompares \/ HydrationLocks
  \/ HydrationWritten \/ HydrationWriteFails \/ HydrationCompensates
LaneNext ==
  \/ LaneLists \/ LiveUnindexed \/ LiveIndexed \/ LiveFindsFile
  \/ TombstoneTaken \/ TombstoneFindsFile \/ TombstoneDecides \/ LaneFlushes
  \/ Reconcile \/ ReconcileStats \/ ReconcileTrashes
  \/ RepublishReads \/ RepublishSends \/ RepublishPosts \/ RepublishAcked

Next ==
  \/ UserWrites \/ UserDeletes \/ PeerWrites
  \/ UploadNext \/ DeleteNext \/ HydrationNext \/ LaneNext
  \/ RetryGateBlocked \/ SelfDeleteExpires \/ SweepFindsFile \/ SweepMissesFile
  \/ Persist \/ Crash

Spec == Init /\ [][Next]_vars

-----------------------------------------------------------------------------
(* What the user wrote last is never lost through the client: it is in the   *)
(* file, the server has had it, or it is in a conflict copy or the trash.    *)
(* (An edit between the comparison of a download and its write is not        *)
(* followed: nothing protects it.)                                           *)
NothingLost ==
  "overwritten" \notin lapses => mine \in {None, file} \cup published \cup kept

(* The client does not publish a delete that it has executed for a peer: the *)
(* vault event of its own trash, or the missing file that a crash leaves     *)
(* behind, is not taken for a delete by the user. (What a compensation took  *)
(* from a later edit may be published. "strayed": an upload ran when its     *)
(* file was trashed and its answer will index the path again, or the event   *)
(* was taken for that of an earlier compensation.)                           *)
Publishes == del.at = "idle" /\ del'.at # "idle"
RemoteDeletesNotEchoed ==
  [][Publishes /\ "strayed" \notin lapses => gone' \in {"user", "undone"}]_vars

AtRest ==
  /\ waiting = 0 /\ del.at = "idle" /\ hyd.at = "idle" /\ lane.at = "idle"
  /\ \A u \in Slots : ups[u].at = "idle"
Agree == IF row.live THEN file = row.hash ELSE file = None

(* What will look at the path again: the next pass, the reconciler, the gate *)
(* when it opens, a download, or a sweep for files or for missing ones.      *)
Noticed ==
  \/ row.seq > cursor \/ Decided \/ gateBlocked
  \/ entry.hash # None /\ ~entry.hydrated /\ ~entry.skipped
  \/ file # None /\ (Changed \/ entry.skipped)
  \/ MissesFile

(* The sweep is for "missing hydrated, non-skipped index paths"              *)
(* (docs/architecture.md:39), and a download passes over skipped ones too.   *)
Abandoned == file = None /\ entry.skipped

(* When nothing works on the path, the file and the server agree or          *)
(* something will notice that they do not - unless this session has skipped  *)
(* something. "passed": the lane took a row while an upload that is not      *)
(* marked as queued ran, or left a live row aside for a local file that is   *)
(* not indexed. "unseen", "unposted": the next two properties.               *)
RestIsNoticed ==
  AtRest /\ {"passed", "unseen", "unposted"} \cap lapses = {} /\ ~Abandoned => Agree \/ Noticed

(* docs/architecture.md:39: the sweep is there "to discover missed creates   *)
(* and modifications", and its one blind spot is a large file of the same    *)
(* size without an mtime. So an edit that came while an upload ran, also one *)
(* that kept the size, is noticed.                                           *)
EditsAreNoticed == AtRest /\ lapses \subseteq {"unseen"} /\ ~Abandoned => Agree \/ Noticed

(* CHANGELOG.md:216-217: deleting an attachment posts a tombstone. So one    *)
(* that could not be posted is noticed.                                      *)
DeletesAreNoticed == AtRest /\ lapses \subseteq {"unposted"} /\ ~Abandoned => Agree \/ Noticed
=============================================================================
