--------------------------- MODULE BlobPathProofs ---------------------------
(* What TLAPS proves of BlobPath, for any number of upload slots, contents,  *)
(* rows, user operations and faults: the types, that nothing the user wrote  *)
(* last is lost through the client, that the client never publishes a delete *)
(* it has executed for a peer, and that a path at rest is as the server has  *)
(* it or will be looked at again.                                            *)
EXTENDS BlobPath, TLAPS

USE BlobPathAssumption DEF server, disk, index, queue, history, counters

(* TypeOK in parts, one per group of variables that change together.         *)
ServerTypes == row \in [seq: Seqs, live: BOOLEAN, hash: Contents] /\ published \subseteq Contents
FileTypes == file \in Contents /\ kept \subseteq Contents
EntryTypes == entry \in Entries
StoredTypes == cursor \in Seqs /\ stored \in [entry: Entries, cursor: Seqs]
QueueTypes == queued \in BOOLEAN /\ waiting \in 0..2
FlagTypes == gateBlocked \in BOOLEAN /\ superseded \in BOOLEAN /\ selfDelete \in BOOLEAN
UploadTypes == ups \in [Slots -> Uploads]
DeleteTypes == del \in Deletes
HydrationTypes == hyd \in Hydrations
LaneTypes == lane \in Lanes
HistoryTypes ==
  /\ mine \in Contents /\ gone \in {"no", "user", "remote", "undone"}
  /\ lapses \subseteq {"unposted", "unseen", "passed", "overwritten", "strayed"}
CounterTypes == fresh \in 1..MaxContents + 1 /\ ops \in 0..MaxOps /\ faults \in 0..MaxFaults

(* The values that stand for nothing have their types.                       *)
LEMMA Blanks ==
  /\ None \in Contents /\ Torn \in Contents /\ 0 \in Seqs
  /\ NoEntry \in Entries /\ NoUpload \in Uploads /\ NoDelete \in Deletes
  /\ NoHydration \in Hydrations /\ NoLane \in Lanes
  BY DEF None, Torn, Contents, Seqs, NoEntry, Entries, Decisions, NoUpload, Uploads, NoDelete,
      Deletes, NoHydration, Hydrations, NoLane, Lanes

(* TypeOK is its parts.                                                      *)
LEMMA Parts ==
  TypeOK <=> /\ ServerTypes
             /\ FileTypes
             /\ EntryTypes
             /\ StoredTypes
             /\ QueueTypes
             /\ FlagTypes
             /\ UploadTypes
             /\ DeleteTypes
             /\ HydrationTypes
             /\ LaneTypes
             /\ HistoryTypes
             /\ CounterTypes
  BY DEF TypeOK, ServerTypes, FileTypes, EntryTypes, StoredTypes, QueueTypes, FlagTypes,
      UploadTypes, DeleteTypes, HydrationTypes, LaneTypes, HistoryTypes, CounterTypes

(* What TypeOK says of the variables and of the fields of the records.       *)
LEMMA Fields ==
  ASSUME TypeOK
  PROVE  /\ row.seq \in Seqs /\ row.live \in BOOLEAN /\ row.hash \in Contents
         /\ published \subseteq Contents /\ row \in [seq: Seqs, live: BOOLEAN, hash: Contents]
         /\ file \in Contents /\ kept \subseteq Contents
         /\ entry \in Entries /\ entry.seq \in Seqs /\ entry.hash \in Contents
         /\ entry.base \in Contents
         /\ entry.hydrated \in BOOLEAN /\ entry.skipped \in BOOLEAN /\ entry.decision \in Decisions
         /\ entry.expected \in Contents /\ entry.mtime \in Contents \cup {Stale}
         /\ cursor \in Seqs /\ stored \in [entry: Entries, cursor: Seqs]
         /\ stored.entry \in Entries /\ stored.cursor \in Seqs
         /\ ups \in [Slots -> Uploads]
         /\ \A u \in Slots :
              ups[u] \in Uploads /\ ups[u].content \in Contents /\ ups[u].seq \in Seqs
         /\ del \in Deletes
         /\ hyd \in Hydrations /\ hyd.hash \in Contents /\ hyd.base \in Contents /\ hyd.seq \in Seqs
         /\ lane \in Lanes /\ lane.seq \in Seqs /\ lane.hash \in Contents /\ lane.acked \in Seqs
         /\ Bounded => row.seq + 1 \in Seqs
         /\ queued \in BOOLEAN /\ waiting \in 0..2 /\ gateBlocked \in BOOLEAN
         /\ superseded \in BOOLEAN /\ selfDelete \in BOOLEAN
         /\ gone \in {"no", "user", "remote", "undone"}
         /\ lapses \subseteq {"unposted", "unseen", "passed", "overwritten", "strayed"}
         /\ mine \in Contents /\ fresh \in 1..MaxContents + 1 /\ ops \in 0..MaxOps
         /\ faults \in 0..MaxFaults /\ fresh \in Nat /\ (fresh <= MaxContents => fresh \in Contents)
  BY DEF TypeOK, Entries, Uploads, Hydrations, Lanes, Bounded, Seqs, Contents, None, Torn

(* What a write of the file does to the entries: only their mtime.           *)
Alike(e, f) ==
  /\ f \in Entries /\ f.mtime \in {e.mtime, Stale}
  /\ f.seq = e.seq /\ f.hash = e.hash /\ f.base = e.base /\ f.hydrated = e.hydrated
  /\ f.skipped = e.skipped /\ f.decision = e.decision /\ f.expected = e.expected

LEMMA Outdating ==
  ASSUME NEW e \in Entries, NEW c \in Contents
  PROVE  /\ Alike(e, Outdated(e, c)) /\ Outdated(e, c).mtime # c
         /\ c # None => (Outdated(e, c) = NoEntry <=> e = NoEntry)
<1>1. Alike(e, Outdated(e, c))
  BY DEF Alike, Outdated, Entries
<1>2. Outdated(e, c).mtime = (IF e.mtime = c THEN Stale ELSE e.mtime) /\ c # Stale
  BY DEF Outdated, Entries, Contents, Stale, Torn, None
<1>3. ASSUME c # None PROVE Outdated(e, c) = NoEntry <=> e = NoEntry
  <2>1. e = NoEntry => Outdated(e, c) = e
    BY <1>3, Blanks DEF Outdated, NoEntry, None
  <2>2. Outdated(e, c) = NoEntry => Outdated(e, c).mtime # Stale
    BY DEF NoEntry, None, Stale
  <2>3. e.mtime # c => Outdated(e, c) = e
    BY DEF Outdated, Entries
  <2> QED
    BY <1>2, <2>1, <2>2, <2>3
<1> QED
  BY <1>1, <1>2, <1>3

LEMMA Overwrites ==
  ASSUME TypeOK, HydrationWritten \/ HydrationWriteFails \/ Crash
  PROVE  /\ stored' \in [entry: Entries, cursor: Seqs] /\ stored'.cursor = stored.cursor
         /\ Alike(stored.entry, stored'.entry)
         /\ stored' = stored \/ \E c \in {hyd.hash, Torn} : file' = c /\ Outdates(c)
<1> USE Fields, Blanks
<1>2. UNCHANGED stored \/ \E c \in {hyd.hash, Torn} : file' = c /\ Outdates(c)
  BY DEF HydrationWritten, HydrationWriteFails, Crash
<1>3. CASE UNCHANGED stored
  BY <1>3 DEF Alike
<1>4. ASSUME NEW c \in {hyd.hash, Torn}, file' = c, Outdates(c)
      PROVE  /\ stored' \in [entry: Entries, cursor: Seqs] /\ stored'.cursor = stored.cursor
             /\ Alike(stored.entry, stored'.entry)
  <2>a. stored.entry \in Entries /\ c \in Contents
    OBVIOUS
  <2>b. Alike(stored.entry, Outdated(stored.entry, c))
    BY <2>a, Outdating
  <2>1. Alike(stored.entry, Outdated(stored.entry, c)) /\ Outdated(stored.entry, c) \in Entries
    BY <2>b DEF Alike
  <2>2. stored'.entry = Outdated(stored.entry, c) /\ stored'.cursor = stored.cursor
    BY <1>4 DEF Outdates
  <2>3. stored' \in [entry: Entries, cursor: Seqs]
    BY <1>4, <2>1 DEF Outdates
  <2> QED
    BY <2>1, <2>2, <2>3
<1> QED
  BY <1>2, <1>3, <1>4

LEMMA EntryOverwritten ==
  ASSUME TypeOK, HydrationWritten \/ HydrationWriteFails
  PROVE  /\ entry' \in Entries /\ entry'.mtime \in {entry.mtime, Stale}
         /\ entry'.seq = entry.seq /\ entry'.hash = entry.hash /\ entry'.skipped = entry.skipped
         /\ entry'.base \in {entry.base, hyd.base}
         /\ entry'.decision = entry.decision /\ entry'.expected = entry.expected
         /\ \/ entry'.hydrated = entry.hydrated
            \/ HydrationWritten /\ entry'.hydrated = (entry.seq <= hyd.seq /\ entry.hash = hyd.hash)
<1> USE Fields, Blanks
<1>1. CASE HydrationWritten
  <2>1. Alike(entry, Outdated(entry, hyd.hash))
    BY Outdating
  <2>2. Outdated(entry, hyd.hash) \in Entries
    BY <2>1 DEF Alike
  <2>3. CASE entry' = Outdated(entry, hyd.hash)
    BY <2>1, <2>3 DEF Alike
  <2>4. CASE entry' = [Outdated(entry, hyd.hash) EXCEPT
                        !.hydrated = entry.seq <= hyd.seq /\ entry.hash = hyd.hash]
    <3>1. (entry.seq <= hyd.seq /\ entry.hash = hyd.hash) \in BOOLEAN
      OBVIOUS
    <3>2. PICK o \in Entries, b \in BOOLEAN :
             /\ o = Outdated(entry, hyd.hash) /\ b = (entry.seq <= hyd.seq /\ entry.hash = hyd.hash)
      BY <2>2, <3>1
    <3>3. entry' = [o EXCEPT !.hydrated = b] /\ Alike(entry, o)
      BY <2>1, <2>4, <3>2
    <3>4. /\ entry' \in Entries /\ entry'.hydrated = b /\ entry'.mtime = o.mtime
          /\ entry'.seq = o.seq /\ entry'.hash = o.hash /\ entry'.skipped = o.skipped
          /\ entry'.base = o.base /\ entry'.decision = o.decision /\ entry'.expected = o.expected
      BY <3>3 DEF Entries
    <3> QED
      BY <1>1, <3>2, <3>3, <3>4 DEF Alike
  <2> QED
    BY <1>1, <2>3, <2>4 DEF HydrationWritten
<1>2. CASE HydrationWriteFails
  <2> DEFINE rolled == IF StillHydrates THEN [entry EXCEPT !.base = hyd.base] ELSE entry
  <2>1. /\ rolled \in Entries /\ rolled.seq = entry.seq /\ rolled.hash = entry.hash
        /\ rolled.skipped = entry.skipped /\ rolled.hydrated = entry.hydrated
        /\ rolled.base \in {entry.base, hyd.base} /\ rolled.mtime = entry.mtime
        /\ rolled.decision = entry.decision /\ rolled.expected = entry.expected
    BY DEF Entries
  <2>2. entry' = rolled \/ entry' = Outdated(rolled, Torn)
    BY <1>2 DEF HydrationWriteFails
  <2> HIDE DEF rolled
  <2>3. Alike(rolled, Outdated(rolled, Torn))
    BY <2>1, Outdating
  <2> QED
    BY <2>1, <2>2, <2>3 DEF Alike
<1> QED
  BY <1>1, <1>2

-----------------------------------------------------------------------------
(* Which actions change what.                                                *)

LEMMA ServerChanges ==
  ASSUME Next
  PROVE  \/ UNCHANGED server
         \/ PeerWrites \/ DeletePosts \/ RepublishPosts
         \/ \E u \in Slots : UploadPosts(u)
  BY DEF Next, UploadNext, DeleteNext, HydrationNext, LaneNext, UserWrites, UserDeletes,
      UploadStarts, UploadPassesGate, UploadReads, UploadSends, UploadAcked, RetryGateBlocked,
      DeleteFindsFile, DeletePassesGate, DeleteAnswered, HydrationStarts, HydrationFetched,
      HydrationCompares, HydrationLocks, HydrationWritten, HydrationWriteFails,
      HydrationCompensates, SelfDeleteExpires, LaneLists, LiveUnindexed, LiveIndexed,
      LiveFindsFile, TombstoneTaken, TombstoneFindsFile, TombstoneDecides, LaneFlushes,
      Reconcile, ReconcileStats, ReconcileTrashes, RepublishReads, RepublishSends,
      RepublishAcked, SweepFindsFile, SweepMissesFile, Persist, Crash

LEMMA DiskChanges ==
  ASSUME Next
  PROVE  \/ UNCHANGED disk
         \/ UserWrites \/ UserDeletes \/ HydrationCompares \/ HydrationWritten
         \/ HydrationWriteFails \/ HydrationCompensates \/ ReconcileTrashes \/ Crash
  BY DEF Next, UploadNext, DeleteNext, HydrationNext, LaneNext, PeerWrites, UploadStarts,
      UploadPassesGate, UploadReads, UploadSends, UploadPosts, UploadAcked, RetryGateBlocked,
      DeleteFindsFile, DeletePassesGate, DeletePosts, DeleteAnswered, HydrationStarts,
      HydrationFetched, HydrationLocks, SelfDeleteExpires, LaneLists, LiveUnindexed,
      LiveIndexed, LiveFindsFile, TombstoneTaken, TombstoneFindsFile, TombstoneDecides,
      LaneFlushes, Reconcile, ReconcileStats, RepublishReads, RepublishSends, RepublishPosts,
      RepublishAcked, SweepFindsFile, SweepMissesFile, Persist

LEMMA EntryChanges ==
  ASSUME Next
  PROVE  \/ UNCHANGED entry
         \/ UserDeletes \/ DeleteAnswered \/ HydrationLocks \/ HydrationWritten
         \/ HydrationWriteFails \/ LiveUnindexed \/ LiveIndexed \/ LiveFindsFile
         \/ TombstoneFindsFile \/ TombstoneDecides \/ Reconcile \/ ReconcileStats
         \/ ReconcileTrashes \/ RepublishPosts \/ RepublishAcked \/ SweepMissesFile
         \/ Crash
         \/ \E u \in Slots : UploadSends(u) \/ UploadAcked(u)
  BY DEF Next, UploadNext, DeleteNext, HydrationNext, LaneNext, UserWrites, PeerWrites,
      UploadStarts, UploadPassesGate, UploadReads, UploadPosts, RetryGateBlocked,
      DeleteFindsFile, DeletePassesGate, DeletePosts, HydrationStarts, HydrationFetched,
      HydrationCompares, HydrationCompensates, SelfDeleteExpires, LaneLists, TombstoneTaken,
      LaneFlushes, RepublishReads, RepublishSends, SweepFindsFile, Persist

LEMMA StoredChanges ==
  ASSUME Next
  PROVE  \/ UNCHANGED <<cursor, stored>>
         \/ LaneFlushes \/ Reconcile \/ ReconcileStats \/ Persist
         \/ HydrationWritten \/ HydrationWriteFails \/ Crash
  BY DEF Next, UploadNext, DeleteNext, HydrationNext, LaneNext, UserWrites, UserDeletes,
      PeerWrites, UploadStarts, UploadPassesGate, UploadReads, UploadSends, UploadPosts,
      UploadAcked, RetryGateBlocked, DeleteFindsFile, DeletePassesGate, DeletePosts,
      DeleteAnswered, HydrationStarts, HydrationFetched, HydrationCompares, HydrationLocks,
      HydrationCompensates, SelfDeleteExpires, LaneLists,
      LiveUnindexed, LiveIndexed, LiveFindsFile, TombstoneTaken, TombstoneFindsFile,
      TombstoneDecides, ReconcileTrashes, RepublishReads, RepublishSends, RepublishPosts,
      RepublishAcked, SweepFindsFile, SweepMissesFile

LEMMA QueueChanges ==
  ASSUME Next
  PROVE  \/ UNCHANGED <<queued, waiting>>
         \/ UserWrites \/ UserDeletes \/ RetryGateBlocked \/ HydrationWritten
         \/ HydrationWriteFails \/ ReconcileTrashes \/ SweepFindsFile \/ SweepMissesFile
         \/ Crash
         \/ \E u \in Slots : UploadStarts(u) \/ UploadPassesGate(u) \/ UploadReads(u)
              \/ UploadSends(u) \/ UploadPosts(u) \/ UploadAcked(u)
  BY DEF Next, UploadNext, DeleteNext, HydrationNext, LaneNext, PeerWrites, DeleteFindsFile,
      DeletePassesGate, DeletePosts, DeleteAnswered, HydrationStarts, HydrationFetched,
      HydrationCompares, HydrationLocks, HydrationCompensates, SelfDeleteExpires, LaneLists,
      LiveUnindexed, LiveIndexed, LiveFindsFile, TombstoneTaken, TombstoneFindsFile,
      TombstoneDecides, LaneFlushes, Reconcile, ReconcileStats, RepublishReads, RepublishSends,
      RepublishPosts, RepublishAcked, Persist

LEMMA FlagsChange ==
  ASSUME Next
  PROVE  \/ UNCHANGED <<gateBlocked, superseded, selfDelete>>
         \/ UserDeletes \/ RetryGateBlocked \/ HydrationWritten \/ HydrationCompensates
         \/ SelfDeleteExpires \/ ReconcileTrashes \/ SweepMissesFile \/ Crash
         \/ \E u \in Slots : UploadStarts(u) \/ UploadPassesGate(u) \/ UploadReads(u)
  BY DEF Next, UploadNext, DeleteNext, HydrationNext, LaneNext, UserWrites, PeerWrites,
      UploadSends, UploadPosts, UploadAcked, DeleteFindsFile, DeletePassesGate, DeletePosts,
      DeleteAnswered, HydrationStarts, HydrationFetched, HydrationCompares, HydrationLocks,
      HydrationWriteFails, LaneLists, LiveUnindexed, LiveIndexed, LiveFindsFile, TombstoneTaken,
      TombstoneFindsFile, TombstoneDecides, LaneFlushes, Reconcile, ReconcileStats,
      RepublishReads, RepublishSends, RepublishPosts, RepublishAcked, SweepFindsFile, Persist

LEMMA UploadsChange ==
  ASSUME Next
  PROVE  \/ UNCHANGED ups
         \/ Crash
         \/ \E u \in Slots : UploadStarts(u) \/ UploadPassesGate(u) \/ UploadReads(u)
              \/ UploadSends(u) \/ UploadPosts(u) \/ UploadAcked(u)
  BY DEF Next, UploadNext, DeleteNext, HydrationNext, LaneNext, UserWrites, UserDeletes,
      PeerWrites, RetryGateBlocked, DeleteFindsFile, DeletePassesGate, DeletePosts,
      DeleteAnswered, HydrationStarts, HydrationFetched, HydrationCompares, HydrationLocks,
      HydrationWritten, HydrationWriteFails, HydrationCompensates, SelfDeleteExpires, LaneLists,
      LiveUnindexed, LiveIndexed, LiveFindsFile, TombstoneTaken, TombstoneFindsFile,
      TombstoneDecides, LaneFlushes, Reconcile, ReconcileStats, ReconcileTrashes,
      RepublishReads, RepublishSends, RepublishPosts, RepublishAcked, SweepFindsFile,
      SweepMissesFile, Persist

LEMMA DeleteChanges ==
  ASSUME Next
  PROVE  \/ UNCHANGED del
         \/ UserDeletes \/ DeleteFindsFile \/ DeletePassesGate \/ DeletePosts
         \/ DeleteAnswered \/ ReconcileTrashes \/ SweepMissesFile \/ Crash
  BY DEF Next, UploadNext, DeleteNext, HydrationNext, LaneNext, UserWrites, PeerWrites,
      UploadStarts, UploadPassesGate, UploadReads, UploadSends, UploadPosts, UploadAcked,
      RetryGateBlocked, HydrationStarts, HydrationFetched, HydrationCompares, HydrationLocks,
      HydrationWritten, HydrationWriteFails, HydrationCompensates, SelfDeleteExpires, LaneLists,
      LiveUnindexed, LiveIndexed, LiveFindsFile, TombstoneTaken, TombstoneFindsFile,
      TombstoneDecides, LaneFlushes, Reconcile, ReconcileStats, RepublishReads, RepublishSends,
      RepublishPosts, RepublishAcked, SweepFindsFile, Persist

LEMMA HydrationChanges ==
  ASSUME Next
  PROVE  \/ UNCHANGED hyd
         \/ UserDeletes \/ HydrationStarts \/ HydrationFetched \/ HydrationCompares
         \/ HydrationLocks \/ HydrationWritten \/ HydrationWriteFails
         \/ HydrationCompensates \/ ReconcileTrashes \/ SweepMissesFile \/ Crash
  BY DEF Next, UploadNext, DeleteNext, HydrationNext, LaneNext, UserWrites, PeerWrites,
      UploadStarts, UploadPassesGate, UploadReads, UploadSends, UploadPosts, UploadAcked,
      RetryGateBlocked, DeleteFindsFile, DeletePassesGate, DeletePosts, DeleteAnswered,
      SelfDeleteExpires, LaneLists, LiveUnindexed, LiveIndexed, LiveFindsFile, TombstoneTaken,
      TombstoneFindsFile, TombstoneDecides, LaneFlushes, Reconcile, ReconcileStats,
      RepublishReads, RepublishSends, RepublishPosts, RepublishAcked, SweepFindsFile, Persist

LEMMA LaneChanges ==
  ASSUME Next
  PROVE  \/ UNCHANGED lane
         \/ LaneLists \/ LiveUnindexed \/ LiveIndexed \/ LiveFindsFile \/ TombstoneTaken
         \/ TombstoneFindsFile \/ TombstoneDecides \/ LaneFlushes \/ Reconcile
         \/ ReconcileStats \/ ReconcileTrashes \/ RepublishReads \/ RepublishSends
         \/ RepublishPosts \/ RepublishAcked \/ Crash
  BY DEF Next, UploadNext, DeleteNext, HydrationNext, LaneNext, UserWrites, UserDeletes,
      PeerWrites, UploadStarts, UploadPassesGate, UploadReads, UploadSends, UploadPosts,
      UploadAcked, RetryGateBlocked, DeleteFindsFile, DeletePassesGate, DeletePosts,
      DeleteAnswered, HydrationStarts, HydrationFetched, HydrationCompares, HydrationLocks,
      HydrationWritten, HydrationWriteFails, HydrationCompensates, SelfDeleteExpires,
      SweepFindsFile, SweepMissesFile, Persist

LEMMA HistoryChanges ==
  ASSUME Next
  PROVE  \/ UNCHANGED <<mine, gone, lapses>>
         \/ UserWrites \/ UserDeletes \/ DeletePassesGate \/ DeletePosts
         \/ HydrationWritten \/ HydrationCompensates \/ LiveUnindexed \/ LiveFindsFile
         \/ TombstoneTaken \/ ReconcileTrashes
         \/ \E u \in Slots : UploadAcked(u)
  BY DEF Next, UploadNext, DeleteNext, HydrationNext, LaneNext, PeerWrites, UploadStarts,
      UploadPassesGate, UploadReads, UploadSends, UploadPosts, RetryGateBlocked,
      DeleteFindsFile, DeleteAnswered, HydrationStarts, HydrationFetched, HydrationCompares,
      HydrationLocks, HydrationWriteFails, SelfDeleteExpires, LaneLists, LiveIndexed,
      TombstoneFindsFile, TombstoneDecides, LaneFlushes, Reconcile, ReconcileStats,
      RepublishReads, RepublishSends, RepublishPosts, RepublishAcked, SweepFindsFile,
      SweepMissesFile, Persist, Crash

LEMMA CountersChange ==
  ASSUME Next
  PROVE  \/ UNCHANGED counters
         \/ UserWrites \/ UserDeletes \/ PeerWrites \/ DeletePassesGate \/ DeletePosts
         \/ HydrationFetched \/ HydrationWriteFails \/ HydrationCompensates \/ LaneFlushes
         \/ Reconcile \/ ReconcileStats \/ ReconcileTrashes \/ RepublishSends
         \/ RepublishPosts \/ Crash
         \/ \E u \in Slots : UploadPassesGate(u) \/ UploadSends(u) \/ UploadPosts(u)
  BY DEF Next, UploadNext, DeleteNext, HydrationNext, LaneNext, UploadStarts, UploadReads,
      UploadAcked, RetryGateBlocked, DeleteFindsFile, DeleteAnswered, HydrationStarts,
      HydrationCompares, HydrationLocks, HydrationWritten, SelfDeleteExpires, LaneLists,
      LiveUnindexed, LiveIndexed, LiveFindsFile, TombstoneTaken, TombstoneFindsFile,
      TombstoneDecides, RepublishReads, RepublishAcked, SweepFindsFile, SweepMissesFile, Persist

-----------------------------------------------------------------------------
(* The types after the operators that several actions share.                 *)

(* What the server keeps after a write, from the client or from a peer.      *)
LEMMA AcceptsTypes ==
  ASSUME TypeOK, NEW content \in Contents, Accepts(content)
  PROVE  ServerTypes'
<1> USE Blanks, Fields
<1>1. row.seq + 1 \in Seqs
  BY DEF Accepts
<1>2. row' = [seq |-> row.seq + 1, live |-> TRUE, hash |-> content]
  BY DEF Accepts
<1>3. row' \in [seq: Seqs, live: BOOLEAN, hash: Contents]
  BY <1>1, <1>2
<1>4. published' \subseteq Contents
  BY DEF Accepts
<1> QED
  BY <1>3, <1>4 DEF ServerTypes

LEMMA AcceptsDeleteTypes ==
  ASSUME TypeOK, AcceptsDelete
  PROVE  ServerTypes'
<1> USE Blanks, Fields
<1>1. row.seq + 1 \in Seqs
  BY DEF AcceptsDelete
<1>2. row' = [row EXCEPT !.seq = row.seq + 1, !.live = FALSE]
  BY DEF AcceptsDelete
<1>3. row' \in [seq: Seqs, live: BOOLEAN, hash: Contents]
  BY <1>1, <1>2
<1>4. published' \subseteq Contents
  BY DEF AcceptsDelete
<1> QED
  BY <1>3, <1>4 DEF ServerTypes

(* What the two handlers of vault events leave.                              *)
LEMMA OnFileChangedTypes ==
  ASSUME TypeOK, OnFileChanged
  PROVE  QueueTypes'
<1>1. queued \in BOOLEAN /\ waiting \in 0..2
  BY Fields
<1>2. \/ queued' = queued /\ waiting' = waiting
      \/ queued' = TRUE /\ waiting' = (IF waiting < 2 THEN waiting + 1 ELSE 2)
  BY DEF OnFileChanged
<1>3. waiting' \in 0..2
  BY <1>1, <1>2
<1>4. queued' \in BOOLEAN
  BY <1>1, <1>2
<1> QED
  BY <1>3, <1>4 DEF QueueTypes

LEMMA OnFileDeletedTypes ==
  ASSUME TypeOK, OnFileDeleted
  PROVE  /\ QueueTypes' /\ FlagTypes' /\ EntryTypes' /\ DeleteTypes' /\ HydrationTypes'
<1> USE Blanks, Fields
<1>1. CASE selfDelete
  <2>1. /\ selfDelete' = FALSE /\ queued' = queued /\ waiting' = waiting
        /\ gateBlocked' = gateBlocked /\ superseded' = superseded /\ hyd' = hyd
        /\ entry' = entry /\ del' = del
    BY <1>1 DEF OnFileDeleted
  <2> QED
    BY <2>1 DEF QueueTypes, FlagTypes, EntryTypes, DeleteTypes, HydrationTypes
<1>2. CASE ~selfDelete
  <2>1. /\ selfDelete' = selfDelete /\ queued' = FALSE /\ waiting' = 0 /\ gateBlocked' = FALSE
        /\ superseded' = TRUE /\ hyd' = [hyd EXCEPT !.cancelled = hyd.at # "idle"]
        /\ entry' \in {entry, NoEntry}
    BY <1>2 DEF OnFileDeleted, DropQueued
  <2>2. \/ del' = del
        \/ del' = [at |-> IF entry.decision = "republish" THEN "stat" ELSE "gate",
                   seq |-> entry.seq, decision |-> entry.decision]
    BY <1>2 DEF OnFileDeleted
  <2>3. del' \in Deletes
    BY <2>2 DEF Deletes
  <2>4. hyd' \in Hydrations
    BY <2>1 DEF Hydrations
  <2>5. entry' \in Entries
    BY <2>1
  <2>6. gateBlocked' \in BOOLEAN /\ superseded' \in BOOLEAN /\ selfDelete' \in BOOLEAN
    BY <2>1
  <2>7. queued' \in BOOLEAN
    BY <2>1
  <2>8. waiting' \in 0..2
    <3>1. waiting' = 0
      BY <2>1
    <3> QED
      BY <3>1
  <2> QED
    BY <2>3, <2>4, <2>5, <2>6, <2>7, <2>8
    DEF QueueTypes, FlagTypes, EntryTypes, DeleteTypes, HydrationTypes
<1> QED
  BY <1>1, <1>2

LanePlaces == {"idle", "apply", "live", "stat", "read", "flush", "reconcile", "stable", "trash",
               "republish", "send", "post", "answer"}

(* Where the lane goes on.                                                   *)
LEMMA LaneMoves ==
  ASSUME TypeOK
  PROVE  /\ \A at \in LanePlaces : [lane EXCEPT !.at = at] \in Lanes
         /\ [lane EXCEPT !.at = "republish", !.seq = entry.seq] \in Lanes
         /\ [lane EXCEPT !.at = "stable", !.seq = entry.seq] \in Lanes
         /\ [lane EXCEPT !.at = "flush", !.deferred = TRUE] \in Lanes
         /\ \A s \in Seqs : [lane EXCEPT !.at = "answer", !.acked = s] \in Lanes
<1> USE Fields
<1>1. \A at \in LanePlaces : [lane EXCEPT !.at = at] \in Lanes
  BY DEF Lanes, LanePlaces
<1>2. [lane EXCEPT !.at = "republish", !.seq = entry.seq] \in Lanes
  BY DEF Lanes
<1>3. [lane EXCEPT !.at = "stable", !.seq = entry.seq] \in Lanes
  BY DEF Lanes
<1>4. [lane EXCEPT !.at = "flush", !.deferred = TRUE] \in Lanes
  BY DEF Lanes
<1>5. \A s \in Seqs : [lane EXCEPT !.at = "answer", !.acked = s] \in Lanes
  BY DEF Lanes
<1> QED
  BY <1>1, <1>2, <1>3, <1>4, <1>5

(* A delete decision that becomes one to publish the file.                   *)
LEMMA RepublishInsteadTypes ==
  ASSUME TypeOK, RepublishInstead
  PROVE  EntryTypes' /\ stored' \in [entry: Entries, cursor: Seqs] /\ LaneTypes'
<1> USE Blanks, Fields
<1>1. entry' = [entry EXCEPT !.decision = "republish", !.expected = None]
  BY DEF RepublishInstead
<1>2. entry' \in Entries
  BY <1>1 DEF Entries, Decisions
<1>3. stored' \in {stored, [entry |-> entry', cursor |-> cursor]}
  BY DEF RepublishInstead
<1>4. lane' = NoLane \/ lane' = [lane EXCEPT !.at = "republish", !.seq = entry.seq]
  BY DEF RepublishInstead
<1>5. lane' \in Lanes
  BY <1>4, LaneMoves
<1> QED
  BY <1>2, <1>3, <1>5 DEF EntryTypes, LaneTypes

(* The entries that the lane makes of the one there is.                      *)
LEMMA Rewritten ==
  ASSUME TypeOK
  PROVE  /\ Undecided(entry) \in Entries /\ Skipped \in Entries
         /\ \A h \in BOOLEAN : [entry EXCEPT !.hydrated = h] \in Entries
         /\ \A e \in Entries : Recorded(e) \in Entries
         /\ \A c \in Contents, kind \in Decisions :
              [entry EXCEPT !.seq = lane.seq, !.decision = kind, !.expected = c] \in Entries
<1> USE Blanks, Fields
<1>1. Undecided(entry) \in Entries
  BY DEF Undecided, Entries, Decisions
<1>2. Skipped \in Entries
  BY DEF Skipped, Entries, NoEntry
<1>3. \A h \in BOOLEAN : [entry EXCEPT !.hydrated = h] \in Entries
  BY DEF Entries
<1>4. \A e \in Entries : Recorded(e) \in Entries
  BY DEF Recorded, Entries
<1>5. \A c \in Contents, kind \in Decisions :
        [entry EXCEPT !.seq = lane.seq, !.decision = kind, !.expected = c] \in Entries
  BY DEF Entries
<1> QED
  BY <1>1, <1>2, <1>3, <1>4, <1>5

-----------------------------------------------------------------------------
(* Every step keeps the types: one lemma per part, one case per action.      *)

LEMMA ServerTypesStep ==
  ASSUME TypeOK, Next
  PROVE  ServerTypes'
<1> USE Blanks, Fields
<1>1. CASE PeerWrites
  <2>1. \/ fresh <= MaxContents /\ Accepts(fresh)
        \/ Accepts(row.hash)
        \/ AcceptsDelete
    BY <1>1 DEF PeerWrites
  <2> QED
    BY <2>1, AcceptsTypes, AcceptsDeleteTypes
<1>2. ASSUME NEW u \in Slots, UploadPosts(u) PROVE ServerTypes'
  <2>1. Accepts(ups[u].content) \/ UNCHANGED server
    BY <1>2 DEF UploadPosts
  <2> QED
    BY <2>1, AcceptsTypes, Parts DEF ServerTypes
<1>3. CASE DeletePosts
  <2>1. AcceptsDelete \/ UNCHANGED server
    BY <1>3 DEF DeletePosts
  <2> QED
    BY <2>1, AcceptsDeleteTypes, Parts DEF ServerTypes
<1>4. CASE RepublishPosts
  <2>1. Accepts(lane.hash) \/ UNCHANGED server
    BY <1>4 DEF RepublishPosts
  <2> QED
    BY <2>1, AcceptsTypes, Parts DEF ServerTypes
<1>5. CASE UNCHANGED server
  BY <1>5, Parts DEF ServerTypes
<1> QED
  BY <1>1, <1>2, <1>3, <1>4, <1>5, ServerChanges

LEMMA FileTypesStep ==
  ASSUME TypeOK, Next
  PROVE  FileTypes'
<1> USE Blanks, Fields
<1>1. CASE UserWrites
  BY <1>1 DEF UserWrites, FileTypes, OnFileChanged, Fault, NoFault, Contents, Hydrations
<1>2. CASE UserDeletes
  BY <1>2 DEF UserDeletes, FileTypes, OnFileDeleted, DropQueued, Fault, NoFault, Contents,
      Hydrations
<1>3. CASE HydrationCompares
  BY <1>3 DEF HydrationCompares, FileTypes, Contents, Hydrations
<1>4. CASE HydrationWritten
  BY <1>4 DEF HydrationWritten, FileTypes, OnFileChanged, Contents, Hydrations
<1>5. CASE HydrationWriteFails
  BY <1>5 DEF HydrationWriteFails, FileTypes, OnFileChanged, Fault, Bounded, Contents,
      Hydrations
<1>6. CASE HydrationCompensates
  BY <1>6 DEF HydrationCompensates, FileTypes, Fault, NoFault, Contents, Hydrations
<1>7. CASE ReconcileTrashes
  BY <1>7 DEF ReconcileTrashes, FileTypes, OnFileDeleted, DropQueued, Fault, NoFault, Contents,
      Hydrations
<1>8. CASE Crash
  BY <1>8 DEF Crash, FileTypes, Fault, Bounded, Contents, Hydrations
<1>9. CASE UNCHANGED disk
  BY <1>9, Parts DEF FileTypes
<1> QED
  BY <1>1, <1>2, <1>3, <1>4, <1>5, <1>6, <1>7, <1>8, <1>9, DiskChanges

(* The entry that a live row of a path without one makes.                    *)
LEMMA Adopted ==
  ASSUME TypeOK, NEW same \in BOOLEAN
  PROVE  LET new == [NoEntry EXCEPT !.seq = lane.seq, !.hash = lane.hash, !.hydrated = same,
                                    !.base = IF same THEN lane.hash ELSE None]
         IN  /\ new \in Entries /\ new.seq = lane.seq /\ new.hash = lane.hash
             /\ new.decision = "none" /\ new.mtime = None
<1> DEFINE b == IF same THEN lane.hash ELSE None
           new == [NoEntry EXCEPT !.seq = lane.seq, !.hash = lane.hash, !.hydrated = same, !.base = b]
<1>1. b \in Contents
  BY Fields, Blanks
<1> HIDE DEF b
<1>2. new \in Entries
  BY <1>1, Fields, Blanks DEF NoEntry, Entries, Decisions
<1>3. new.seq = lane.seq /\ new.hash = lane.hash /\ new.decision = "none" /\ new.mtime = None
  BY DEF NoEntry
<1> QED
  BY <1>2, <1>3 DEF b

LEMMA EntryTypesStep ==
  ASSUME TypeOK, Next
  PROVE  EntryTypes'
<1> USE Blanks, Fields
<1>1. CASE UserDeletes
  <2>1. OnFileDeleted \/ UNCHANGED <<queue, selfDelete, hyd, entry, del>>
    BY <1>1 DEF UserDeletes
  <2> QED
    BY <2>1, OnFileDeletedTypes, Parts DEF EntryTypes
<1>2. ASSUME NEW u \in Slots, UploadSends(u) PROVE EntryTypes'
  <2>1. entry' \in {entry, Skipped}
    BY <1>2 DEF UploadSends
  <2> QED
    BY <2>1, Rewritten DEF EntryTypes
<1>3. ASSUME NEW u \in Slots, UploadAcked(u) PROVE EntryTypes'
  BY <1>3 DEF UploadAcked, EntryTypes, UploadEnds, Entries, Decisions
<1>4. CASE DeleteAnswered
  BY <1>4 DEF DeleteAnswered, EntryTypes, Entries, Decisions
<1>5. CASE HydrationLocks
  BY <1>5 DEF HydrationLocks, EntryTypes, Entries, Decisions
<1>6. CASE HydrationWritten
  BY <1>6, EntryOverwritten DEF EntryTypes
<1>7. CASE HydrationWriteFails
  BY <1>7, EntryOverwritten DEF EntryTypes
<1>8. CASE LiveUnindexed
  <2> DEFINE same == file = lane.hash
             new == [NoEntry EXCEPT !.seq = lane.seq, !.hash = lane.hash, !.hydrated = same,
                                    !.base = IF same THEN lane.hash ELSE None]
  <2>1. entry' = new \/ entry' = entry
    BY <1>8 DEF LiveUnindexed
  <2>2. new \in Entries
    BY Adopted
  <2> HIDE DEF new
  <2> QED
    BY <2>1, <2>2 DEF EntryTypes
<1>9. CASE LiveIndexed
  <2>1. entry' \in {entry, Undecided(entry), Recorded(entry)}
    BY <1>9 DEF LiveIndexed
  <2>2. entry \in Entries
    OBVIOUS
  <2>3. Undecided(entry) \in Entries /\ Recorded(entry) \in Entries
    BY <2>2, Rewritten
  <2>4. entry' \in Entries
    BY <2>1, <2>2, <2>3, Zenon
  <2> QED
    BY <2>4 DEF EntryTypes
<1>10. CASE LiveFindsFile
  BY <1>10 DEF LiveFindsFile, EntryTypes, LaneGoes, Recorded, Entries, Decisions
<1>11. CASE TombstoneFindsFile
  <2>1. \/ entry' \in {entry, NoEntry}
        \/ entry' = [entry EXCEPT !.seq = lane.seq, !.decision = "republish", !.expected = None]
    BY <1>11 DEF TombstoneFindsFile, Decides
  <2>2. "republish" \in Decisions
    BY DEF Decisions
  <2>3. [entry EXCEPT !.seq = lane.seq, !.decision = "republish", !.expected = None] \in Entries
    BY <2>2, Rewritten
  <2> QED
    BY <2>1, <2>3 DEF EntryTypes
<1>12. CASE TombstoneDecides
  <2>1. \/ entry' = entry
        \/ entry' = [entry EXCEPT !.seq = lane.seq, !.decision = "delete", !.expected = file]
        \/ entry' = [entry EXCEPT !.seq = lane.seq, !.decision = "republish", !.expected = None]
    BY <1>12 DEF TombstoneDecides, Decides
  <2>2. "republish" \in Decisions /\ "delete" \in Decisions
    BY DEF Decisions
  <2>3. [entry EXCEPT !.seq = lane.seq, !.decision = "republish", !.expected = None] \in Entries
    BY <2>2, Rewritten
  <2>4. [entry EXCEPT !.seq = lane.seq, !.decision = "delete", !.expected = file] \in Entries
    BY <2>2, Rewritten
  <2> QED
    BY <2>1, <2>3, <2>4 DEF EntryTypes
<1>13. CASE Reconcile
  <2>1. RepublishInstead \/ entry' \in {entry, NoEntry}
    BY <1>13 DEF Reconcile
  <2> QED
    BY <2>1, RepublishInsteadTypes DEF EntryTypes
<1>14. CASE ReconcileStats
  <2>1. RepublishInstead \/ entry' \in {entry, NoEntry}
    BY <1>14 DEF ReconcileStats
  <2> QED
    BY <2>1, RepublishInsteadTypes DEF EntryTypes
<1>15. CASE ReconcileTrashes
  <2>1. \/ OnFileDeleted
        \/ UNCHANGED <<queue, selfDelete, hyd, del>> /\ entry' \in {entry, NoEntry}
    BY <1>15 DEF ReconcileTrashes
  <2> QED
    BY <2>1, OnFileDeletedTypes, Parts DEF EntryTypes
<1>16. CASE RepublishPosts
  <2>1. entry' \in {entry, Undecided(entry)}
    BY <1>16 DEF RepublishPosts
  <2> QED
    BY <2>1, Rewritten DEF EntryTypes
<1>17. CASE RepublishAcked
  BY <1>17 DEF RepublishAcked, EntryTypes, Entries, Decisions
<1>18. CASE SweepMissesFile
  <2>1. OnFileDeleted
    BY <1>18 DEF SweepMissesFile
  <2> QED
    BY <2>1, OnFileDeletedTypes
<1>19. CASE Crash
  BY <1>19, Overwrites DEF Crash, EntryTypes, Alike
<1>20. CASE UNCHANGED entry
  BY <1>20, Parts DEF EntryTypes
<1> QED
  BY <1>1, <1>2, <1>3, <1>4, <1>5, <1>6, <1>7, <1>8, <1>9, <1>10, <1>11, <1>12, <1>13, <1>14,
      <1>15, <1>16, <1>17, <1>18, <1>19, <1>20, EntryChanges

LEMMA StoredTypesStep ==
  ASSUME TypeOK, Next
  PROVE  StoredTypes'
<1> USE Blanks, Fields
<1>1. CASE LaneFlushes
  BY <1>1 DEF LaneFlushes, StoredTypes, LaneGoes, Fault, NoFault
<1>2. CASE Reconcile
  <2>1. (RepublishInstead \/ UNCHANGED stored) /\ cursor' = cursor
    BY <1>2 DEF Reconcile
  <2> QED
    BY <2>1, RepublishInsteadTypes DEF StoredTypes
<1>3. CASE ReconcileStats
  <2>1. (RepublishInstead \/ UNCHANGED stored) /\ cursor' = cursor
    BY <1>3 DEF ReconcileStats
  <2> QED
    BY <2>1, RepublishInsteadTypes DEF StoredTypes
<1>4. CASE Persist
  BY <1>4 DEF Persist, StoredTypes
<1>5. CASE HydrationWritten \/ HydrationWriteFails \/ Crash
  <2>1. cursor' \in {cursor, stored.cursor}
    BY <1>5 DEF HydrationWritten, HydrationWriteFails, Crash
  <2> QED
    BY <1>5, <2>1, Overwrites DEF StoredTypes
<1>6. CASE UNCHANGED <<cursor, stored>>
  BY <1>6, Parts DEF StoredTypes
<1> QED
  BY <1>1, <1>2, <1>3, <1>4, <1>5, <1>6, StoredChanges

LEMMA QueueTypesStep ==
  ASSUME TypeOK, Next
  PROVE  QueueTypes'
<1> USE Blanks, Fields
<1>1. CASE UserWrites
  <2>1. OnFileChanged \/ UNCHANGED <<queued, waiting>>
    BY <1>1 DEF UserWrites
  <2> QED
    BY <2>1, OnFileChangedTypes DEF QueueTypes
<1>2. CASE UserDeletes
  <2>1. OnFileDeleted \/ UNCHANGED <<queue, selfDelete, hyd, entry, del>>
    BY <1>2 DEF UserDeletes
  <2> QED
    BY <2>1, OnFileDeletedTypes, Parts DEF QueueTypes
<1>3. ASSUME NEW u \in Slots, UploadStarts(u) PROVE QueueTypes'
  <2>1. waiting > 0 /\ waiting' = waiting - 1 /\ queued' \in {queued, FALSE}
    BY <1>3 DEF UploadStarts
  <2>2. waiting' \in 0..2
    BY <2>1
  <2> QED
    BY <2>1, <2>2 DEF QueueTypes
<1>4. ASSUME NEW u \in Slots, UploadPassesGate(u) PROVE QueueTypes'
  BY <1>4 DEF UploadPassesGate, QueueTypes, UploadEnds, Fault, NoFault
<1>5. ASSUME NEW u \in Slots, UploadReads(u) PROVE QueueTypes'
  BY <1>5 DEF UploadReads, QueueTypes, UploadEnds
<1>6. ASSUME NEW u \in Slots, UploadSends(u) PROVE QueueTypes'
  BY <1>6 DEF UploadSends, QueueTypes, UploadEnds, Fault, NoFault, Skipped
<1>7. ASSUME NEW u \in Slots, UploadPosts(u) PROVE QueueTypes'
  BY <1>7 DEF UploadPosts, QueueTypes, UploadEnds, Accepts, Bounded, Fault, NoFault
<1>8. ASSUME NEW u \in Slots, UploadAcked(u) PROVE QueueTypes'
  BY <1>8 DEF UploadAcked, QueueTypes, UploadEnds
<1>9. CASE RetryGateBlocked
  <2>1. OnFileChanged \/ UNCHANGED <<queued, waiting>>
    BY <1>9 DEF RetryGateBlocked
  <2> QED
    BY <2>1, OnFileChangedTypes DEF QueueTypes
<1>10. CASE HydrationWritten
  <2>1. OnFileChanged \/ UNCHANGED <<queued, waiting>>
    BY <1>10 DEF HydrationWritten
  <2> QED
    BY <2>1, OnFileChangedTypes DEF QueueTypes
<1>11. CASE HydrationWriteFails
  <2>1. OnFileChanged \/ UNCHANGED <<queued, waiting>>
    BY <1>11 DEF HydrationWriteFails
  <2> QED
    BY <2>1, OnFileChangedTypes DEF QueueTypes
<1>12. CASE ReconcileTrashes
  <2>1. \/ OnFileDeleted
        \/ UNCHANGED <<queue, selfDelete, hyd, del>> /\ entry' \in {entry, NoEntry}
    BY <1>12 DEF ReconcileTrashes
  <2> QED
    BY <2>1, OnFileDeletedTypes, Parts DEF QueueTypes
<1>13. CASE SweepFindsFile
  <2>1. OnFileChanged \/ UNCHANGED <<queued, waiting>>
    BY <1>13 DEF SweepFindsFile
  <2> QED
    BY <2>1, OnFileChangedTypes DEF QueueTypes
<1>14. CASE SweepMissesFile
  <2>1. OnFileDeleted
    BY <1>14 DEF SweepMissesFile
  <2> QED
    BY <2>1, OnFileDeletedTypes
<1>15. CASE Crash
  BY <1>15 DEF Crash, QueueTypes, Fault, Bounded
<1>16. CASE UNCHANGED <<queued, waiting>>
  BY <1>16, Parts DEF QueueTypes
<1> QED
  BY <1>1, <1>2, <1>3, <1>4, <1>5, <1>6, <1>7, <1>8, <1>9, <1>10, <1>11, <1>12, <1>13, <1>14,
      <1>15, <1>16, QueueChanges

LEMMA FlagTypesStep ==
  ASSUME TypeOK, Next
  PROVE  FlagTypes'
<1> USE Blanks, Fields
<1>1. CASE UserDeletes
  <2>1. OnFileDeleted \/ UNCHANGED <<queue, selfDelete, hyd, entry, del>>
    BY <1>1 DEF UserDeletes
  <2> QED
    BY <2>1, OnFileDeletedTypes, Parts DEF FlagTypes
<1>2. ASSUME NEW u \in Slots, UploadStarts(u) PROVE FlagTypes'
  BY <1>2 DEF UploadStarts, FlagTypes
<1>3. ASSUME NEW u \in Slots, UploadPassesGate(u) PROVE FlagTypes'
  BY <1>3 DEF UploadPassesGate, FlagTypes, UploadEnds, Fault, NoFault
<1>4. ASSUME NEW u \in Slots, UploadReads(u) PROVE FlagTypes'
  BY <1>4 DEF UploadReads, FlagTypes, UploadEnds
<1>5. CASE RetryGateBlocked
  BY <1>5 DEF RetryGateBlocked, FlagTypes, OnFileChanged
<1>6. CASE HydrationWritten
  BY <1>6 DEF HydrationWritten, FlagTypes, OnFileChanged
<1>7. CASE HydrationCompensates
  BY <1>7 DEF HydrationCompensates, FlagTypes, Fault, NoFault
<1>8. CASE SelfDeleteExpires
  BY <1>8 DEF SelfDeleteExpires, FlagTypes
<1>9. CASE ReconcileTrashes
  <2>1. \/ OnFileDeleted
        \/ UNCHANGED <<queue, selfDelete, hyd, del>> /\ entry' \in {entry, NoEntry}
    BY <1>9 DEF ReconcileTrashes
  <2> QED
    BY <2>1, OnFileDeletedTypes, Parts DEF FlagTypes
<1>10. CASE SweepMissesFile
  <2>1. OnFileDeleted
    BY <1>10 DEF SweepMissesFile
  <2> QED
    BY <2>1, OnFileDeletedTypes
<1>11. CASE Crash
  BY <1>11 DEF Crash, FlagTypes, Fault, Bounded
<1>12. CASE UNCHANGED <<gateBlocked, superseded, selfDelete>>
  BY <1>12, Parts DEF FlagTypes
<1> QED
  BY <1>1, <1>2, <1>3, <1>4, <1>5, <1>6, <1>7, <1>8, <1>9, <1>10, <1>11, <1>12, FlagsChange

LEMMA UploadTypesStep ==
  ASSUME TypeOK, Next
  PROVE  UploadTypes'
<1> USE Blanks, Fields
<1>1. ASSUME NEW u \in Slots, UploadStarts(u) PROVE UploadTypes'
  BY <1>1 DEF UploadStarts, UploadTypes, Uploads
<1>2. ASSUME NEW u \in Slots, UploadPassesGate(u) PROVE UploadTypes'
  BY <1>2 DEF UploadPassesGate, UploadTypes, UploadEnds, Fault, NoFault, Uploads
<1>3. ASSUME NEW u \in Slots, UploadReads(u) PROVE UploadTypes'
  BY <1>3 DEF UploadReads, UploadTypes, UploadEnds, Uploads
<1>4. ASSUME NEW u \in Slots, UploadSends(u) PROVE UploadTypes'
  BY <1>4 DEF UploadSends, UploadTypes, UploadEnds, Fault, NoFault, Skipped, Uploads
<1>5. ASSUME NEW u \in Slots, UploadPosts(u) PROVE UploadTypes'
  BY <1>5 DEF UploadPosts, UploadTypes, UploadEnds, Accepts, Bounded, Fault, NoFault, Uploads
<1>6. ASSUME NEW u \in Slots, UploadAcked(u) PROVE UploadTypes'
  BY <1>6 DEF UploadAcked, UploadTypes, UploadEnds, Uploads
<1>7. CASE Crash
  BY <1>7 DEF Crash, UploadTypes, Fault, Bounded, Uploads
<1>8. CASE UNCHANGED ups
  BY <1>8, Parts DEF UploadTypes
<1> QED
  BY <1>1, <1>2, <1>3, <1>4, <1>5, <1>6, <1>7, <1>8, UploadsChange

LEMMA DeleteTypesStep ==
  ASSUME TypeOK, Next
  PROVE  DeleteTypes'
<1> USE Blanks, Fields
<1>1. CASE UserDeletes
  <2>1. OnFileDeleted \/ UNCHANGED <<queue, selfDelete, hyd, entry, del>>
    BY <1>1 DEF UserDeletes
  <2> QED
    BY <2>1, OnFileDeletedTypes, Parts DEF DeleteTypes
<1>2. CASE DeleteFindsFile
  BY <1>2 DEF DeleteFindsFile, DeleteTypes, Deletes
<1>3. CASE DeletePassesGate
  BY <1>3 DEF DeletePassesGate, DeleteTypes, Fault, NoFault, Deletes
<1>4. CASE DeletePosts
  BY <1>4 DEF DeletePosts, DeleteTypes, AcceptsDelete, Bounded, Fault, NoFault, Deletes
<1>5. CASE DeleteAnswered
  BY <1>5 DEF DeleteAnswered, DeleteTypes, Deletes
<1>6. CASE ReconcileTrashes
  <2>1. \/ OnFileDeleted
        \/ UNCHANGED <<queue, selfDelete, hyd, del>> /\ entry' \in {entry, NoEntry}
    BY <1>6 DEF ReconcileTrashes
  <2> QED
    BY <2>1, OnFileDeletedTypes, Parts DEF DeleteTypes
<1>7. CASE SweepMissesFile
  <2>1. OnFileDeleted
    BY <1>7 DEF SweepMissesFile
  <2> QED
    BY <2>1, OnFileDeletedTypes
<1>8. CASE Crash
  BY <1>8 DEF Crash, DeleteTypes, Fault, Bounded, Deletes
<1>9. CASE UNCHANGED del
  BY <1>9, Parts DEF DeleteTypes
<1> QED
  BY <1>1, <1>2, <1>3, <1>4, <1>5, <1>6, <1>7, <1>8, <1>9, DeleteChanges

LEMMA HydrationTypesStep ==
  ASSUME TypeOK, Next
  PROVE  HydrationTypes'
<1> USE Blanks, Fields
<1>1. CASE UserDeletes
  <2>1. OnFileDeleted \/ UNCHANGED <<queue, selfDelete, hyd, entry, del>>
    BY <1>1 DEF UserDeletes
  <2> QED
    BY <2>1, OnFileDeletedTypes, Parts DEF HydrationTypes
<1>2. CASE HydrationStarts
  BY <1>2 DEF HydrationStarts, HydrationTypes, Hydrations
<1>3. CASE HydrationFetched
  BY <1>3 DEF HydrationFetched, HydrationTypes, Fault, NoFault, Hydrations
<1>4. CASE HydrationCompares
  BY <1>4 DEF HydrationCompares, HydrationTypes, Hydrations
<1>5. CASE HydrationLocks
  BY <1>5 DEF HydrationLocks, HydrationTypes, Hydrations
<1>6. CASE HydrationWritten
  BY <1>6 DEF HydrationWritten, HydrationTypes, OnFileChanged, Hydrations
<1>7. CASE HydrationWriteFails
  BY <1>7 DEF HydrationWriteFails, HydrationTypes, OnFileChanged, Fault, Bounded, Hydrations
<1>8. CASE HydrationCompensates
  BY <1>8 DEF HydrationCompensates, HydrationTypes, Fault, NoFault, Hydrations
<1>9. CASE ReconcileTrashes
  <2>1. \/ OnFileDeleted
        \/ UNCHANGED <<queue, selfDelete, hyd, del>> /\ entry' \in {entry, NoEntry}
    BY <1>9 DEF ReconcileTrashes
  <2> QED
    BY <2>1, OnFileDeletedTypes, Parts DEF HydrationTypes
<1>10. CASE SweepMissesFile
  <2>1. OnFileDeleted
    BY <1>10 DEF SweepMissesFile
  <2> QED
    BY <2>1, OnFileDeletedTypes
<1>11. CASE Crash
  BY <1>11 DEF Crash, HydrationTypes, Fault, Bounded, Hydrations
<1>12. CASE UNCHANGED hyd
  BY <1>12, Parts DEF HydrationTypes
<1> QED
  BY <1>1, <1>2, <1>3, <1>4, <1>5, <1>6, <1>7, <1>8, <1>9, <1>10, <1>11, <1>12, HydrationChanges

LEMMA LaneTypesStep ==
  ASSUME TypeOK, Next
  PROVE  LaneTypes'
<1> USE Blanks, Fields
<1>1. CASE LaneLists
  BY <1>1 DEF LaneLists, LaneTypes, Lanes
<1>2. CASE LiveUnindexed
  BY <1>2 DEF LiveUnindexed, LaneTypes, LaneGoes, Lanes
<1>3. CASE LiveIndexed
  BY <1>3 DEF LiveIndexed, LaneTypes, LaneGoes, Undecided, Recorded, Lanes
<1>4. CASE LiveFindsFile
  BY <1>4 DEF LiveFindsFile, LaneTypes, LaneGoes, Recorded, Lanes
<1>5. CASE TombstoneTaken
  <2>1. \/ lane' = [lane EXCEPT !.at = "flush", !.deferred = TRUE]
        \/ lane' = [lane EXCEPT !.at = "flush"]
        \/ lane' = [lane EXCEPT !.at = "stat"]
    BY <1>5 DEF TombstoneTaken, LaneGoes
  <2> QED
    BY <2>1, LaneMoves DEF LaneTypes, LanePlaces
<1>6. CASE TombstoneFindsFile
  BY <1>6 DEF TombstoneFindsFile, LaneTypes, LaneGoes, Decides, Lanes
<1>7. CASE TombstoneDecides
  BY <1>7 DEF TombstoneDecides, LaneTypes, LaneGoes, Decides, Lanes
<1>8. CASE LaneFlushes
  BY <1>8 DEF LaneFlushes, LaneTypes, LaneGoes, Fault, NoFault, Lanes
<1>9. CASE Reconcile
  <2>1. \/ RepublishInstead
        \/ lane' = NoLane
        \/ lane' = [lane EXCEPT !.at = "republish", !.seq = entry.seq]
        \/ lane' = [lane EXCEPT !.at = "stable", !.seq = entry.seq]
        \/ lane' = [lane EXCEPT !.at = "trash"]
    BY <1>9 DEF Reconcile, LaneGoes
  <2> QED
    BY <2>1, RepublishInsteadTypes, LaneMoves DEF LaneTypes, LanePlaces
<1>10. CASE ReconcileStats
  <2>1. \/ RepublishInstead
        \/ lane' = NoLane
        \/ lane' = [lane EXCEPT !.at = "republish", !.seq = entry.seq]
        \/ lane' = [lane EXCEPT !.at = "stable", !.seq = entry.seq]
        \/ lane' = [lane EXCEPT !.at = "trash"]
    BY <1>10 DEF ReconcileStats, LaneGoes
  <2> QED
    BY <2>1, RepublishInsteadTypes, LaneMoves DEF LaneTypes, LanePlaces
<1>11. CASE ReconcileTrashes
  BY <1>11 DEF ReconcileTrashes, LaneTypes, OnFileDeleted, DropQueued, Fault, NoFault, Lanes
<1>12. CASE RepublishReads
  BY <1>12 DEF RepublishReads, LaneTypes, Lanes
<1>13. CASE RepublishSends
  BY <1>13 DEF RepublishSends, LaneTypes, Fault, NoFault, Lanes
<1>14. CASE RepublishPosts
  <2>1. \/ Bounded /\ lane' = [lane EXCEPT !.at = "answer", !.acked = row.seq + 1]
        \/ lane' = NoLane
    BY <1>14 DEF RepublishPosts, Accepts
  <2>2. Bounded => [lane EXCEPT !.at = "answer", !.acked = row.seq + 1] \in Lanes
    BY LaneMoves
  <2> QED
    BY <2>1, <2>2 DEF LaneTypes
<1>15. CASE RepublishAcked
  BY <1>15 DEF RepublishAcked, LaneTypes, Lanes
<1>16. CASE Crash
  BY <1>16 DEF Crash, LaneTypes, Fault, Bounded, Lanes
<1>17. CASE UNCHANGED lane
  BY <1>17, Parts DEF LaneTypes
<1> QED
  BY <1>1, <1>2, <1>3, <1>4, <1>5, <1>6, <1>7, <1>8, <1>9, <1>10, <1>11, <1>12, <1>13, <1>14,
      <1>15, <1>16, <1>17, LaneChanges

LEMMA HistoryTypesStep ==
  ASSUME TypeOK, Next
  PROVE  HistoryTypes'
<1> USE Blanks, Fields
<1>1. CASE UserWrites
  BY <1>1 DEF UserWrites, HistoryTypes, OnFileChanged, Fault, NoFault
<1>2. CASE UserDeletes
  BY <1>2 DEF UserDeletes, HistoryTypes, OnFileDeleted, DropQueued, Fault, NoFault
<1>3. ASSUME NEW u \in Slots, UploadAcked(u) PROVE HistoryTypes'
  BY <1>3 DEF UploadAcked, HistoryTypes, UploadEnds
<1>4. CASE DeletePassesGate
  BY <1>4 DEF DeletePassesGate, HistoryTypes, Fault, NoFault
<1>5. CASE DeletePosts
  BY <1>5 DEF DeletePosts, HistoryTypes, AcceptsDelete, Bounded, Fault, NoFault
<1>6. CASE HydrationWritten
  BY <1>6 DEF HydrationWritten, HistoryTypes, OnFileChanged
<1>7. CASE HydrationCompensates
  BY <1>7 DEF HydrationCompensates, HistoryTypes, Fault, NoFault
<1>8. CASE LiveUnindexed
  BY <1>8 DEF LiveUnindexed, HistoryTypes, LaneGoes
<1>9. CASE LiveFindsFile
  BY <1>9 DEF LiveFindsFile, HistoryTypes, LaneGoes, Recorded
<1>10. CASE TombstoneTaken
  BY <1>10 DEF TombstoneTaken, HistoryTypes, LaneGoes
<1>11. CASE ReconcileTrashes
  BY <1>11 DEF ReconcileTrashes, HistoryTypes, OnFileDeleted, DropQueued, Fault, NoFault
<1>12. CASE UNCHANGED <<mine, gone, lapses>>
  BY <1>12, Parts DEF HistoryTypes
<1> QED
  BY <1>1, <1>2, <1>3, <1>4, <1>5, <1>6, <1>7, <1>8, <1>9, <1>10, <1>11, <1>12, HistoryChanges

LEMMA CounterTypesStep ==
  ASSUME TypeOK, Next
  PROVE  CounterTypes'
<1> USE Blanks, Fields
<1>1. CASE UserWrites
  BY <1>1 DEF UserWrites, CounterTypes, OnFileChanged, Fault, NoFault
<1>2. CASE UserDeletes
  BY <1>2 DEF UserDeletes, CounterTypes, OnFileDeleted, DropQueued, Fault, NoFault
<1>3. CASE PeerWrites
  BY <1>3 DEF PeerWrites, CounterTypes, Accepts, AcceptsDelete, Bounded
<1>4. ASSUME NEW u \in Slots, UploadPassesGate(u) PROVE CounterTypes'
  BY <1>4 DEF UploadPassesGate, CounterTypes, UploadEnds, Fault, NoFault
<1>5. ASSUME NEW u \in Slots, UploadSends(u) PROVE CounterTypes'
  BY <1>5 DEF UploadSends, CounterTypes, UploadEnds, Fault, NoFault, Skipped
<1>6. ASSUME NEW u \in Slots, UploadPosts(u) PROVE CounterTypes'
  BY <1>6 DEF UploadPosts, CounterTypes, UploadEnds, Accepts, Bounded, Fault, NoFault
<1>7. CASE DeletePassesGate
  BY <1>7 DEF DeletePassesGate, CounterTypes, Fault, NoFault
<1>8. CASE DeletePosts
  BY <1>8 DEF DeletePosts, CounterTypes, AcceptsDelete, Bounded, Fault, NoFault
<1>9. CASE HydrationFetched
  BY <1>9 DEF HydrationFetched, CounterTypes, Fault, NoFault
<1>10. CASE HydrationWriteFails
  BY <1>10 DEF HydrationWriteFails, CounterTypes, OnFileChanged, Fault, Bounded
<1>11. CASE HydrationCompensates
  BY <1>11 DEF HydrationCompensates, CounterTypes, Fault, NoFault
<1>12. CASE LaneFlushes
  BY <1>12 DEF LaneFlushes, CounterTypes, LaneGoes, Fault, NoFault
<1>13. CASE Reconcile
  BY <1>13 DEF Reconcile, CounterTypes, RepublishInstead, Fault, NoFault
<1>14. CASE ReconcileStats
  BY <1>14 DEF ReconcileStats, CounterTypes, RepublishInstead, LaneGoes, Fault, NoFault
<1>15. CASE ReconcileTrashes
  BY <1>15 DEF ReconcileTrashes, CounterTypes, OnFileDeleted, DropQueued, Fault, NoFault
<1>16. CASE RepublishSends
  BY <1>16 DEF RepublishSends, CounterTypes, Fault, NoFault
<1>17. CASE RepublishPosts
  BY <1>17 DEF RepublishPosts, CounterTypes, Accepts, Bounded, Fault, NoFault, Undecided
<1>18. CASE Crash
  BY <1>18 DEF Crash, CounterTypes, Fault, Bounded
<1>19. CASE UNCHANGED counters
  BY <1>19, Parts DEF CounterTypes
<1> QED
  BY <1>1, <1>2, <1>3, <1>4, <1>5, <1>6, <1>7, <1>8, <1>9, <1>10, <1>11, <1>12, <1>13, <1>14,
      <1>15, <1>16, <1>17, <1>18, <1>19, CountersChange

-----------------------------------------------------------------------------
(* What the server accepted, it has had for good, and what was kept is kept. *)
Had == published \cup {None}

RowHad == row.hash \in Had
EntryHad == entry.hash \in Had /\ entry.base \in Had
StoredHad == stored.entry.hash \in Had /\ stored.entry.base \in Had
HydrationHad == hyd.hash \in Had /\ hyd.base \in Had
LaneHad == lane.at \notin {"send", "post"} => lane.hash \in Had
UploadsHad == \A u \in Slots : ups[u].at = "answer" => ups[u].content \in Had

(* Between its comparison and its write a download has made sure of what the *)
(* file held.                                                                *)
Saved ==
  "overwritten" \notin lapses /\ hyd.at \in {"lock", "write"} => mine \in Had \cup kept

Backed == RowHad /\ EntryHad /\ StoredHad /\ HydrationHad /\ LaneHad /\ UploadsHad

(* The server forgets no content it accepted, nothing kept is dropped, and   *)
(* what was skipped stays recorded.                                          *)
LEMMA PublishedGrows ==
  ASSUME TypeOK, Next
  PROVE  published \subseteq published'
<1>1. UNCHANGED server \/ AcceptsDelete \/ \E content : Accepts(content)
  BY ServerChanges DEF PeerWrites, DeletePosts, RepublishPosts, UploadPosts
<1> QED
  BY <1>1 DEF Accepts, AcceptsDelete

LEMMA Grows ==
  ASSUME TypeOK, Next
  PROVE  Had \subseteq Had' /\ kept \subseteq kept' /\ lapses \subseteq lapses'
<1>1. published \subseteq published'
  BY PublishedGrows
<1>2. kept \subseteq kept'
  BY DiskChanges DEF UserWrites, UserDeletes, HydrationCompares, HydrationWritten,
      HydrationWriteFails, HydrationCompensates, ReconcileTrashes, Crash
<1>3. lapses \subseteq lapses'
  BY HistoryChanges DEF UserWrites, UserDeletes, UploadAcked, DeletePassesGate, DeletePosts,
      HydrationWritten, HydrationCompensates, LiveUnindexed, LiveFindsFile, TombstoneTaken,
      ReconcileTrashes
<1> QED
  BY <1>1, <1>2, <1>3 DEF Had

(* Every hash the client or the server holds for the path is one it has had. *)
LEMMA RowHadStep ==
  ASSUME TypeOK, Next, RowHad
  PROVE  RowHad'
<1> USE Grows
<1>1. CASE PeerWrites
  <2>1. AcceptsDelete \/ \E content : Accepts(content)
    BY <1>1 DEF PeerWrites
  <2>2. AcceptsDelete => row'.hash = row.hash
    BY Fields DEF AcceptsDelete
  <2>3. ASSUME NEW content, Accepts(content) PROVE row'.hash \in published'
    BY <2>3 DEF Accepts
  <2> QED
    BY <2>1, <2>2, <2>3 DEF RowHad, Had
<1>2. ASSUME NEW u \in Slots, UploadPosts(u) PROVE RowHad'
  <2>1. \/ row'.hash = row.hash
        \/ row'.hash \in published'
    BY <1>2, Fields DEF UploadPosts, Accepts, AcceptsDelete
  <2> QED
    BY <2>1, Grows DEF RowHad, Had
<1>3. CASE DeletePosts
  <2>1. \/ row'.hash = row.hash
        \/ row'.hash \in published'
    BY <1>3, Fields DEF DeletePosts, Accepts, AcceptsDelete
  <2> QED
    BY <2>1, Grows DEF RowHad, Had
<1>4. CASE RepublishPosts
  <2>1. \/ row'.hash = row.hash
        \/ row'.hash \in published'
    BY <1>4, Fields DEF RepublishPosts, Accepts, AcceptsDelete
  <2> QED
    BY <2>1, Grows DEF RowHad, Had
<1>5. CASE UNCHANGED server
  BY <1>5 DEF RowHad
<1> QED
  BY <1>1, <1>2, <1>3, <1>4, <1>5, ServerChanges

(* The entry takes hashes from an answer, a download or the lane only.       *)
LEMMA EntryHadStep ==
  ASSUME TypeOK, Next, Backed
  PROVE  EntryHad'
<1> USE Grows
<1>a. entry \in Entries
  BY Fields
<1>b. /\ None \in Had' /\ entry.hash \in Had' /\ entry.base \in Had' /\ hyd.hash \in Had'
      /\ hyd.base \in Had' /\ stored.entry.hash \in Had' /\ stored.entry.base \in Had'
      /\ lane.at \notin {"send", "post"} => lane.hash \in Had'
      /\ \A u \in Slots : ups[u].at = "answer" => ups[u].content \in Had'
  BY DEF Backed, EntryHad, StoredHad, HydrationHad, LaneHad, UploadsHad, Had
<1> USE DEF EntryHad
<1>1. CASE UserDeletes
  <2>1. entry'.hash \in {entry.hash, None} /\ entry'.base \in {entry.base, None}
    BY <1>1, <1>a DEF UserDeletes, OnFileDeleted, Entries, NoEntry
  <2> QED
    BY <2>1, <1>b
<1>2. ASSUME NEW u \in Slots, UploadSends(u) PROVE EntryHad'
  <2>1. entry'.hash \in {entry.hash, None} /\ entry'.base \in {entry.base, None}
    BY <1>2, <1>a DEF UploadSends, Skipped, Entries, NoEntry
  <2> QED
    BY <2>1, <1>b
<1>3. ASSUME NEW u \in Slots, UploadAcked(u) PROVE EntryHad'
  <2>1. /\ ups[u].at = "answer"
        /\ entry'.hash \in {entry.hash, None, ups[u].content}
        /\ entry'.base \in {entry.base, None, ups[u].content}
    BY <1>3, <1>a DEF UploadAcked, Entries, NoEntry
  <2> QED
    BY <2>1, <1>b DEF UploadsHad
<1>4. CASE DeleteAnswered
  <2>1. entry'.hash \in {entry.hash, None} /\ entry'.base \in {entry.base, None}
    BY <1>4, <1>a DEF DeleteAnswered, Entries, NoEntry
  <2> QED
    BY <2>1, <1>b
<1>5. CASE HydrationLocks
  <2>1. entry'.hash \in {entry.hash, None, hyd.hash} /\ entry'.base \in {entry.base, None, hyd.hash}
    BY <1>5, <1>a DEF HydrationLocks, Entries, NoEntry
  <2> QED
    BY <2>1, <1>b
<1>6. CASE HydrationWritten
  <2>1. entry'.hash = entry.hash /\ entry'.base \in {entry.base, hyd.base}
    BY <1>6, EntryOverwritten
  <2> QED
    BY <2>1, <1>b
<1>7. CASE HydrationWriteFails
  <2>1. entry'.hash \in {entry.hash, None, hyd.base} /\ entry'.base \in {entry.base, None, hyd.base}
    BY <1>7, EntryOverwritten
  <2> QED
    BY <2>1, <1>b
<1>8. CASE LiveUnindexed
  <2>1. /\ lane.at = "apply"
        /\ entry'.hash \in {entry.hash, None, lane.hash}
        /\ entry'.base \in {entry.base, None, lane.hash}
    BY <1>8, <1>a DEF LiveUnindexed, Entries, NoEntry
  <2> QED
    BY <2>1, <1>b
<1>9. CASE LiveIndexed
  <2>1. /\ lane.at = "apply"
        /\ entry'.hash \in {entry.hash, None, lane.hash}
        /\ entry'.base \in {entry.base, None, lane.hash}
    BY <1>9, <1>a DEF LiveIndexed, Undecided, Recorded, Entries, NoEntry
  <2> QED
    BY <2>1, <1>b
<1>10. CASE LiveFindsFile
  <2>1. /\ lane.at = "live"
        /\ entry'.hash \in {entry.hash, None, lane.hash}
        /\ entry'.base \in {entry.base, None, lane.hash}
    BY <1>10, <1>a DEF LiveFindsFile, Recorded, Entries, NoEntry
  <2> QED
    BY <2>1, <1>b
<1>11. CASE TombstoneFindsFile
  <2>1. \/ entry' \in {entry, NoEntry}
        \/ \E kind, content : Decides(kind, content)
    BY <1>11 DEF TombstoneFindsFile
  <2>2. ASSUME NEW kind, NEW content, Decides(kind, content)
        PROVE  entry'.hash = entry.hash /\ entry'.base = entry.base
    BY <2>2, <1>a DEF Decides, Entries
  <2> QED
    BY <2>1, <2>2, <1>b DEF NoEntry
<1>12. CASE TombstoneDecides
  <2>1. \/ entry' \in {entry, NoEntry}
        \/ \E kind, content : Decides(kind, content)
    BY <1>12 DEF TombstoneDecides
  <2>2. ASSUME NEW kind, NEW content, Decides(kind, content)
        PROVE  entry'.hash = entry.hash /\ entry'.base = entry.base
    BY <2>2, <1>a DEF Decides, Entries
  <2> QED
    BY <2>1, <2>2, <1>b DEF NoEntry
<1>13. CASE Reconcile
  <2>1. RepublishInstead \/ entry' \in {entry, NoEntry}
    BY <1>13 DEF Reconcile
  <2>2. RepublishInstead => entry'.hash = entry.hash /\ entry'.base = entry.base
    BY <1>a DEF RepublishInstead, Entries
  <2> QED
    BY <2>1, <2>2, <1>b DEF NoEntry
<1>14. CASE ReconcileStats
  <2>1. RepublishInstead \/ entry' \in {entry, NoEntry}
    BY <1>14 DEF ReconcileStats
  <2>2. RepublishInstead => entry'.hash = entry.hash /\ entry'.base = entry.base
    BY <1>a DEF RepublishInstead, Entries
  <2> QED
    BY <2>1, <2>2, <1>b DEF NoEntry
<1>15. CASE ReconcileTrashes
  <2>1. entry'.hash \in {entry.hash, None} /\ entry'.base \in {entry.base, None}
    BY <1>15, <1>a DEF ReconcileTrashes, OnFileDeleted, Entries, NoEntry
  <2> QED
    BY <2>1, <1>b
<1>16. CASE RepublishPosts
  <2>1. entry'.hash \in {entry.hash, None} /\ entry'.base \in {entry.base, None}
    BY <1>16, <1>a DEF RepublishPosts, Undecided, Entries, NoEntry
  <2> QED
    BY <2>1, <1>b
<1>17. CASE RepublishAcked
  <2>1. /\ lane.at = "answer"
        /\ entry'.hash \in {entry.hash, None, lane.hash}
        /\ entry'.base \in {entry.base, None, lane.hash}
    BY <1>17, <1>a DEF RepublishAcked, Entries, NoEntry
  <2> QED
    BY <2>1, <1>b
<1>18. CASE SweepMissesFile
  <2>1. entry'.hash \in {entry.hash, None} /\ entry'.base \in {entry.base, None}
    BY <1>18, <1>a DEF SweepMissesFile, OnFileDeleted, Entries, NoEntry
  <2> QED
    BY <2>1, <1>b
<1>19. CASE Crash
  <2>1. entry'.hash = stored.entry.hash /\ entry'.base = stored.entry.base
    BY <1>19, Overwrites DEF Crash, Alike
  <2> QED
    BY <2>1, <1>b
<1>20. CASE UNCHANGED entry
  BY <1>20, <1>b DEF EntryHad
<1> QED
  BY <1>1, <1>2, <1>3, <1>4, <1>5, <1>6, <1>7, <1>8, <1>9, <1>10, <1>11, <1>12, <1>13, <1>14,
      <1>15, <1>16, <1>17, <1>18, <1>19, <1>20, EntryChanges

LEMMA StoredHadStep ==
  ASSUME TypeOK, Next, Backed
  PROVE  StoredHad'
<1> USE Grows DEF Backed
<1>1. CASE LaneFlushes
  <2>1. stored' \in {stored, [entry |-> entry, cursor |-> cursor]}
    BY <1>1 DEF LaneFlushes
  <2> QED
    BY <2>1 DEF StoredHad, EntryHad
<1>2. CASE Reconcile
  <2>1. \/ stored' = stored
        \/ stored' = [entry |-> entry', cursor |-> cursor] /\ RepublishInstead
    BY <1>2 DEF Reconcile, RepublishInstead
  <2>2. [entry EXCEPT !.decision = "republish", !.expected = None].hash = entry.hash
    BY Fields DEF Entries
  <2>3. [entry EXCEPT !.decision = "republish", !.expected = None].base = entry.base
    BY Fields DEF Entries
  <2>4. CASE stored' = stored
    BY <2>4 DEF StoredHad
  <2>5. CASE stored' = [entry |-> entry', cursor |-> cursor] /\ RepublishInstead
    <3>1. stored'.entry = [entry EXCEPT !.decision = "republish", !.expected = None]
      BY <2>5 DEF RepublishInstead
    <3> QED
      BY <3>1, <2>2, <2>3 DEF StoredHad, EntryHad
  <2> QED
    BY <2>1, <2>4, <2>5
<1>3. CASE ReconcileStats
  <2>1. \/ stored' = stored
        \/ stored' = [entry |-> entry', cursor |-> cursor] /\ RepublishInstead
    BY <1>3 DEF ReconcileStats, RepublishInstead
  <2>2. [entry EXCEPT !.decision = "republish", !.expected = None].hash = entry.hash
    BY Fields DEF Entries
  <2>3. [entry EXCEPT !.decision = "republish", !.expected = None].base = entry.base
    BY Fields DEF Entries
  <2>4. CASE stored' = stored
    BY <2>4 DEF StoredHad
  <2>5. CASE stored' = [entry |-> entry', cursor |-> cursor] /\ RepublishInstead
    <3>1. stored'.entry = [entry EXCEPT !.decision = "republish", !.expected = None]
      BY <2>5 DEF RepublishInstead
    <3> QED
      BY <3>1, <2>2, <2>3 DEF StoredHad, EntryHad
  <2> QED
    BY <2>1, <2>4, <2>5
<1>4. CASE Persist
  <2>1. stored' \in {stored, [entry |-> entry, cursor |-> cursor]}
    BY <1>4 DEF Persist
  <2> QED
    BY <2>1 DEF StoredHad, EntryHad
<1>5. CASE HydrationWritten \/ HydrationWriteFails \/ Crash
  <2>1. stored'.entry.hash = stored.entry.hash /\ stored'.entry.base = stored.entry.base
    BY <1>5, Overwrites DEF Alike
  <2> QED
    BY <2>1 DEF StoredHad
<1>6. CASE UNCHANGED <<cursor, stored>>
  BY <1>6 DEF StoredHad
<1> QED
  BY <1>1, <1>2, <1>3, <1>4, <1>5, <1>6, StoredChanges

LEMMA HydrationHadStep ==
  ASSUME TypeOK, Next, Backed
  PROVE  HydrationHad'
<1> USE Fields, Grows DEF Backed
<1>1. CASE UserDeletes
  BY <1>1 DEF UserDeletes, OnFileDeleted, DropQueued, Fault, NoFault, HydrationHad, EntryHad,
      Had, Hydrations, NoHydration
<1>2. CASE HydrationStarts
  BY <1>2 DEF HydrationStarts, HydrationHad, EntryHad, Had, Hydrations, NoHydration
<1>3. CASE HydrationFetched
  BY <1>3 DEF HydrationFetched, Fault, NoFault, HydrationHad, EntryHad, Had, Hydrations,
      NoHydration
<1>4. CASE HydrationCompares
  BY <1>4 DEF HydrationCompares, HydrationHad, EntryHad, Had, Hydrations, NoHydration
<1>5. CASE HydrationLocks
  BY <1>5 DEF HydrationLocks, HydrationHad, EntryHad, Had, Hydrations, NoHydration
<1>6. CASE HydrationWritten
  BY <1>6 DEF HydrationWritten, OnFileChanged, HydrationHad, EntryHad, Had, Hydrations,
      NoHydration
<1>7. CASE HydrationWriteFails
  BY <1>7 DEF HydrationWriteFails, OnFileChanged, Fault, Bounded, HydrationHad, EntryHad, Had,
      Hydrations, NoHydration
<1>8. CASE HydrationCompensates
  BY <1>8 DEF HydrationCompensates, Fault, NoFault, HydrationHad, EntryHad, Had, Hydrations,
      NoHydration
<1>9. CASE ReconcileTrashes
  BY <1>9 DEF ReconcileTrashes, OnFileDeleted, DropQueued, Fault, NoFault, HydrationHad,
      EntryHad, Had, Hydrations, NoHydration
<1>10. CASE SweepMissesFile
  BY <1>10 DEF SweepMissesFile, OnFileDeleted, DropQueued, HydrationHad, EntryHad, Had,
      Hydrations, NoHydration
<1>11. CASE Crash
  BY <1>11 DEF Crash, Fault, Bounded, HydrationHad, EntryHad, Had, Hydrations, NoHydration
<1>12. CASE UNCHANGED hyd
  BY <1>12 DEF HydrationHad, EntryHad, Had, Hydrations, NoHydration
<1> QED
  BY <1>1, <1>2, <1>3, <1>4, <1>5, <1>6, <1>7, <1>8, <1>9, <1>10, <1>11, <1>12, HydrationChanges

LEMMA LaneHadStep ==
  ASSUME TypeOK, Next, Backed
  PROVE  LaneHad'
<1> USE Grows
<1>a. lane \in Lanes
  BY Fields
<1>b. /\ None \in Had' /\ row.hash \in Had'
      /\ lane.at \notin {"send", "post"} => lane.hash \in Had'
  BY DEF Backed, RowHad, LaneHad, Had
<1>1. CASE LaneLists
  <2>1. lane'.hash = row.hash
    BY <1>1 DEF LaneLists, NoLane
  <2> QED
    BY <2>1, <1>b DEF LaneHad
<1>2. CASE LiveUnindexed
  <2>1. lane.at \notin {"send", "post"} /\ lane'.hash \in {lane.hash, None}
    BY <1>2, <1>a DEF LiveUnindexed, LaneGoes, RepublishInstead, Lanes, NoLane
  <2> QED
    BY <2>1, <1>b DEF LaneHad
<1>3. CASE LiveIndexed
  <2>1. lane.at \notin {"send", "post"} /\ lane'.hash \in {lane.hash, None}
    BY <1>3, <1>a DEF LiveIndexed, LaneGoes, RepublishInstead, Lanes, NoLane
  <2> QED
    BY <2>1, <1>b DEF LaneHad
<1>4. CASE LiveFindsFile
  <2>1. lane.at \notin {"send", "post"} /\ lane'.hash \in {lane.hash, None}
    BY <1>4, <1>a DEF LiveFindsFile, LaneGoes, RepublishInstead, Lanes, NoLane
  <2> QED
    BY <2>1, <1>b DEF LaneHad
<1>5. CASE TombstoneTaken
  <2>1. lane.at \notin {"send", "post"} /\ lane'.hash \in {lane.hash, None}
    BY <1>5, <1>a DEF TombstoneTaken, LaneGoes, RepublishInstead, Lanes, NoLane
  <2> QED
    BY <2>1, <1>b DEF LaneHad
<1>6. CASE TombstoneFindsFile
  <2>1. lane.at \notin {"send", "post"} /\ lane'.hash \in {lane.hash, None}
    BY <1>6, <1>a DEF TombstoneFindsFile, LaneGoes, RepublishInstead, Lanes, NoLane
  <2> QED
    BY <2>1, <1>b DEF LaneHad
<1>7. CASE TombstoneDecides
  <2>1. lane.at \notin {"send", "post"} /\ lane'.hash \in {lane.hash, None}
    BY <1>7, <1>a DEF TombstoneDecides, LaneGoes, RepublishInstead, Lanes, NoLane
  <2> QED
    BY <2>1, <1>b DEF LaneHad
<1>8. CASE LaneFlushes
  <2>1. lane.at \notin {"send", "post"} /\ lane'.hash \in {lane.hash, None}
    BY <1>8, <1>a DEF LaneFlushes, LaneGoes, RepublishInstead, Lanes, NoLane
  <2> QED
    BY <2>1, <1>b DEF LaneHad
<1>9. CASE Reconcile
  <2>1. /\ lane.at \in {"reconcile", "stable"}
        /\ \/ lane' = NoLane
           \/ lane' = [lane EXCEPT !.at = "republish", !.seq = entry.seq]
           \/ lane' = [lane EXCEPT !.at = "stable", !.seq = entry.seq]
           \/ lane' = [lane EXCEPT !.at = "trash"]
    BY <1>9 DEF Reconcile, LaneGoes, RepublishInstead
  <2>2. /\ [lane EXCEPT !.at = "republish", !.seq = entry.seq].hash = lane.hash
        /\ [lane EXCEPT !.at = "stable", !.seq = entry.seq].hash = lane.hash
        /\ [lane EXCEPT !.at = "trash"].hash = lane.hash
    BY <1>a DEF Lanes
  <2>3. lane.hash \in Had'
    BY <2>1, <1>b
  <2>4. CASE lane' = NoLane
    BY <2>4, <1>b DEF LaneHad, NoLane
  <2>5. CASE lane' # NoLane
    <3>1. lane'.hash = lane.hash
      BY <2>1, <2>2, <2>5
    <3> QED
      BY <3>1, <2>3, <1>b DEF LaneHad
  <2> QED
    BY <2>4, <2>5
<1>10. CASE ReconcileStats
  <2>1. /\ lane.at \in {"reconcile", "stable"}
        /\ \/ lane' = NoLane
           \/ lane' = [lane EXCEPT !.at = "republish", !.seq = entry.seq]
           \/ lane' = [lane EXCEPT !.at = "stable", !.seq = entry.seq]
           \/ lane' = [lane EXCEPT !.at = "trash"]
    BY <1>10 DEF ReconcileStats, LaneGoes, RepublishInstead
  <2>2. /\ [lane EXCEPT !.at = "republish", !.seq = entry.seq].hash = lane.hash
        /\ [lane EXCEPT !.at = "stable", !.seq = entry.seq].hash = lane.hash
        /\ [lane EXCEPT !.at = "trash"].hash = lane.hash
    BY <1>a DEF Lanes
  <2>3. lane.hash \in Had'
    BY <2>1, <1>b
  <2>4. CASE lane' = NoLane
    BY <2>4, <1>b DEF LaneHad, NoLane
  <2>5. CASE lane' # NoLane
    <3>1. lane'.hash = lane.hash
      BY <2>1, <2>2, <2>5
    <3> QED
      BY <3>1, <2>3, <1>b DEF LaneHad
  <2> QED
    BY <2>4, <2>5
<1>11. CASE ReconcileTrashes
  <2>1. lane.at \notin {"send", "post"} /\ lane'.hash \in {lane.hash, None}
    BY <1>11, <1>a DEF ReconcileTrashes, LaneGoes, RepublishInstead, Lanes, NoLane
  <2> QED
    BY <2>1, <1>b DEF LaneHad
<1>12. CASE RepublishReads
  <2>1. lane' = NoLane \/ lane'.at \in {"send", "post"}
    BY <1>12, <1>a DEF RepublishReads, Lanes
  <2> QED
    BY <2>1, <1>b DEF LaneHad, NoLane
<1>13. CASE RepublishSends
  <2>1. lane' = NoLane \/ lane'.at \in {"send", "post"}
    BY <1>13, <1>a DEF RepublishSends, Lanes
  <2> QED
    BY <2>1, <1>b DEF LaneHad, NoLane
<1>14. CASE RepublishPosts
  <2>1. \/ Accepts(lane.hash) /\ lane' = [lane EXCEPT !.at = "answer", !.acked = row.seq + 1]
        \/ lane' = NoLane
    BY <1>14 DEF RepublishPosts
  <2>2. Accepts(lane.hash) => lane.hash \in published'
    BY DEF Accepts
  <2>3. [lane EXCEPT !.at = "answer", !.acked = row.seq + 1].hash = lane.hash
    BY <1>a DEF Lanes
  <2>4. CASE lane' = NoLane
    BY <2>4, <1>b DEF NoLane, LaneHad
  <2>5. CASE lane' # NoLane
    BY <2>1, <2>2, <2>3, <2>5 DEF LaneHad, Had
  <2> QED
    BY <2>4, <2>5
<1>15. CASE RepublishAcked
  <2>1. lane.at \notin {"send", "post"} /\ lane'.hash \in {lane.hash, None}
    BY <1>15, <1>a DEF RepublishAcked, LaneGoes, RepublishInstead, Lanes, NoLane
  <2> QED
    BY <2>1, <1>b DEF LaneHad
<1>16. CASE Crash
  <2>1. lane'.hash = None
    BY <1>16 DEF Crash, NoLane
  <2> QED
    BY <2>1, <1>b DEF LaneHad
<1>17. CASE UNCHANGED lane
  BY <1>17, <1>b DEF LaneHad
<1> QED
  BY <1>1, <1>2, <1>3, <1>4, <1>5, <1>6, <1>7, <1>8, <1>9, <1>10, <1>11, <1>12, <1>13, <1>14,
      <1>15, <1>16, <1>17, LaneChanges

LEMMA UploadsHadStep ==
  ASSUME TypeOK, Next, Backed
  PROVE  UploadsHad'
<1> USE Fields, Grows DEF Backed
<1>1. ASSUME NEW u \in Slots, UploadStarts(u) PROVE UploadsHad'
  BY <1>1 DEF UploadStarts, UploadsHad, Uploads, NoUpload
<1>2. ASSUME NEW u \in Slots, UploadPassesGate(u) PROVE UploadsHad'
  BY <1>2 DEF UploadPassesGate, UploadEnds, Fault, NoFault, UploadsHad, Uploads, NoUpload
<1>3. ASSUME NEW u \in Slots, UploadReads(u) PROVE UploadsHad'
  BY <1>3 DEF UploadReads, UploadEnds, UploadsHad, Uploads, NoUpload
<1>4. ASSUME NEW u \in Slots, UploadSends(u) PROVE UploadsHad'
  BY <1>4 DEF UploadSends, UploadEnds, Fault, NoFault, Skipped, UploadsHad, Uploads, NoUpload
<1>5. ASSUME NEW u \in Slots, UploadPosts(u) PROVE UploadsHad'
  <2>1. \/ /\ Accepts(ups[u].content)
           /\ ups' = [ups EXCEPT ![u].at = "answer", ![u].seq = row.seq + 1]
        \/ ups' = [ups EXCEPT ![u] = NoUpload]
    BY <1>5 DEF UploadPosts, UploadEnds
  <2>2. CASE /\ Accepts(ups[u].content)
             /\ ups' = [ups EXCEPT ![u].at = "answer", ![u].seq = row.seq + 1]
    <3>1. ups[u].content \in Had'
      BY <2>2 DEF Accepts, Had
    <3>2. \A v \in Slots : ups'[v].content = ups[v].content /\ (v # u => ups'[v].at = ups[v].at)
      BY <2>2, Fields DEF Uploads
    <3> QED
      BY <3>1, <3>2 DEF UploadsHad
  <2>3. CASE ups' = [ups EXCEPT ![u] = NoUpload]
    BY <2>3, Fields DEF UploadsHad, NoUpload
  <2> QED
    BY <2>1, <2>2, <2>3
<1>6. ASSUME NEW u \in Slots, UploadAcked(u) PROVE UploadsHad'
  BY <1>6 DEF UploadAcked, UploadEnds, UploadsHad, Uploads, NoUpload
<1>7. CASE Crash
  BY <1>7 DEF Crash, Fault, Bounded, UploadsHad, Uploads, NoUpload
<1>8. CASE UNCHANGED ups
  <2>1. \A c \in Had : c \in Had'
    OBVIOUS
  <2> QED
    BY <1>8, <2>1, Zenon DEF UploadsHad
<1> QED
  BY <1>1, <1>2, <1>3, <1>4, <1>5, <1>6, <1>7, <1>8, UploadsChange

(* The comparison copies what the write would destroy.                       *)
LEMMA SavedStep ==
  ASSUME TypeOK, Next, Backed, Saved, NothingLost
  PROVE  Saved'
<1> USE Grows
<1>a. hyd \in Hydrations
  BY Fields
<1>b. None \in Had' /\ hyd.hash \in Had' /\ hyd.base \in Had'
  BY DEF Backed, HydrationHad, Had
<1>1. CASE UserWrites
  <2>1. hyd' = hyd /\ (hyd.at \in {"lock", "write"} => "overwritten" \in lapses')
    BY <1>1 DEF UserWrites
  <2> QED
    BY <2>1 DEF Saved
<1>2. CASE UserDeletes
  <2>1. mine' = None
    BY <1>2 DEF UserDeletes
  <2> QED
    BY <2>1, <1>b DEF Saved
<1>3. CASE HydrationStarts
  <2>1. mine' = mine /\ (hyd'.at \in {"lock", "write"} => hyd.at \in {"lock", "write"})
    BY <1>3, <1>a DEF HydrationStarts, OnFileDeleted, Hydrations, NoHydration
  <2> QED
    BY <2>1 DEF Saved
<1>4. CASE HydrationFetched
  <2>1. mine' = mine /\ (hyd'.at \in {"lock", "write"} => hyd.at \in {"lock", "write"})
    BY <1>4, <1>a DEF HydrationFetched, OnFileDeleted, Hydrations, NoHydration
  <2> QED
    BY <2>1 DEF Saved
<1>5. CASE HydrationCompares
  <2>1. mine' = mine /\ file' = file /\ lapses' = lapses
    BY <1>5 DEF HydrationCompares
  <2>2. CASE StillHydrates
    <3>1. file \in {None, hyd.hash, hyd.base} \cup kept'
      BY <1>5, <2>2 DEF HydrationCompares
    <3>2. "overwritten" \notin lapses => mine \in {None, file} \cup Had \cup kept
      BY DEF NothingLost, Had
    <3> QED
      BY <2>1, <3>1, <3>2, <1>b DEF Saved
  <2>3. CASE ~StillHydrates
    BY <1>5, <2>3 DEF HydrationCompares, Saved, NoHydration
  <2> QED
    BY <2>2, <2>3
<1>6. CASE HydrationLocks
  <2>1. mine' = mine /\ (hyd'.at \in {"lock", "write"} => hyd.at \in {"lock", "write"})
    BY <1>6, <1>a DEF HydrationLocks, OnFileDeleted, Hydrations, NoHydration
  <2> QED
    BY <2>1 DEF Saved
<1>7. CASE HydrationWritten
  <2>1. mine' = mine /\ (hyd'.at \in {"lock", "write"} => hyd.at \in {"lock", "write"})
    BY <1>7, <1>a DEF HydrationWritten, OnFileDeleted, Hydrations, NoHydration
  <2> QED
    BY <2>1 DEF Saved
<1>8. CASE HydrationWriteFails
  <2>1. mine' = mine /\ (hyd'.at \in {"lock", "write"} => hyd.at \in {"lock", "write"})
    BY <1>8, <1>a DEF HydrationWriteFails, OnFileDeleted, Hydrations, NoHydration
  <2> QED
    BY <2>1 DEF Saved
<1>9. CASE HydrationCompensates
  <2>1. mine' = mine /\ (hyd'.at \in {"lock", "write"} => hyd.at \in {"lock", "write"})
    BY <1>9, <1>a DEF HydrationCompensates, OnFileDeleted, Hydrations, NoHydration
  <2> QED
    BY <2>1 DEF Saved
<1>10. CASE ReconcileTrashes
  <2>1. mine' = mine /\ (hyd'.at \in {"lock", "write"} => hyd.at \in {"lock", "write"})
    BY <1>10, <1>a DEF ReconcileTrashes, OnFileDeleted, Hydrations, NoHydration
  <2> QED
    BY <2>1 DEF Saved
<1>11. CASE SweepMissesFile
  <2>1. mine' = mine /\ (hyd'.at \in {"lock", "write"} => hyd.at \in {"lock", "write"})
    BY <1>11, <1>a DEF SweepMissesFile, OnFileDeleted, Hydrations, NoHydration
  <2> QED
    BY <2>1 DEF Saved
<1>12. CASE Crash
  <2>1. mine' = mine /\ (hyd'.at \in {"lock", "write"} => hyd.at \in {"lock", "write"})
    BY <1>12, <1>a DEF Crash, OnFileDeleted, Hydrations, NoHydration
  <2> QED
    BY <2>1 DEF Saved
<1>13. CASE UNCHANGED <<mine, hyd>>
  <2>1. mine' = mine /\ (hyd'.at \in {"lock", "write"} => hyd.at \in {"lock", "write"})
    BY <1>13
  <2> QED
    BY <2>1 DEF Saved
<1> QED
  BY <1>1, <1>2, <1>3, <1>4, <1>5, <1>6, <1>7, <1>8, <1>9, <1>10, <1>11, <1>12, <1>13
  DEF Next, UploadNext, DeleteNext, HydrationNext, LaneNext, PeerWrites, UploadStarts,
      UploadPassesGate, UploadReads, UploadSends, UploadPosts, UploadAcked, RetryGateBlocked,
      DeleteFindsFile, DeletePassesGate, DeletePosts, DeleteAnswered, SelfDeleteExpires,
      LaneLists, LiveUnindexed, LiveIndexed, LiveFindsFile, TombstoneTaken, TombstoneFindsFile,
      TombstoneDecides, LaneFlushes, Reconcile, ReconcileStats, RepublishReads, RepublishSends,
      RepublishPosts, RepublishAcked, SweepFindsFile, Persist

(* The file is written over or trashed only when its content is safe.        *)
LEMMA NothingLostStep ==
  ASSUME TypeOK, Next, Backed, Saved, NothingLost
  PROVE  NothingLost'
<1> USE Grows
<1>a. published \subseteq Had /\ Had' = published' \cup {None} /\ hyd.hash \in Had'
  BY DEF Backed, HydrationHad, Had
<1>b. published \subseteq published'
  BY PublishedGrows
<1>1. CASE UserWrites
  <2>1. mine' = file'
    BY <1>1 DEF UserWrites
  <2> QED
    BY <2>1 DEF NothingLost
<1>2. CASE UserDeletes
  <2>1. mine' = None
    BY <1>2 DEF UserDeletes
  <2> QED
    BY <2>1 DEF NothingLost
<1>3. CASE HydrationWritten
  <2>1. mine' = mine /\ (hyd.at = "write" \/ file' = file)
    BY <1>3 DEF HydrationWritten
  <2>2. CASE hyd.at = "write"
    BY <2>1, <2>2, <1>a DEF Saved, NothingLost
  <2>3. CASE file' = file
    BY <2>1, <2>3, <1>b DEF NothingLost
  <2> QED
    BY <2>1, <2>2, <2>3
<1>4. CASE HydrationWriteFails
  <2>1. mine' = mine /\ (hyd.at = "write" \/ file' = file)
    BY <1>4 DEF HydrationWriteFails
  <2>2. CASE hyd.at = "write"
    BY <2>1, <2>2, <1>a DEF Saved, NothingLost
  <2>3. CASE file' = file
    BY <2>1, <2>3, <1>b DEF NothingLost
  <2> QED
    BY <2>1, <2>2, <2>3
<1>5. CASE HydrationCompensates
  <2>1. mine' = mine /\ file \in {file'} \cup kept'
    BY <1>5 DEF HydrationCompensates
  <2> QED
    BY <2>1, <1>b DEF NothingLost
<1>6. CASE ReconcileTrashes
  <2>1. mine' = mine /\ file \in {file'} \cup kept'
    BY <1>6 DEF ReconcileTrashes
  <2> QED
    BY <2>1, <1>b DEF NothingLost
<1>7. CASE Crash
  <2>1. mine' = mine /\ (hyd.at = "write" \/ file' = file)
    BY <1>7 DEF Crash
  <2>2. CASE hyd.at = "write"
    BY <2>1, <2>2, <1>a DEF Saved, NothingLost
  <2>3. CASE file' = file
    BY <2>1, <2>3, <1>b DEF NothingLost
  <2> QED
    BY <2>1, <2>2, <2>3
<1>8. CASE UNCHANGED <<mine, file>>
  BY <1>8, <1>b DEF NothingLost
<1> QED
  BY <1>1, <1>2, <1>3, <1>4, <1>5, <1>6, <1>7, <1>8
  DEF Next, UploadNext, DeleteNext, HydrationNext, LaneNext, PeerWrites, UploadStarts,
      UploadPassesGate, UploadReads, UploadSends, UploadPosts, UploadAcked, RetryGateBlocked,
      DeleteFindsFile, DeletePassesGate, DeletePosts, DeleteAnswered, HydrationStarts,
      HydrationFetched, HydrationCompares, HydrationLocks, SelfDeleteExpires, LaneLists,
      LiveUnindexed, LiveIndexed, LiveFindsFile, TombstoneTaken, TombstoneFindsFile,
      TombstoneDecides, LaneFlushes, Reconcile, ReconcileStats, RepublishReads, RepublishSends,
      RepublishPosts, RepublishAcked, SweepFindsFile, SweepMissesFile, Persist

-----------------------------------------------------------------------------
(* A delete decision names the content it is about, a download what it       *)
(* writes.                                                                   *)
Expects(e) == e.decision = "delete" => e.expected # None
Named == hyd.at # "idle" => hyd.hash # None

(* A decision that is being executed has been stored.                        *)
Certified ==
  lane.at \in {"reconcile", "stable", "trash"} /\ entry.decision = "delete"
    => stored.entry.decision = "delete"

(* Who decides a delete: the lane for the file it has read, or a restart.    *)
LEMMA DecisionStep ==
  ASSUME TypeOK, Next
  PROVE  entry'.decision = "delete" =>
         \/ entry.decision = "delete" /\ entry'.expected = entry.expected
         \/ TombstoneDecides /\ file # None /\ entry'.expected = file
         \/ Crash
<1> DEFINE Goal == entry'.decision = "delete" =>
                   \/ entry.decision = "delete" /\ entry'.expected = entry.expected
                   \/ TombstoneDecides /\ file # None /\ entry'.expected = file
                   \/ Crash
<1> SUFFICES Goal
  OBVIOUS
<1> USE Fields
<1>a. entry \in Entries
  BY Fields
<1>1. CASE UserDeletes
  <2>1. entry' \in {entry, NoEntry}
    BY <1>1 DEF UserDeletes, OnFileDeleted
  <2> QED
    BY <2>1 DEF NoEntry
<1>2. ASSUME NEW u \in Slots, UploadSends(u) PROVE Goal
  <2>1. \/ entry'.decision = entry.decision /\ entry'.expected = entry.expected
        \/ entry'.decision # "delete"
    BY <1>2, <1>a DEF UploadSends, Skipped, Entries, NoEntry
  <2> QED
    BY <2>1
<1>3. ASSUME NEW u \in Slots, UploadAcked(u) PROVE Goal
  <2>1. \/ entry'.decision = entry.decision /\ entry'.expected = entry.expected
        \/ entry'.decision # "delete"
    BY <1>3, <1>a DEF UploadAcked, Entries, NoEntry
  <2> QED
    BY <2>1
<1>4. CASE DeleteAnswered
  <2>1. entry' \in {entry, NoEntry}
    BY <1>4 DEF DeleteAnswered, OnFileDeleted
  <2> QED
    BY <2>1 DEF NoEntry
<1>5. CASE HydrationLocks
  <2>1. \/ entry'.decision = entry.decision /\ entry'.expected = entry.expected
        \/ entry'.decision # "delete"
    BY <1>5, <1>a DEF HydrationLocks, Entries, NoEntry
  <2> QED
    BY <2>1
<1>6. CASE HydrationWritten
  <2>1. \/ entry'.decision = entry.decision /\ entry'.expected = entry.expected
        \/ entry'.decision # "delete"
    BY <1>6, EntryOverwritten
  <2> QED
    BY <2>1
<1>7. CASE HydrationWriteFails
  <2>1. \/ entry'.decision = entry.decision /\ entry'.expected = entry.expected
        \/ entry'.decision # "delete"
    BY <1>7, EntryOverwritten
  <2> QED
    BY <2>1
<1>8. CASE LiveUnindexed
  <2>1. \/ entry'.decision = entry.decision /\ entry'.expected = entry.expected
        \/ entry'.decision # "delete"
    BY <1>8, <1>a DEF LiveUnindexed, Entries, NoEntry
  <2> QED
    BY <2>1
<1>9. CASE LiveIndexed
  <2>1. \/ entry'.decision = entry.decision /\ entry'.expected = entry.expected
        \/ entry'.decision # "delete"
    BY <1>9, <1>a DEF LiveIndexed, Undecided, Recorded, Entries, NoEntry
  <2> QED
    BY <2>1
<1>10. CASE LiveFindsFile
  <2>1. \/ entry'.decision = entry.decision /\ entry'.expected = entry.expected
        \/ entry'.decision # "delete"
    BY <1>10, <1>a DEF LiveFindsFile, Undecided, Recorded, Entries, NoEntry
  <2> QED
    BY <2>1
<1>11. CASE TombstoneFindsFile
  <2>1. entry' \in {entry, NoEntry} \/ Decides("republish", None)
    BY <1>11 DEF TombstoneFindsFile
  <2>2. Decides("republish", None) => entry'.decision = "republish"
    BY DEF Decides, Entries
  <2> QED
    BY <2>1, <2>2 DEF NoEntry
<1>12. CASE TombstoneDecides
  <2>1. \/ entry' = entry
        \/ file # None /\ Decides("delete", file)
        \/ Decides("republish", None)
    BY <1>12 DEF TombstoneDecides
  <2>2. Decides("republish", None) => entry'.decision = "republish"
    BY DEF Decides, Entries
  <2>3. Decides("delete", file) => entry'.expected = file
    BY DEF Decides, Entries
  <2> QED
    BY <2>1, <2>2, <2>3, <1>12
<1>13. CASE Reconcile
  <2>1. entry' \in {entry, NoEntry} \/ RepublishInstead
    BY <1>13 DEF Reconcile
  <2>2. RepublishInstead => entry'.decision = "republish"
    BY DEF RepublishInstead, Entries
  <2> QED
    BY <2>1, <2>2 DEF NoEntry
<1>14. CASE ReconcileStats
  <2>1. entry' \in {entry, NoEntry} \/ RepublishInstead
    BY <1>14 DEF ReconcileStats
  <2>2. RepublishInstead => entry'.decision = "republish"
    BY DEF RepublishInstead, Entries
  <2> QED
    BY <2>1, <2>2 DEF NoEntry
<1>15. CASE ReconcileTrashes
  <2>1. entry' \in {entry, NoEntry}
    BY <1>15 DEF ReconcileTrashes, OnFileDeleted
  <2> QED
    BY <2>1 DEF NoEntry
<1>16. CASE RepublishPosts
  <2>1. \/ entry'.decision = entry.decision /\ entry'.expected = entry.expected
        \/ entry'.decision # "delete"
    BY <1>16, <1>a DEF RepublishPosts, Undecided, Entries, NoEntry
  <2> QED
    BY <2>1
<1>17. CASE RepublishAcked
  <2>1. \/ entry'.decision = entry.decision /\ entry'.expected = entry.expected
        \/ entry'.decision # "delete"
    BY <1>17, <1>a DEF RepublishAcked, Entries, NoEntry
  <2> QED
    BY <2>1
<1>18. CASE SweepMissesFile
  <2>1. entry' \in {entry, NoEntry}
    BY <1>18 DEF SweepMissesFile, OnFileDeleted
  <2> QED
    BY <2>1 DEF NoEntry
<1>19. CASE Crash
  BY <1>19
<1>20. CASE UNCHANGED entry
  BY <1>20
<1> QED
  BY <1>1, <1>2, <1>3, <1>4, <1>5, <1>6, <1>7, <1>8, <1>9, <1>10, <1>11, <1>12, <1>13, <1>14,
      <1>15, <1>16, <1>17, <1>18, <1>19, <1>20, EntryChanges

(* What reaches the index file.                                              *)
LEMMA StoredDecisionStep ==
  ASSUME TypeOK, Next
  PROVE  \/ Alike(stored.entry, stored'.entry)
         \/ stored'.entry = entry
         \/ RepublishInstead /\ stored'.entry = entry'
<1> DEFINE Goal == \/ Alike(stored.entry, stored'.entry)
                   \/ stored'.entry = entry
                   \/ RepublishInstead /\ stored'.entry = entry'
<1> SUFFICES Goal
  OBVIOUS
<1> USE Fields
<1>0. Alike(stored.entry, stored.entry)
  BY DEF Alike
<1>1. CASE LaneFlushes
  <2>1. \/ stored' \in {stored, [entry |-> entry, cursor |-> cursor]}
        \/ RepublishInstead /\ stored' \in {stored, [entry |-> entry', cursor |-> cursor]}
    BY <1>1 DEF LaneFlushes, RepublishInstead
  <2> QED
    BY <1>0, <2>1
<1>2. CASE Reconcile
  <2>1. \/ stored' \in {stored, [entry |-> entry, cursor |-> cursor]}
        \/ RepublishInstead /\ stored' \in {stored, [entry |-> entry', cursor |-> cursor]}
    BY <1>2 DEF Reconcile, RepublishInstead
  <2> QED
    BY <1>0, <2>1
<1>3. CASE ReconcileStats
  <2>1. \/ stored' \in {stored, [entry |-> entry, cursor |-> cursor]}
        \/ RepublishInstead /\ stored' \in {stored, [entry |-> entry', cursor |-> cursor]}
    BY <1>3 DEF ReconcileStats, RepublishInstead
  <2> QED
    BY <1>0, <2>1
<1>4. CASE Persist
  <2>1. \/ stored' \in {stored, [entry |-> entry, cursor |-> cursor]}
        \/ RepublishInstead /\ stored' \in {stored, [entry |-> entry', cursor |-> cursor]}
    BY <1>4 DEF Persist, RepublishInstead
  <2> QED
    BY <1>0, <2>1
<1>5. CASE HydrationWritten \/ HydrationWriteFails \/ Crash
  BY <1>5, Overwrites
<1>6. CASE UNCHANGED <<cursor, stored>>
  BY <1>0, <1>6
<1> QED
  BY <1>1, <1>2, <1>3, <1>4, <1>5, <1>6, StoredChanges

(* A download knows what it writes.                                          *)
LEMMA NamedStep ==
  ASSUME TypeOK, Next, Named
  PROVE  Named'
<1> USE Fields
<1>a. hyd \in Hydrations
  BY Fields
<1>1. CASE UserDeletes
  <2>1. hyd'.at = "idle" \/ (hyd.at # "idle" /\ hyd'.hash = hyd.hash)
    BY <1>1, <1>a DEF UserDeletes, OnFileDeleted, Hydrations, NoHydration
  <2> QED
    BY <2>1 DEF Named
<1>2. CASE HydrationStarts
  <2>1. hyd'.hash = entry.hash /\ entry.hash # None
    BY <1>2 DEF HydrationStarts
  <2> QED
    BY <2>1 DEF Named
<1>3. CASE HydrationFetched
  <2>1. hyd'.at = "idle" \/ (hyd.at # "idle" /\ hyd'.hash = hyd.hash)
    BY <1>3, <1>a DEF HydrationFetched, OnFileDeleted, Hydrations, NoHydration
  <2> QED
    BY <2>1 DEF Named
<1>4. CASE HydrationCompares
  <2>1. hyd'.at = "idle" \/ (hyd.at # "idle" /\ hyd'.hash = hyd.hash)
    BY <1>4, <1>a DEF HydrationCompares, OnFileDeleted, Hydrations, NoHydration
  <2> QED
    BY <2>1 DEF Named
<1>5. CASE HydrationLocks
  <2>1. hyd'.at = "idle" \/ (hyd.at # "idle" /\ hyd'.hash = hyd.hash)
    BY <1>5, <1>a DEF HydrationLocks, OnFileDeleted, Hydrations, NoHydration
  <2> QED
    BY <2>1 DEF Named
<1>6. CASE HydrationWritten
  <2>1. hyd'.at = "idle" \/ (hyd.at # "idle" /\ hyd'.hash = hyd.hash)
    BY <1>6, <1>a DEF HydrationWritten, OnFileDeleted, Hydrations, NoHydration
  <2> QED
    BY <2>1 DEF Named
<1>7. CASE HydrationWriteFails
  <2>1. hyd'.at = "idle" \/ (hyd.at # "idle" /\ hyd'.hash = hyd.hash)
    BY <1>7, <1>a DEF HydrationWriteFails, OnFileDeleted, Hydrations, NoHydration
  <2> QED
    BY <2>1 DEF Named
<1>8. CASE HydrationCompensates
  <2>1. hyd'.at = "idle" \/ (hyd.at # "idle" /\ hyd'.hash = hyd.hash)
    BY <1>8, <1>a DEF HydrationCompensates, OnFileDeleted, Hydrations, NoHydration
  <2> QED
    BY <2>1 DEF Named
<1>9. CASE ReconcileTrashes
  <2>1. hyd'.at = "idle" \/ (hyd.at # "idle" /\ hyd'.hash = hyd.hash)
    BY <1>9, <1>a DEF ReconcileTrashes, OnFileDeleted, Hydrations, NoHydration
  <2> QED
    BY <2>1 DEF Named
<1>10. CASE SweepMissesFile
  <2>1. hyd'.at = "idle" \/ (hyd.at # "idle" /\ hyd'.hash = hyd.hash)
    BY <1>10, <1>a DEF SweepMissesFile, OnFileDeleted, Hydrations, NoHydration
  <2> QED
    BY <2>1 DEF Named
<1>11. CASE Crash
  <2>1. hyd'.at = "idle" \/ (hyd.at # "idle" /\ hyd'.hash = hyd.hash)
    BY <1>11, <1>a DEF Crash, OnFileDeleted, Hydrations, NoHydration
  <2> QED
    BY <2>1 DEF Named
<1>12. CASE UNCHANGED hyd
  BY <1>12 DEF Named
<1> QED
  BY <1>1, <1>2, <1>3, <1>4, <1>5, <1>6, <1>7, <1>8, <1>9, <1>10, <1>11, <1>12, HydrationChanges

(* How the lane comes to execute decisions: the index was just stored.       *)
LEMMA ExecutionStep ==
  ASSUME TypeOK, Next
  PROVE  lane'.at \in {"reconcile", "stable", "trash"} =>
         \/ lane.at \in {"reconcile", "stable", "trash"}
         \/ stored'.entry = entry
         \/ Crash
<1> DEFINE Goal == lane'.at \in {"reconcile", "stable", "trash"} =>
                   \/ lane.at \in {"reconcile", "stable", "trash"}
                   \/ stored'.entry = entry
                   \/ Crash
<1> SUFFICES Goal
  OBVIOUS
<1> USE Fields
<1>a. lane \in Lanes
  BY Fields
<1>1. CASE LaneLists
  <2>1. lane'.at \in {"idle", "apply", "live", "stat", "read", "flush", "send", "post", "answer"}
    BY <1>1, <1>a DEF LaneLists, LaneGoes, Lanes, NoLane
  <2> QED
    BY <2>1
<1>2. CASE LiveUnindexed
  <2>1. lane'.at \in {"idle", "apply", "live", "stat", "read", "flush", "send", "post", "answer"}
    BY <1>2, <1>a DEF LiveUnindexed, LaneGoes, Lanes, NoLane
  <2> QED
    BY <2>1
<1>3. CASE LiveIndexed
  <2>1. lane'.at \in {"idle", "apply", "live", "stat", "read", "flush", "send", "post", "answer"}
    BY <1>3, <1>a DEF LiveIndexed, LaneGoes, Lanes, NoLane
  <2> QED
    BY <2>1
<1>4. CASE LiveFindsFile
  <2>1. lane'.at \in {"idle", "apply", "live", "stat", "read", "flush", "send", "post", "answer"}
    BY <1>4, <1>a DEF LiveFindsFile, LaneGoes, Lanes, NoLane
  <2> QED
    BY <2>1
<1>5. CASE TombstoneTaken
  <2>1. lane'.at \in {"idle", "apply", "live", "stat", "read", "flush", "send", "post", "answer"}
    BY <1>5, <1>a DEF TombstoneTaken, LaneGoes, Lanes, NoLane
  <2> QED
    BY <2>1
<1>6. CASE TombstoneFindsFile
  <2>1. lane'.at \in {"idle", "apply", "live", "stat", "read", "flush", "send", "post", "answer"}
    BY <1>6, <1>a DEF TombstoneFindsFile, LaneGoes, Lanes, NoLane
  <2> QED
    BY <2>1
<1>7. CASE TombstoneDecides
  <2>1. lane'.at \in {"idle", "apply", "live", "stat", "read", "flush", "send", "post", "answer"}
    BY <1>7, <1>a DEF TombstoneDecides, LaneGoes, Lanes, NoLane
  <2> QED
    BY <2>1
<1>8. CASE LaneFlushes
  <2>1. stored' = [entry |-> entry, cursor |-> cursor] \/ lane' = NoLane
    BY <1>8 DEF LaneFlushes
  <2> QED
    BY <2>1 DEF NoLane
<1>9. CASE Reconcile
  BY <1>9 DEF Reconcile
<1>10. CASE ReconcileStats
  BY <1>10 DEF ReconcileStats
<1>11. CASE ReconcileTrashes
  BY <1>11 DEF ReconcileTrashes
<1>12. CASE RepublishReads
  <2>1. lane'.at \in {"idle", "apply", "live", "stat", "read", "flush", "send", "post", "answer"}
    BY <1>12, <1>a DEF RepublishReads, LaneGoes, Lanes, NoLane
  <2> QED
    BY <2>1
<1>13. CASE RepublishSends
  <2>1. lane'.at \in {"idle", "apply", "live", "stat", "read", "flush", "send", "post", "answer"}
    BY <1>13, <1>a DEF RepublishSends, LaneGoes, Lanes, NoLane
  <2> QED
    BY <2>1
<1>14. CASE RepublishPosts
  <2>1. lane' = NoLane \/ lane' = [lane EXCEPT !.at = "answer", !.acked = row.seq + 1]
    BY <1>14 DEF RepublishPosts
  <2>2. NoLane.at = "idle" /\ [lane EXCEPT !.at = "answer", !.acked = row.seq + 1].at = "answer"
    BY <1>a DEF Lanes, NoLane
  <2> QED
    BY <2>1, <2>2
<1>15. CASE RepublishAcked
  <2>1. lane'.at \in {"idle", "apply", "live", "stat", "read", "flush", "send", "post", "answer"}
    BY <1>15, <1>a DEF RepublishAcked, LaneGoes, Lanes, NoLane
  <2> QED
    BY <2>1
<1>16. CASE Crash
  BY <1>16
<1>17. CASE UNCHANGED lane
  BY <1>17
<1> QED
  BY <1>1, <1>2, <1>3, <1>4, <1>5, <1>6, <1>7, <1>8, <1>9, <1>10, <1>11, <1>12, <1>13, <1>14,
      <1>15, <1>16, <1>17, LaneChanges

(* A decision keeps the content it is about, in memory and on disk.          *)
LEMMA ExpectsStep ==
  ASSUME TypeOK, Next, Expects(entry), Expects(stored.entry)
  PROVE  Expects(entry') /\ Expects(stored'.entry)
<1>1. Crash => /\ entry'.decision = stored.entry.decision
               /\ entry'.expected = stored.entry.expected
  BY Overwrites DEF Crash, Alike
<1>2. Expects(entry')
  BY <1>1, DecisionStep DEF Expects
<1>3. Expects(stored'.entry)
  BY <1>2, StoredDecisionStep DEF Expects, Alike
<1> QED
  BY <1>2, <1>3

(* A decision is on disk before it is executed.                              *)
LEMMA CertifiedStep ==
  ASSUME TypeOK, Next, Certified
  PROVE  Certified'
<1> SUFFICES ASSUME lane'.at \in {"reconcile", "stable", "trash"}, entry'.decision = "delete"
             PROVE  stored'.entry.decision = "delete"
  BY DEF Certified
<1>1. CASE Crash
  BY <1>1 DEF Crash
<1>2. CASE TombstoneDecides
  <2>1. lane' = NoLane \/ lane' = [lane EXCEPT !.at = "flush"]
    BY <1>2 DEF TombstoneDecides, LaneGoes
  <2>2. lane'.at \in {"idle", "flush"}
    BY <2>1, Fields DEF NoLane, Lanes
  <2> QED
    BY <2>2
<1>3. CASE ~Crash /\ ~TombstoneDecides
  <2>1. entry.decision = "delete"
    BY <1>3, DecisionStep
  <2>2. RepublishInstead => entry'.decision # "delete"
    BY Fields DEF RepublishInstead, Entries
  <2>3. stored'.entry.decision = stored.entry.decision \/ stored'.entry = entry
    BY <2>2, StoredDecisionStep DEF Alike
  <2>4. lane.at \in {"reconcile", "stable", "trash"} \/ stored'.entry = entry
    BY <1>3, ExecutionStep
  <2> QED
    BY <2>1, <2>3, <2>4 DEF Certified
<1> QED
  BY <1>1, <1>2, <1>3

(* What has no file, and was not removed by the user or by a compensation:   *)
(* neither a sweep nor an upload or a republication on its way can make a    *)
(* delete of it that is published.                                           *)
Unpublished(e) == e.hash = None \/ ~e.hydrated \/ e.skipped \/ e.decision = "delete"

Gone == file = None /\ gone \notin {"user", "undone"} /\ "strayed" \notin lapses

Inert ==
  /\ Unpublished(entry) /\ Unpublished(stored.entry)
  /\ entry.decision = "delete" => lane.at = "reconcile"
  /\ \A u \in Slots : ups[u].at \in {"idle", "gate", "read"}
  /\ lane.at \notin {"stable", "trash", "send", "post", "answer"}

Quiet == Gone => Inert

(* While the file is away, each part of Inert is kept.                       *)
LEMMA InertEntryStep ==
  ASSUME TypeOK, Next, Inert, file = None, file' = None, Expects(entry), Named
  PROVE  Unpublished(entry')
<1> USE Fields
<1>a. entry \in Entries
  BY Fields
<1>1. CASE UserDeletes
  BY <1>1 DEF UserDeletes, Inert
<1>2. ASSUME NEW u \in Slots, UploadSends(u) PROVE Unpublished(entry')
  BY <1>2 DEF UploadSends, Inert
<1>3. ASSUME NEW u \in Slots, UploadAcked(u) PROVE Unpublished(entry')
  BY <1>3 DEF UploadAcked, Inert
<1>4. CASE DeleteAnswered
  <2>1. entry' \in {entry, NoEntry}
    BY <1>4 DEF DeleteAnswered, OnFileDeleted
  <2> QED
    BY <2>1 DEF NoEntry, Unpublished, Inert
<1>5. CASE HydrationLocks
  <2>1. \/ /\ entry'.hash = entry.hash /\ entry'.hydrated = entry.hydrated
           /\ entry'.skipped = entry.skipped /\ entry'.decision = entry.decision
        \/ entry'.hash = None \/ entry'.hydrated = FALSE
    BY <1>5, <1>a DEF HydrationLocks, Entries, NoEntry
  <2> QED
    BY <2>1 DEF Unpublished, Inert
<1>6. CASE HydrationWritten
  BY <1>6 DEF HydrationWritten, Named
<1>7. CASE HydrationWriteFails
  <2>0. ~HydrationWritten
    BY <1>7 DEF HydrationWriteFails, HydrationWritten, Fault
  <2>1. \/ /\ entry'.hash = entry.hash /\ entry'.hydrated = entry.hydrated
           /\ entry'.skipped = entry.skipped /\ entry'.decision = entry.decision
        \/ entry'.hydrated = FALSE
    BY <1>7, <2>0, EntryOverwritten
  <2> QED
    BY <2>1 DEF Unpublished, Inert
<1>8. CASE LiveUnindexed
  <2>1. \/ /\ entry'.hash = entry.hash /\ entry'.hydrated = entry.hydrated
           /\ entry'.skipped = entry.skipped /\ entry'.decision = entry.decision
        \/ entry'.hash = None \/ entry'.hydrated = FALSE
    BY <1>8, <1>a DEF LiveUnindexed, Entries, NoEntry
  <2> QED
    BY <2>1 DEF Unpublished, Inert
<1>9. CASE LiveIndexed
  <2>1. \/ entry' = entry
        \/ entry' = Undecided(entry) /\ entry.decision # "delete"
        \/ entry' = Recorded(entry)
    BY <1>9 DEF LiveIndexed, Inert
  <2>2. CASE entry' = entry
    BY <2>2 DEF Inert
  <2>3. CASE entry' = Undecided(entry) /\ entry.decision # "delete"
    BY <2>3, <1>a DEF Undecided, Entries, Unpublished, Inert
  <2>4. CASE entry' = Recorded(entry)
    BY <2>4, <1>a DEF Recorded, Entries, Unpublished, Inert
  <2> QED
    BY <2>1, <2>2, <2>3, <2>4
<1>10. CASE LiveFindsFile
  <2>1. \/ /\ entry'.hash = entry.hash /\ entry'.hydrated = entry.hydrated
           /\ entry'.skipped = entry.skipped /\ entry'.decision = entry.decision
        \/ entry'.hash = None \/ entry'.hydrated = FALSE
    BY <1>10, <1>a DEF LiveFindsFile, Recorded, Entries, NoEntry
  <2> QED
    BY <2>1 DEF Unpublished, Inert
<1>11. CASE TombstoneFindsFile
  <2>1. entry' \in {entry, NoEntry}
    BY <1>11 DEF TombstoneFindsFile, OnFileDeleted
  <2> QED
    BY <2>1 DEF NoEntry, Unpublished, Inert
<1>12. CASE TombstoneDecides
  <2>1. entry' \in {entry, NoEntry}
    BY <1>12 DEF TombstoneDecides, OnFileDeleted
  <2> QED
    BY <2>1 DEF NoEntry, Unpublished, Inert
<1>13. CASE Reconcile
  <2>1. entry' \in {entry, NoEntry}
    BY <1>13 DEF Reconcile, OnFileDeleted
  <2> QED
    BY <2>1 DEF NoEntry, Unpublished, Inert
<1>14. CASE ReconcileStats
  BY <1>14 DEF ReconcileStats, Inert
<1>15. CASE ReconcileTrashes
  BY <1>15 DEF ReconcileTrashes, Inert
<1>16. CASE RepublishPosts
  BY <1>16 DEF RepublishPosts, Inert
<1>17. CASE RepublishAcked
  BY <1>17 DEF RepublishAcked, Inert
<1>18. CASE SweepMissesFile
  <2>1. entry' \in {entry, NoEntry}
    BY <1>18 DEF SweepMissesFile, OnFileDeleted
  <2> QED
    BY <2>1 DEF NoEntry, Unpublished, Inert
<1>19. CASE Crash
  BY <1>19, Overwrites DEF Crash, Inert, Alike, Unpublished
<1>20. CASE UNCHANGED entry
  BY <1>20 DEF Inert, Unpublished
<1> QED
  BY <1>1, <1>2, <1>3, <1>4, <1>5, <1>6, <1>7, <1>8, <1>9, <1>10, <1>11, <1>12, <1>13, <1>14,
      <1>15, <1>16, <1>17, <1>18, <1>19, <1>20, EntryChanges

LEMMA InertStoredStep ==
  ASSUME TypeOK, Next, Inert, file = None, file' = None, Expects(entry), Named
  PROVE  Unpublished(stored'.entry)
<1>1. Alike(stored.entry, stored'.entry) \/ stored'.entry = entry \/ stored'.entry = entry'
  BY StoredDecisionStep
<1>2. Unpublished(entry')
  BY InertEntryStep
<1> QED
  BY <1>1, <1>2 DEF Inert, Unpublished, Alike

LEMMA InertLaneStep ==
  ASSUME TypeOK, Next, Inert, file = None, file' = None, Expects(entry)
  PROVE  lane'.at \notin {"stable", "trash", "send", "post", "answer"}
<1> DEFINE Goal == lane'.at \notin {"stable", "trash", "send", "post", "answer"}
<1> SUFFICES Goal
  OBVIOUS
<1> USE Fields
<1>a. lane \in Lanes
  BY Fields
<1>1. CASE LaneLists
  <2>1. lane'.at \in {"idle", "apply", "live", "stat", "read", "flush", "reconcile"}
    BY <1>1, <1>a DEF LaneLists, LaneGoes, Lanes, NoLane
  <2> QED
    BY <2>1
<1>2. CASE LiveUnindexed
  <2>1. lane'.at \in {"idle", "apply", "live", "stat", "read", "flush", "reconcile"}
    BY <1>2, <1>a DEF LiveUnindexed, LaneGoes, Lanes, NoLane
  <2> QED
    BY <2>1
<1>3. CASE LiveIndexed
  <2>1. lane'.at \in {"idle", "apply", "live", "stat", "read", "flush", "reconcile"}
    BY <1>3, <1>a DEF LiveIndexed, LaneGoes, Lanes, NoLane
  <2> QED
    BY <2>1
<1>4. CASE LiveFindsFile
  <2>1. lane'.at \in {"idle", "apply", "live", "stat", "read", "flush", "reconcile"}
    BY <1>4, <1>a DEF LiveFindsFile, LaneGoes, Lanes, NoLane
  <2> QED
    BY <2>1
<1>5. CASE TombstoneTaken
  <2>1. lane'.at \in {"idle", "apply", "live", "stat", "read", "flush", "reconcile"}
    BY <1>5, <1>a DEF TombstoneTaken, LaneGoes, Lanes, NoLane
  <2> QED
    BY <2>1
<1>6. CASE TombstoneFindsFile
  <2>1. lane'.at \in {"idle", "apply", "live", "stat", "read", "flush", "reconcile"}
    BY <1>6, <1>a DEF TombstoneFindsFile, LaneGoes, Lanes, NoLane
  <2> QED
    BY <2>1
<1>7. CASE TombstoneDecides
  <2>1. lane'.at \in {"idle", "apply", "live", "stat", "read", "flush", "reconcile"}
    BY <1>7, <1>a DEF TombstoneDecides, LaneGoes, Lanes, NoLane
  <2> QED
    BY <2>1
<1>8. CASE LaneFlushes
  <2>1. lane'.at \in {"idle", "apply", "live", "stat", "read", "flush", "reconcile"}
    BY <1>8, <1>a DEF LaneFlushes, LaneGoes, Lanes, NoLane
  <2> QED
    BY <2>1
<1>9. CASE Reconcile
  <2>1. lane' = NoLane \/ lane' = [lane EXCEPT !.at = "republish", !.seq = entry.seq]
    BY <1>9 DEF Reconcile, Expects, RepublishInstead
  <2>2. NoLane.at = "idle" /\ [lane EXCEPT !.at = "republish", !.seq = entry.seq].at = "republish"
    BY <1>a DEF Lanes, NoLane
  <2> QED
    BY <2>1, <2>2
<1>10. CASE ReconcileStats
  BY <1>10 DEF ReconcileStats, Inert
<1>11. CASE ReconcileTrashes
  BY <1>11 DEF ReconcileTrashes, Inert
<1>12. CASE RepublishReads
  <2>1. lane'.at \in {"idle", "apply", "live", "stat", "read", "flush", "reconcile"}
    BY <1>12, <1>a DEF RepublishReads, LaneGoes, Lanes, NoLane
  <2> QED
    BY <2>1
<1>13. CASE RepublishSends
  BY <1>13 DEF RepublishSends, Inert
<1>14. CASE RepublishPosts
  BY <1>14 DEF RepublishPosts, Inert
<1>15. CASE RepublishAcked
  BY <1>15 DEF RepublishAcked, Inert
<1>16. CASE Crash
  <2>1. lane'.at = "reconcile"
    BY <1>16 DEF Crash, NoLane
  <2> QED
    BY <2>1
<1>17. CASE UNCHANGED lane
  BY <1>17 DEF Inert
<1> QED
  BY <1>1, <1>2, <1>3, <1>4, <1>5, <1>6, <1>7, <1>8, <1>9, <1>10, <1>11, <1>12, <1>13, <1>14,
      <1>15, <1>16, <1>17, LaneChanges

LEMMA InertUploadsStep ==
  ASSUME TypeOK, Next, Inert, file = None, file' = None
  PROVE  \A v \in Slots :
         ups'[v].at \in {"idle", "gate", "read"}
<1> DEFINE Goal == \A v \in Slots :
                   ups'[v].at \in {"idle", "gate", "read"}
<1> SUFFICES Goal
  OBVIOUS
<1> USE Fields
<1>1. ASSUME NEW u \in Slots, UploadStarts(u) PROVE Goal
  BY <1>1 DEF UploadStarts, Inert, Uploads, NoUpload
<1>2. ASSUME NEW u \in Slots, UploadPassesGate(u) PROVE Goal
  BY <1>2 DEF UploadPassesGate, UploadEnds, Fault, NoFault, Inert, Uploads, NoUpload
<1>3. ASSUME NEW u \in Slots, UploadReads(u) PROVE Goal
  BY <1>3 DEF UploadReads, UploadEnds, Inert, Uploads, NoUpload
<1>4. ASSUME NEW u \in Slots, UploadSends(u) PROVE Goal
  BY <1>4 DEF UploadSends, Inert
<1>5. ASSUME NEW u \in Slots, UploadPosts(u) PROVE Goal
  BY <1>5 DEF UploadPosts, Inert
<1>6. ASSUME NEW u \in Slots, UploadAcked(u) PROVE Goal
  BY <1>6 DEF UploadAcked, Inert
<1>7. CASE Crash
  BY <1>7 DEF Crash, Fault, Bounded, Inert, Uploads, NoUpload
<1>8. CASE UNCHANGED ups
  BY <1>8 DEF Inert, Uploads, NoUpload
<1> QED
  BY <1>1, <1>2, <1>3, <1>4, <1>5, <1>6, <1>7, <1>8, UploadsChange

LEMMA InertDecisionStep ==
  ASSUME TypeOK, Next, Inert, file = None, file' = None, Expects(entry)
  PROVE  entry'.decision = "delete" => lane'.at = "reconcile"
<1> USE Fields
<1>a. entry \in Entries /\ lane \in Lanes
  BY Fields
<1>b. Crash => lane'.at = "reconcile"
  BY DEF Crash, NoLane
<1>c. entry'.decision = "delete" => entry.decision = "delete" \/ lane'.at = "reconcile"
  BY <1>b, DecisionStep DEF TombstoneDecides
<1>1. CASE LaneLists
  <2>1. lane.at # "reconcile"
    BY <1>1 DEF LaneLists
  <2> QED
    BY <2>1, <1>c DEF Inert
<1>2. CASE LiveUnindexed
  <2>1. lane.at # "reconcile"
    BY <1>2 DEF LiveUnindexed
  <2> QED
    BY <2>1, <1>c DEF Inert
<1>3. CASE LiveIndexed
  <2>1. lane.at # "reconcile"
    BY <1>3 DEF LiveIndexed
  <2> QED
    BY <2>1, <1>c DEF Inert
<1>4. CASE LiveFindsFile
  <2>1. lane.at # "reconcile"
    BY <1>4 DEF LiveFindsFile
  <2> QED
    BY <2>1, <1>c DEF Inert
<1>5. CASE TombstoneTaken
  <2>1. lane.at # "reconcile"
    BY <1>5 DEF TombstoneTaken
  <2> QED
    BY <2>1, <1>c DEF Inert
<1>6. CASE TombstoneFindsFile
  <2>1. lane.at # "reconcile"
    BY <1>6 DEF TombstoneFindsFile
  <2> QED
    BY <2>1, <1>c DEF Inert
<1>7. CASE TombstoneDecides
  <2>1. lane.at # "reconcile"
    BY <1>7 DEF TombstoneDecides
  <2> QED
    BY <2>1, <1>c DEF Inert
<1>8. CASE LaneFlushes
  <2>1. lane.at # "reconcile"
    BY <1>8 DEF LaneFlushes
  <2> QED
    BY <2>1, <1>c DEF Inert
<1>9. CASE Reconcile
  <2>1. entry' = NoEntry \/ entry.decision # "delete"
    <3> SUFFICES ASSUME entry.decision = "delete" PROVE entry' = NoEntry
      OBVIOUS
    <3>1. entry.expected # None
      BY DEF Expects
    <3> QED
      BY <1>9, <3>1 DEF Reconcile, Decided
  <2> QED
    BY <2>1, <1>c DEF NoEntry
<1>10. CASE ReconcileStats
  <2>1. lane.at # "reconcile"
    BY <1>10 DEF ReconcileStats
  <2> QED
    BY <2>1, <1>c DEF Inert
<1>11. CASE ReconcileTrashes
  <2>1. lane.at # "reconcile"
    BY <1>11 DEF ReconcileTrashes
  <2> QED
    BY <2>1, <1>c DEF Inert
<1>12. CASE RepublishReads
  <2>1. lane.at # "reconcile"
    BY <1>12 DEF RepublishReads
  <2> QED
    BY <2>1, <1>c DEF Inert
<1>13. CASE RepublishSends
  <2>1. lane.at # "reconcile"
    BY <1>13 DEF RepublishSends
  <2> QED
    BY <2>1, <1>c DEF Inert
<1>14. CASE RepublishPosts
  <2>1. lane.at # "reconcile"
    BY <1>14 DEF RepublishPosts
  <2> QED
    BY <2>1, <1>c DEF Inert
<1>15. CASE RepublishAcked
  <2>1. lane.at # "reconcile"
    BY <1>15 DEF RepublishAcked
  <2> QED
    BY <2>1, <1>c DEF Inert
<1>16. CASE Crash
  <2>1. lane'.at = "reconcile"
    BY <1>16 DEF Crash, NoLane
  <2> QED
    BY <2>1
<1>17. CASE UNCHANGED lane
  <2>1. lane' = lane
    BY <1>17
  <2>2. entry.decision = "delete" => lane.at = "reconcile"
    BY DEF Inert
  <2> QED
    BY <2>1, <2>2, <1>c, <1>b, Zenon
<1> QED
  BY <1>1, <1>2, <1>3, <1>4, <1>5, <1>6, <1>7, <1>8, <1>9, <1>10, <1>11, <1>12, <1>13, <1>14,
      <1>15, <1>16, <1>17, LaneChanges

(* The file goes, and not by the user or a compensation, only when a delete  *)
(* that was stored is executed.                                              *)
LEMMA GoneStep ==
  ASSUME TypeOK, Next, Gone', Named
  PROVE  \/ Gone
         \/ /\ entry' = NoEntry /\ stored' = stored /\ lane' = NoLane /\ ups' = ups
            /\ lane.at = "trash" /\ entry.decision = "delete" /\ ~Uploading
<1> USE Grows
<1>a. file' = None /\ gone' \notin {"user", "undone"} /\ "strayed" \notin lapses /\ Torn # None
  BY DEF Gone, Torn, None
<1>1. CASE UserWrites
  BY <1>1, <1>a, Fields DEF UserWrites, None
<1>2. CASE UserDeletes
  BY <1>2, <1>a DEF UserDeletes
<1>3. CASE HydrationWritten
  BY <1>3, <1>a DEF HydrationWritten, Named
<1>4. CASE HydrationWriteFails
  <2>1. file' = file /\ gone' = gone
    BY <1>4, <1>a DEF HydrationWriteFails
  <2> QED
    BY <2>1, <1>a DEF Gone
<1>5. CASE HydrationCompensates
  <2>1. file' = file /\ gone' = gone
    BY <1>5, <1>a DEF HydrationCompensates
  <2> QED
    BY <2>1, <1>a DEF Gone
<1>6. CASE ReconcileTrashes
  <2>1. CASE file' = file /\ gone' = gone
    BY <2>1, <1>a DEF Gone
  <2>2. CASE ~(file' = file /\ gone' = gone)
    <3>1. /\ Holds("delete") /\ OnFileDeleted /\ lane' = NoLane /\ stored' = stored /\ ups' = ups
          /\ lane.at = "trash"
          /\ lapses' = (IF Uploading \/ selfDelete THEN lapses \cup {"strayed"} ELSE lapses)
      BY <1>6, <2>2 DEF ReconcileTrashes
    <3>2. ~Uploading /\ ~selfDelete
      BY <3>1, <1>a DEF Gone
    <3>3. entry.decision = "delete"
      BY <3>1 DEF Holds
    <3>4. entry' = NoEntry
      BY <3>1, <3>2, <3>3 DEF OnFileDeleted
    <3> QED
      BY <3>1, <3>2, <3>3, <3>4
  <2> QED
    BY <2>1, <2>2
<1>7. CASE Crash
  <2>1. file' = file /\ gone' = gone
    BY <1>7, <1>a DEF Crash, Named
  <2> QED
    BY <2>1, <1>a DEF Gone
<1>8. CASE UNCHANGED <<file, gone>>
  BY <1>8, <1>a DEF Gone
<1> QED
  BY <1>1, <1>2, <1>3, <1>4, <1>5, <1>6, <1>7, <1>8
  DEF Next, UploadNext, DeleteNext, HydrationNext, LaneNext, PeerWrites, UploadStarts,
      UploadPassesGate, UploadReads, UploadSends, UploadPosts, UploadAcked, RetryGateBlocked,
      DeleteFindsFile, DeletePassesGate, DeletePosts, DeleteAnswered, HydrationStarts,
      HydrationFetched, HydrationCompares, HydrationLocks, SelfDeleteExpires, LaneLists,
      LiveUnindexed, LiveIndexed, LiveFindsFile, TombstoneTaken, TombstoneFindsFile,
      TombstoneDecides, LaneFlushes, Reconcile, ReconcileStats, RepublishReads, RepublishSends,
      RepublishPosts, RepublishAcked, SweepFindsFile, SweepMissesFile, Persist

(* So what has no file stays inert.                                          *)
LEMMA QuietStep ==
  ASSUME TypeOK, Next, Expects(entry), Named, Certified, Quiet
  PROVE  Quiet'
<1> SUFFICES ASSUME Gone' PROVE Inert'
  BY DEF Quiet
<1>1. CASE Gone
  <2>1. Inert /\ file = None /\ file' = None
    BY <1>1 DEF Quiet, Gone
  <2>2. Unpublished(entry') /\ Unpublished(stored'.entry)
    BY <2>1, InertEntryStep, InertStoredStep
  <2>3. entry'.decision = "delete" => lane'.at = "reconcile"
    BY <2>1, InertDecisionStep
  <2>4. \A u \in Slots : ups'[u].at \in {"idle", "gate", "read"}
    BY <2>1, InertUploadsStep
  <2>5. lane'.at \notin {"stable", "trash", "send", "post", "answer"}
    BY <2>1, InertLaneStep
  <2>6. Unpublished(entry)' /\ Unpublished(stored.entry)'
    BY <2>2 DEF Unpublished
  <2> QED
    BY <2>3, <2>4, <2>5, <2>6 DEF Inert
<1>2. CASE ~Gone
  <2>1. /\ entry' = NoEntry /\ stored' = stored /\ lane' = NoLane /\ ups' = ups
        /\ lane.at = "trash" /\ entry.decision = "delete" /\ ~Uploading
    BY <1>2, GoneStep
  <2>2. stored.entry.decision = "delete"
    BY <2>1 DEF Certified
  <2>3. Unpublished(entry)' /\ Unpublished(stored.entry)'
    BY <2>1, <2>2 DEF Unpublished, NoEntry
  <2>4. \A u \in Slots : ups'[u].at = "idle"
    BY <2>1 DEF Uploading
  <2>5. entry'.decision # "delete" /\ lane'.at = "idle"
    BY <2>1 DEF NoEntry, NoLane
  <2> QED
    BY <2>3, <2>4, <2>5 DEF Inert
<1> QED
  BY <1>1, <1>2

-----------------------------------------------------------------------------
(* The inductive invariant.                                                  *)
IInv ==
  /\ TypeOK
  /\ Backed /\ Saved /\ NothingLost
  /\ Expects(entry) /\ Expects(stored.entry) /\ Named /\ Certified /\ Quiet

(* It holds at the start, every step keeps it, and so it holds always.       *)
LEMMA InitInv == Init => IInv
<1> SUFFICES ASSUME Init PROVE IInv
  OBVIOUS
<1> USE Blanks
<1>1. Synced.hash = 1 /\ Synced.base = 1 /\ Synced.decision = "none"
  BY DEF Synced, NoEntry
<1>2. 1 \in Seqs /\ 1 \in Contents
  BY DEF Seqs, Contents, None, Torn
<1>3. Synced \in Entries
  BY <1>2 DEF Synced, Entries
<1>4. TypeOK
  <2>1. row \in [seq: Seqs, live: BOOLEAN, hash: Contents] /\ published \subseteq Contents
    <3>1. CASE row = [seq |-> 0, live |-> FALSE, hash |-> None] /\ published = {}
      BY <3>1
    <3>2. CASE row = [seq |-> 1, live |-> TRUE, hash |-> 1] /\ published = {1}
      BY <3>2, <1>2
    <3> QED
      BY <3>1, <3>2 DEF Init
  <2>2. file \in Contents /\ entry \in Entries /\ cursor \in Seqs /\ fresh \in 1..MaxContents + 1
    BY <1>2, <1>3 DEF Init
  <2>3. stored \in [entry: Entries, cursor: Seqs]
    BY <2>2 DEF Init
  <2>4. {queued, gateBlocked, superseded, selfDelete} \subseteq BOOLEAN /\ waiting \in 0..2
    <3>1. /\ queued = FALSE /\ gateBlocked = FALSE /\ superseded = FALSE /\ selfDelete = FALSE
          /\ waiting = 0
      BY DEF Init
    <3>2. {queued, gateBlocked, superseded, selfDelete} = {FALSE}
      BY <3>1
    <3>3. {queued, gateBlocked, superseded, selfDelete} \subseteq BOOLEAN
      BY <3>2
    <3>4. waiting \in 0..2
      BY <3>1
    <3> QED
      BY <3>3, <3>4
  <2>5. ups \in [Slots -> Uploads]
    BY DEF Init
  <2> QED
    BY <2>1, <2>2, <2>3, <2>4, <2>5 DEF TypeOK, Init
<1>5. Backed
  <2>1. entry.hash \in Had /\ entry.base \in Had /\ row.hash \in Had
    BY <1>1 DEF Init, Had, NoEntry
  <2> QED
    BY <2>1 DEF Backed, RowHad, EntryHad, StoredHad, HydrationHad, LaneHad, UploadsHad, Init, Had,
        NoHydration, NoLane, NoUpload
<1>6. Saved /\ NothingLost
  BY DEF Saved, NothingLost, Init, NoHydration
<1>7. entry.decision = "none" /\ stored.entry = entry
  BY <1>1 DEF Init, NoEntry
<1>8. Expects(entry) /\ Expects(stored.entry) /\ Named /\ Certified
  BY <1>7 DEF Expects, Named, Certified, Init, NoHydration
<1>9. Quiet
  BY <1>7 DEF Quiet, Gone, Inert, Unpublished, Init, NoUpload, NoLane, NoEntry, None
<1> QED
  BY <1>4, <1>5, <1>6, <1>8, <1>9 DEF IInv

LEMMA NextInv == IInv /\ [Next]_vars => IInv'
<1> SUFFICES ASSUME IInv, [Next]_vars PROVE IInv'
  OBVIOUS
<1>1. CASE Next
  <2> USE <1>1 DEF IInv
  <2>1. TypeOK'
    <3>1. ServerTypes' /\ FileTypes' /\ EntryTypes' /\ StoredTypes'
      BY ServerTypesStep, FileTypesStep, EntryTypesStep, StoredTypesStep
    <3>2. QueueTypes' /\ FlagTypes' /\ UploadTypes' /\ DeleteTypes'
      BY QueueTypesStep, FlagTypesStep, UploadTypesStep, DeleteTypesStep
    <3>3. HydrationTypes' /\ LaneTypes' /\ HistoryTypes' /\ CounterTypes'
      BY HydrationTypesStep, LaneTypesStep, HistoryTypesStep, CounterTypesStep
    <3> QED
      BY <3>1, <3>2, <3>3
      DEF TypeOK, ServerTypes, FileTypes, EntryTypes, StoredTypes, QueueTypes, FlagTypes,
          UploadTypes, DeleteTypes, HydrationTypes, LaneTypes, HistoryTypes, CounterTypes
  <2>2. RowHad' /\ EntryHad' /\ StoredHad' /\ HydrationHad' /\ LaneHad' /\ UploadsHad'
    <3>1. RowHad
      BY DEF Backed
    <3> QED
      BY <3>1, RowHadStep, EntryHadStep, StoredHadStep, HydrationHadStep, LaneHadStep,
          UploadsHadStep
  <2>3. Backed'
    BY <2>2 DEF Backed
  <2>4. Saved' /\ NothingLost'
    BY SavedStep, NothingLostStep
  <2>5. Expects(entry)' /\ Expects(stored.entry)'
    BY ExpectsStep DEF Expects
  <2>6. Named' /\ Certified' /\ Quiet'
    BY NamedStep, CertifiedStep, QuietStep
  <2> QED
    BY <2>1, <2>3, <2>4, <2>5, <2>6
<1>2. CASE UNCHANGED vars
  <2> USE <1>2 DEF IInv, vars
  <2>1. TypeOK'
    BY DEF TypeOK
  <2>2. Backed' /\ Saved' /\ NothingLost'
    BY DEF Backed, RowHad, EntryHad, StoredHad, HydrationHad, LaneHad, UploadsHad, Had, Saved,
        NothingLost
  <2>3. Expects(entry)' /\ Expects(stored.entry)' /\ Named' /\ Certified'
    BY DEF Expects, Named, Certified
  <2>4. Quiet'
    BY DEF Quiet, Gone, Inert, Unpublished
  <2> QED
    BY <2>1, <2>2, <2>3, <2>4
<1> QED
  BY <1>1, <1>2

LEMMA Invariant == Spec => []IInv
  BY InitInv, NextInv, PTL DEF Spec

(* Every variable keeps to its type, for any number of upload slots,         *)
(* contents, rows, user operations and faults.                               *)
THEOREM TypeCorrect == Spec => []TypeOK
<1>1. IInv => TypeOK
  BY DEF IInv
<1> QED
  BY <1>1, Invariant, PTL

(* What the user wrote last is never lost through the client: what a         *)
(* download writes over was had by the server or was copied, and what is     *)
(* trashed is in the trash.                                                  *)
THEOREM LastEditSurvives == Spec => []NothingLost
<1>1. IInv => NothingLost
  BY DEF IInv
<1> QED
  BY <1>1, Invariant, PTL

(* A delete is published only for a file that the user deleted or that a     *)
(* compensation removed: the event of the client's own trash, and what a     *)
(* crash or a sweep finds of it, is never taken for a delete by the user.    *)
THEOREM PeerDeletesStayPrivate == Spec => RemoteDeletesNotEchoed
<1>1. IInv /\ [Next]_vars =>
        [Publishes /\ "strayed" \notin lapses => gone' \in {"user", "undone"}]_vars
  <2> SUFFICES ASSUME IInv, Next, del.at = "idle", del'.at # "idle", "strayed" \notin lapses
               PROVE  gone' \in {"user", "undone"}
    BY DEF Publishes
  <2>1. UserDeletes \/ ReconcileTrashes \/ SweepMissesFile
    <3>1. \/ UserDeletes \/ ReconcileTrashes \/ SweepMissesFile \/ DeleteNext
          \/ Crash
          \/ UNCHANGED del
      BY DeleteChanges DEF DeleteNext
    <3>2. DeleteNext => del.at # "idle"
      BY DEF DeleteNext, DeleteFindsFile, DeletePassesGate, DeletePosts, DeleteAnswered
    <3>3. Crash => del'.at = "idle"
      BY DEF Crash, NoDelete
    <3> QED
      BY <3>1, <3>2, <3>3
  <2>2. CASE UserDeletes
    BY <2>2 DEF UserDeletes
  <2>3. CASE ReconcileTrashes
    <3>1. OnFileDeleted /\ Holds("delete")
      BY <2>3 DEF ReconcileTrashes
    <3>2. del' = del
      BY <3>1 DEF OnFileDeleted, Holds
    <3> QED
      BY <3>2
  <2>4. CASE SweepMissesFile
    <3>1. MissesFile /\ OnFileDeleted /\ gone' = gone
      BY <2>4 DEF SweepMissesFile
    <3>2. entry.hash # None
      BY <3>1 DEF OnFileDeleted
    <3>3. ~Unpublished(entry)
      BY <3>1, <3>2 DEF MissesFile, Unpublished, Decided
    <3>4. ~Gone
      BY <3>3 DEF IInv, Quiet, Inert
    <3> QED
      BY <3>1, <3>4 DEF Gone, MissesFile
  <2> QED
    BY <2>1, <2>2, <2>3, <2>4
<1> QED
  BY <1>1, Invariant, PTL DEF Spec, RemoteDeletesNotEchoed

-----------------------------------------------------------------------------
(* RestIsNoticed. What the index takes for known it does know: an entry is   *)
(* never ahead of the server, and what the cursor has passed is in the       *)
(* entry.                                                                    *)
Clean == {"passed", "unseen", "unposted"} \cap lapses = {}
Walking == {"apply", "live", "stat", "read", "flush"}

(* Nothing has a number that the server has not given yet.                   *)
RowNumbers ==
  /\ row.live => row.seq > 0
  /\ row.seq > 0 => row.hash # None
  /\ (entry.hash # None \/ stored.entry.hash # None \/ del.at # "idle") => row.seq > 0
IndexNumbers ==
  /\ cursor <= row.seq /\ stored.cursor <= row.seq
  /\ entry.seq <= row.seq /\ stored.entry.seq <= row.seq /\ del.seq <= row.seq
LaneNumbers ==
  /\ lane.seq <= row.seq /\ lane.acked <= row.seq
  /\ lane.at \in Walking => lane.seq > cursor
  /\ lane.at = "answer" => lane.acked > cursor
  /\ lane.at \in {"send", "post", "answer"} => lane.hash # None
  /\ lane.at \in {"apply", "live"} => ~lane.deferred
  /\ lane.at = "live" => entry.decision = "none" /\ lane.live
  /\ lane.at \in {"stat", "read"} => ~lane.live /\ ~lane.deferred
LaneCurrent ==
  /\ lane.at \in Walking /\ lane.seq = row.seq => lane.live = row.live /\ lane.hash = row.hash
  /\ lane.at = "answer" /\ lane.acked = row.seq => row.live /\ row.hash = lane.hash
UploadNumbers == \A u \in Slots :
  /\ ups[u].at \in {"send", "post", "answer"} => ups[u].content # None
  /\ ups[u].at = "answer" => ups[u].seq > 0 /\ ups[u].seq <= row.seq
  /\ ups[u].at = "answer" /\ ups[u].seq = row.seq => row.live /\ row.hash = ups[u].content

(* An entry with the number of the row is that row.                          *)
Current(e) ==
  e.seq = row.seq /\ e.seq > 0 =>
    IF row.live THEN e.hash = row.hash /\ e.decision = "none" ELSE e.decision # "none"
DeleteAhead == del.at = "answer" /\ "unposted" \notin lapses => row.seq > del.seq
Numbered ==
  /\ RowNumbers /\ IndexNumbers /\ LaneNumbers /\ LaneCurrent /\ UploadNumbers
  /\ Current(entry) /\ Current(stored.entry) /\ DeleteAhead

(* What a step leaves of an entry that it does not mean to change.           *)
Kept(e, f) ==
  /\ f \in Entries /\ f.mtime \in {e.mtime, Stale}
  /\ f.seq = e.seq /\ f.hash = e.hash /\ f.skipped = e.skipped /\ f.decision = e.decision
  /\ e = NoEntry => f = NoEntry
  /\ f.hydrated = e.hydrated \/ f.mtime # file'

(* What happens to an entry.                                                 *)
LEMMA OnFileDeletedDrops ==
  ASSUME TypeOK, OnFileDeleted
  PROVE  entry' = entry \/ (entry' = NoEntry /\ (entry.hash = None \/ entry.decision = "delete"))
  BY DEF OnFileDeleted

LEMMA HydrationKeeps ==
  ASSUME TypeOK, Named, HydrationLocks \/ HydrationWritten \/ HydrationWriteFails
  PROVE  Kept(entry, entry')
<1> USE Fields
<1>1. CASE HydrationLocks
  <2>1. entry' = entry \/ (Known /\ entry' = [entry EXCEPT !.base = hyd.hash])
    BY <1>1 DEF HydrationLocks, StillHydrates
  <2> QED
    BY <2>1 DEF Kept, Entries, Known
<1>2. CASE HydrationWritten
  <2>1. entry = NoEntry => entry' = Outdated(entry, hyd.hash)
    BY <1>2 DEF HydrationWritten, Known
  <2>2. hyd.hash # None
    BY <1>2 DEF HydrationWritten, Named
  <2>3. entry = NoEntry => entry' = NoEntry
    BY <2>1, <2>2, Outdating
  <2>4. file' = hyd.hash /\ Outdated(entry, hyd.hash).mtime # hyd.hash
        /\ Outdated(entry, hyd.hash) \in Entries
    <3>1. Alike(entry, Outdated(entry, hyd.hash)) /\ Outdated(entry, hyd.hash).mtime # hyd.hash
      BY Outdating
    <3> QED
      BY <1>2, <3>1 DEF HydrationWritten, Alike
  <2>5. entry'.mtime = Outdated(entry, hyd.hash).mtime
    BY <1>2, <2>4 DEF HydrationWritten, Entries
  <2> QED
    BY <1>2, <2>3, <2>4, <2>5, EntryOverwritten DEF Kept
<1>3. CASE HydrationWriteFails
  <2>1. entry = NoEntry => ~StillHydrates
    BY DEF StillHydrates, Known
  <2>2. entry = NoEntry => entry' \in {entry, Outdated(entry, Torn)}
    BY <1>3, <2>1 DEF HydrationWriteFails
  <2>3. Torn # None /\ Torn \in Contents
    BY DEF Torn, None, Contents
  <2>4. entry = NoEntry => entry' = NoEntry
    BY <2>2, <2>3, Outdating
  <2>5. entry'.hydrated = entry.hydrated \/ HydrationWritten
    BY <1>3, EntryOverwritten
  <2>6. HydrationWritten => entry'.hydrated = entry.hydrated
    BY <1>3 DEF HydrationWritten, HydrationWriteFails, Fault
  <2>7. entry'.hydrated = entry.hydrated
    BY <2>5, <2>6
  <2> QED
    BY <1>3, <2>4, <2>7, EntryOverwritten DEF Kept
<1> QED
  BY <1>1, <1>2, <1>3

Dropped ==
  entry' = NoEntry /\ (\/ entry.hash = None \/ entry.decision = "delete"
                       \/ DeleteAnswered /\ entry.seq = del.seq)
Republishing ==
  /\ RepublishInstead /\ entry.decision = "delete"
  /\ entry' = [entry EXCEPT !.decision = "republish", !.expected = None]
Refused ==
  /\ RepublishPosts /\ row.seq > entry.seq /\ entry.decision = "republish"
  /\ entry' = Undecided(entry)

LEMMA EntryStep ==
  ASSUME TypeOK, Named, Next
  PROVE  \/ Kept(entry, entry') \/ Dropped \/ Republishing \/ Refused
         \/ \E u \in Slots : UploadSends(u) /\ entry' = Skipped
         \/ \E u \in Slots : UploadAcked(u) /\ ups[u].seq > entry.seq
         \/ LiveUnindexed \/ LiveIndexed \/ LiveFindsFile \/ TombstoneFindsFile \/ TombstoneDecides
         \/ RepublishAcked /\ lane.acked > entry.seq /\ Holds("republish")
         \/ Crash
<1> USE Fields
<1>0. entry' = entry => Kept(entry, entry')
  BY DEF Kept
<1>1. CASE UserDeletes \/ SweepMissesFile
  <2>1. OnFileDeleted \/ entry' = entry
    BY <1>1 DEF UserDeletes, SweepMissesFile
  <2> QED
    BY <1>0, <2>1, OnFileDeletedDrops DEF Dropped
<1>2. CASE ReconcileTrashes
  <2>1. OnFileDeleted \/ entry' = entry \/ (entry' = NoEntry /\ Holds("delete"))
    BY <1>2 DEF ReconcileTrashes
  <2> QED
    BY <1>0, <2>1, OnFileDeletedDrops DEF Dropped, Holds
<1>3. CASE DeleteAnswered
  BY <1>0, <1>3 DEF DeleteAnswered, Dropped
<1>4. CASE HydrationLocks \/ HydrationWritten \/ HydrationWriteFails
  BY <1>4, HydrationKeeps
<1>5. CASE Reconcile \/ ReconcileStats
  <2>1. \/ entry' = entry \/ (entry' = NoEntry /\ entry.decision = "delete")
        \/ RepublishInstead /\ entry.decision = "delete"
    BY <1>5 DEF Reconcile, ReconcileStats, Holds
  <2> QED
    BY <1>0, <2>1 DEF Dropped, Republishing, RepublishInstead
<1>6. CASE RepublishPosts
  <2>1. entry' = entry \/ (MayRefuse(lane.seq) /\ Holds("republish") /\ entry' = Undecided(entry))
    BY <1>6 DEF RepublishPosts
  <2> QED
    BY <1>0, <1>6, <2>1 DEF Refused, MayRefuse, Holds
<1>7. CASE RepublishAcked
  <2>1. entry' = entry \/ (Holds("republish") /\ ~(lane.acked <= entry.seq))
    BY <1>7 DEF RepublishAcked
  <2>2. ~(lane.acked <= entry.seq) => lane.acked > entry.seq
    BY DEF Seqs
  <2> QED
    BY <1>0, <1>7, <2>1, <2>2
<1>8. ASSUME NEW u \in Slots, UploadSends(u) PROVE entry' = entry \/ entry' = Skipped
  BY <1>8 DEF UploadSends
<1>9. ASSUME NEW u \in Slots, UploadAcked(u) PROVE entry' = entry \/ ups[u].seq > entry.seq
  <2>1. entry' = entry \/ ~(ups[u].seq <= entry.seq)
    BY <1>9 DEF UploadAcked
  <2> QED
    BY <2>1 DEF Seqs
<1>10. CASE UNCHANGED entry
  BY <1>0, <1>10
<1> QED
  BY <1>0, <1>1, <1>2, <1>3, <1>4, <1>5, <1>6, <1>7, <1>8, <1>9, <1>10, EntryChanges

(* What happens to the row. A step that changes it leaves the index alone.   *)
LEMMA ServerStep ==
  ASSUME TypeOK, Numbered, Next
  PROVE  \/ row' = row
         \/ /\ row'.seq = row.seq + 1 /\ row'.hash # None
            /\ UNCHANGED <<file, entry, cursor, stored>>
<1> USE Fields
<1>1. ASSUME NEW c \in Contents, Accepts(c), c # None
      PROVE  row'.seq = row.seq + 1 /\ row'.hash # None
  BY <1>1 DEF Accepts
<1>2. ASSUME AcceptsDelete, row.seq > 0
      PROVE  row'.seq = row.seq + 1 /\ row'.hash # None
  BY <1>2 DEF AcceptsDelete, Numbered, RowNumbers
<1>3. CASE PeerWrites
  <2>1. fresh <= MaxContents => fresh \in Contents /\ fresh # None
    BY DEF None
  <2>2. row.seq > 0 => row.hash # None
    BY DEF Numbered, RowNumbers
  <2>3. row.live => row.seq > 0
    BY DEF Numbered, RowNumbers
  <2>4. row'.seq = row.seq + 1 /\ row'.hash # None
    BY <1>1, <1>2, <1>3, <2>1, <2>2, <2>3 DEF PeerWrites
  <2> QED
    BY <1>3, <2>4 DEF PeerWrites
<1>4. ASSUME NEW u \in Slots, UploadPosts(u)
      PROVE  \/ row' = row
             \/ /\ row'.seq = row.seq + 1 /\ row'.hash # None
                /\ UNCHANGED <<file, entry, cursor, stored>>
  <2>1. ups[u].content # None
    BY <1>4 DEF UploadPosts, Numbered, UploadNumbers
  <2>2. row' = row \/ Accepts(ups[u].content)
    BY <1>4 DEF UploadPosts
  <2> QED
    BY <1>1, <1>4, <2>1, <2>2 DEF UploadPosts
<1>5. CASE RepublishPosts
  <2>1. lane.hash # None
    BY <1>5 DEF RepublishPosts, Numbered, LaneNumbers
  <2>2. row' = row \/ (Accepts(lane.hash) /\ entry' = entry)
    BY <1>5 DEF RepublishPosts
  <2> QED
    BY <1>1, <1>5, <2>1, <2>2 DEF RepublishPosts
<1>6. CASE DeletePosts
  <2>1. row.seq > 0
    BY <1>6 DEF DeletePosts, Numbered, RowNumbers
  <2>2. row' = row \/ AcceptsDelete
    BY <1>6 DEF DeletePosts
  <2> QED
    BY <1>2, <1>6, <2>1, <2>2 DEF DeletePosts
<1>7. CASE UNCHANGED server
  BY <1>7
<1> QED
  BY <1>3, <1>4, <1>5, <1>6, <1>7, ServerChanges

(* What the lane and the answers make of an entry, field by field.           *)
LEMMA LiveStep ==
  ASSUME TypeOK, LaneNumbers, LiveUnindexed \/ LiveIndexed \/ LiveFindsFile
  PROVE  /\ lane.at \in Walking /\ lane.live /\ entry' \in Entries
         /\ UNCHANGED <<row, file, cursor, stored>>
         /\ \/ entry' = entry
            \/ LiveIndexed /\ lane.seq > entry.seq /\ entry' = Undecided(entry)
            \/ /\ entry'.seq = lane.seq /\ entry'.hash = lane.hash /\ lane.seq >= entry.seq
               /\ entry'.decision = "none" \/ (entry'.decision = entry.decision /\ entry.seq = lane.seq)
               /\ entry'.mtime \in {None, entry.mtime}
               /\ \/ entry'.mtime = None \/ ~entry'.hydrated
                  \/ /\ entry'.mtime = entry.mtime /\ entry.hash = lane.hash
                     /\ entry'.hydrated => entry.hydrated
<1> USE Fields, Blanks
<1>1. CASE LiveUnindexed
  <2> DEFINE new == [NoEntry EXCEPT !.seq = lane.seq, !.hash = lane.hash, !.hydrated = (file = lane.hash),
                                    !.base = IF file = lane.hash THEN lane.hash ELSE None]
  <2>1. entry' = new \/ entry' = entry
    BY <1>1 DEF LiveUnindexed
  <2>2. /\ new \in Entries /\ new.seq = lane.seq /\ new.hash = lane.hash
        /\ new.decision = "none" /\ new.mtime = None
    BY Adopted
  <2>3. entry.seq = 0 /\ lane.seq >= 0
    BY <1>1 DEF LiveUnindexed, Known, NoEntry, Seqs
  <2>4. lane.at = "apply" /\ lane.live /\ UNCHANGED <<row, file, cursor, stored>>
    BY <1>1 DEF LiveUnindexed
  <2> QED
    BY <2>1, <2>2, <2>3, <2>4 DEF Walking
<1>2. ASSUME NEW e \in Entries
      PROVE  /\ Recorded(e) \in Entries /\ Recorded(e).seq = lane.seq /\ Recorded(e).hash = lane.hash
             /\ Recorded(e).decision = e.decision /\ Recorded(e).mtime = e.mtime
             /\ ~Recorded(e).hydrated \/ (e.hash = lane.hash /\ Recorded(e).hydrated = e.hydrated)
  BY DEF Recorded, Entries
<1>3. CASE LiveIndexed
  <2>1. lane.at = "apply" /\ lane.live /\ UNCHANGED <<row, file, cursor, stored>>
    BY <1>3 DEF LiveIndexed
  <2>2. CASE Decided /\ lane.seq > entry.seq /\ entry' = Undecided(entry)
    <3>1. Undecided(entry) \in Entries
      BY DEF Undecided, Entries, Decisions
    <3> QED
      BY <1>3, <2>1, <2>2, <3>1 DEF Walking
  <2>3. CASE (lane.seq = entry.seq \/ (lane.seq > entry.seq /\ ~Decided)) /\ entry' = Recorded(entry)
    <3>1. lane.seq >= entry.seq
      BY <2>3 DEF Seqs
    <3>2. entry'.decision = "none" \/ (entry'.decision = entry.decision /\ entry.seq = lane.seq)
      BY <1>2, <2>3 DEF Decided
    <3> QED
      BY <1>2, <2>1, <2>3, <3>1, <3>2 DEF Walking
  <2> QED
    BY <1>3, <2>1, <2>2, <2>3 DEF LiveIndexed, Walking
<1>4. CASE LiveFindsFile
  <2>1. lane.at = "live" /\ lane.live /\ entry.decision = "none" /\ UNCHANGED <<row, file, cursor, stored>>
    BY <1>4 DEF LiveFindsFile, LaneNumbers
  <2> DEFINE e == [entry EXCEPT !.hydrated = entry.hydrated /\ file # None]
  <2>2. e \in Entries /\ e.decision = "none" /\ e.mtime = entry.mtime /\ e.hash = entry.hash
        /\ (e.hydrated => entry.hydrated)
    BY <2>1 DEF Entries
  <2>3. entry' = entry \/ (~(lane.seq < entry.seq) /\ entry' = Recorded(e))
    BY <1>4 DEF LiveFindsFile
  <2>4. ~(lane.seq < entry.seq) => lane.seq >= entry.seq
    BY DEF Seqs
  <2> HIDE DEF e
  <2> QED
    BY <1>2, <2>1, <2>2, <2>3, <2>4 DEF Walking
<1> QED
  BY <1>1, <1>3, <1>4

LEMMA TombstoneStep ==
  ASSUME TypeOK, TombstoneFindsFile \/ TombstoneDecides
  PROVE  /\ lane.at \in {"stat", "read"} /\ entry' \in Entries /\ UNCHANGED <<row, file, cursor, stored>>
         /\ \/ entry' = entry /\ (lane'.at # "flush" \/ Superseded)
            \/ entry' = NoEntry /\ TombstoneFindsFile
            \/ /\ lane.seq >= entry.seq /\ entry'.seq = lane.seq /\ entry'.decision # "none"
               /\ entry'.hash = entry.hash /\ entry'.skipped = entry.skipped
               /\ entry'.mtime = entry.mtime /\ entry'.hydrated = entry.hydrated
<1> USE Fields, Blanks
<1>1. ASSUME NEW k \in {"delete", "republish"}, NEW c \in Contents, Decides(k, c)
      PROVE  /\ entry' \in Entries /\ entry'.seq = lane.seq /\ entry'.decision # "none"
             /\ entry'.hash = entry.hash /\ entry'.skipped = entry.skipped
             /\ entry'.mtime = entry.mtime /\ entry'.hydrated = entry.hydrated
  BY <1>1 DEF Decides, Entries, Decisions
<1>2. ~Superseded => lane.seq >= entry.seq
  BY DEF Superseded, Seqs
<1>3. ASSUME NEW at \in LanePlaces, LaneGoes(at) PROVE lane'.at = at
  BY <1>3 DEF LaneGoes, Lanes
<1>4. CASE TombstoneFindsFile
  <2>1. /\ lane.at = "stat" /\ UNCHANGED <<row, file, cursor, stored>>
        /\ \/ entry' = entry /\ (Superseded \/ LaneGoes("read"))
           \/ entry' = NoEntry
           \/ ~Superseded /\ Decides("republish", None)
    BY <1>4 DEF TombstoneFindsFile
  <2>2. LaneGoes("read") => lane'.at # "flush"
    BY <1>3 DEF LanePlaces
  <2> QED
    BY <1>1, <1>2, <1>4, <2>1, <2>2
<1>5. CASE TombstoneDecides
  <2>1. /\ lane.at = "read" /\ UNCHANGED <<row, file, cursor, stored>>
        /\ \/ entry' = entry /\ (Superseded \/ lane' = NoLane)
           \/ ~Superseded /\ (Decides("delete", file) \/ Decides("republish", None))
    BY <1>5 DEF TombstoneDecides
  <2>2. NoLane.at # "flush"
    BY DEF NoLane
  <2> QED
    BY <1>1, <1>2, <2>1, <2>2
<1> QED
  BY <1>4, <1>5

LEMMA AnswerStep ==
  ASSUME TypeOK, NEW u \in Slots, UploadAcked(u), ups[u].seq > entry.seq
  PROVE  /\ ups[u].at = "answer" /\ entry' \in Entries /\ UNCHANGED <<row, file, cursor, stored>>
         /\ entry'.seq = ups[u].seq /\ entry'.hash = ups[u].content /\ entry'.decision = "none"
         /\ entry'.mtime = (IF file # None THEN file ELSE entry.mtime)
         /\ file \notin {None, ups[u].content} => "unseen" \in lapses'
<1> USE Fields, Blanks
<1>1. ~(ups[u].seq <= entry.seq)
  BY DEF Seqs
<1>2. entry' = [NoEntry EXCEPT !.seq = ups[u].seq, !.hash = ups[u].content, !.base = ups[u].content,
                  !.hydrated = TRUE, !.mtime = IF file # None THEN file ELSE entry.mtime]
  BY <1>1 DEF UploadAcked
<1>3. ups[u].at = "answer" /\ UNCHANGED <<row, file, cursor, stored>>
      /\ (file \notin {None, ups[u].content} => "unseen" \in lapses')
  BY <1>1 DEF UploadAcked
<1> DEFINE m == IF file # None THEN file ELSE entry.mtime
<1>4. m \in Contents \cup {Stale}
  OBVIOUS
<1>5. entry' = [seq |-> ups[u].seq, hash |-> ups[u].content, base |-> ups[u].content,
                hydrated |-> TRUE, skipped |-> FALSE, decision |-> "none", expected |-> None, mtime |-> m]
  BY <1>2 DEF NoEntry
<1> HIDE DEF m
<1>6. entry' \in Entries
  BY <1>4, <1>5 DEF Entries, Decisions, Contents
<1>7. /\ entry'.seq = ups[u].seq /\ entry'.hash = ups[u].content /\ entry'.decision = "none"
      /\ entry'.mtime = m
  BY <1>5
<1> QED
  BY <1>3, <1>6, <1>7 DEF m

LEMMA RepublishedStep ==
  ASSUME TypeOK, RepublishAcked, lane.acked > entry.seq, Holds("republish")
  PROVE  /\ lane.at = "answer" /\ entry' \in Entries /\ UNCHANGED <<row, file, cursor, stored>>
         /\ entry'.seq = lane.acked /\ entry'.hash = lane.hash /\ entry'.decision = "none"
         /\ entry'.mtime = entry.mtime
<1> USE Fields, Blanks
<1>1. ~(lane.acked <= entry.seq)
  BY DEF Seqs
<1>2. entry' = [NoEntry EXCEPT !.seq = lane.acked, !.hash = lane.hash, !.base = lane.hash,
                  !.hydrated = TRUE, !.mtime = entry.mtime]
  BY <1>1 DEF RepublishAcked
<1>3. lane.at = "answer" /\ UNCHANGED <<row, file, cursor, stored>>
  BY DEF RepublishAcked
<1> QED
  BY <1>2, <1>3 DEF NoEntry, Entries

LEMMA SkippedStep ==
  ASSUME TypeOK
  PROVE  /\ Skipped.skipped /\ Skipped.decision = entry.decision /\ Skipped.seq = entry.seq
         /\ Skipped.hash = entry.hash /\ Skipped.mtime = entry.mtime /\ Skipped \in Entries
         /\ Skipped.hydrated => entry.hydrated \/ Skipped.mtime = None
  BY Fields, Blanks DEF Skipped, Known, NoEntry, Entries

(* Where the lane is after a step, and what of its row it still holds.       *)
LaneRests == lane'.at \notin Walking \cup {"send", "post", "answer"}
LaneWalks ==
  /\ lane.at \in Walking /\ lane'.at \in Walking
  /\ lane'.seq = lane.seq /\ lane'.hash = lane.hash /\ lane'.live = lane.live
  /\ lane'.acked = lane.acked
  /\ lane'.deferred = lane.deferred \/ (TombstoneTaken /\ lane'.at = "flush")
  /\ lane'.at # "flush" => lane.at \in {"apply", "stat"} /\ lane'.at # "apply"
  /\ lane'.at = "live" => LiveIndexed /\ lane.live /\ entry'.decision = "none"
  /\ lane'.at \in {"stat", "read"} => ~lane.live
  /\ UNCHANGED <<row, cursor>>

LEMMA LaneStep ==
  ASSUME TypeOK, LaneNumbers, Next
  PROVE  \/ lane' = lane
         \/ /\ LaneRests /\ lane'.seq \in {0, lane.seq, entry.seq} /\ lane'.acked \in {0, lane.acked}
         \/ LaneLists
         \/ LaneWalks
         \/ /\ RepublishReads /\ lane'.at = "send" /\ lane'.hash = file /\ file # None
            /\ lane'.seq = lane.seq /\ lane'.acked = lane.acked
         \/ /\ RepublishSends /\ lane.at = "send" /\ lane'.at = "post" /\ lane'.hash = lane.hash
            /\ lane'.seq = lane.seq /\ lane'.acked = lane.acked
         \/ /\ RepublishPosts /\ Accepts(lane.hash) /\ lane'.at = "answer" /\ lane'.hash = lane.hash
            /\ lane'.seq = lane.seq /\ lane'.acked = row.seq + 1 /\ UNCHANGED <<entry, cursor>>
<1> USE Fields
<1>1. NoLane.at = "idle" /\ NoLane.seq = 0 /\ NoLane.acked = 0
  BY DEF NoLane
<1>2. lane' = NoLane => LaneRests /\ lane'.seq \in {0, lane.seq, entry.seq} /\ lane'.acked \in {0, lane.acked}
  BY <1>1 DEF LaneRests, Walking
<1>3. ASSUME NEW at \in LanePlaces, LaneGoes(at)
      PROVE  /\ lane'.at = at /\ lane'.seq = lane.seq /\ lane'.hash = lane.hash /\ lane'.live = lane.live
             /\ lane'.acked = lane.acked /\ lane'.deferred = lane.deferred
  BY <1>3 DEF LaneGoes, Lanes
<1>4. CASE LiveUnindexed
  <2>1. lane.at = "apply" /\ LaneGoes("flush") /\ UNCHANGED <<row, cursor>>
    BY <1>4 DEF LiveUnindexed
  <2> QED
    BY <1>3, <2>1 DEF LaneWalks, Walking, LanePlaces
<1>5. CASE LiveIndexed
  <2>1. /\ lane.at = "apply" /\ lane.live /\ UNCHANGED <<row, cursor>>
        /\ LaneGoes("flush") \/ (LaneGoes("live") /\ entry' = Undecided(entry))
    BY <1>5 DEF LiveIndexed
  <2>2. Undecided(entry).decision = "none"
    BY DEF Undecided, Entries
  <2> QED
    BY <1>3, <1>5, <2>1, <2>2 DEF LaneWalks, Walking, LanePlaces
<1>6. CASE LiveFindsFile
  <2>1. lane.at = "live" /\ LaneGoes("flush") /\ UNCHANGED <<row, cursor>>
    BY <1>6 DEF LiveFindsFile
  <2> QED
    BY <1>3, <2>1 DEF LaneWalks, Walking, LanePlaces
<1>7. CASE TombstoneTaken
  <2>1. /\ lane.at = "apply" /\ ~lane.live /\ UNCHANGED <<row, cursor>>
        /\ \/ lane' = [lane EXCEPT !.at = "flush", !.deferred = TRUE]
           \/ LaneGoes("flush") \/ LaneGoes("stat")
    BY <1>7 DEF TombstoneTaken
  <2>2. CASE lane' = [lane EXCEPT !.at = "flush", !.deferred = TRUE]
    <3>1. /\ lane'.at = "flush" /\ lane'.seq = lane.seq /\ lane'.hash = lane.hash
          /\ lane'.live = lane.live /\ lane'.acked = lane.acked
      BY <2>2 DEF Lanes
    <3> QED
      BY <1>7, <2>1, <3>1 DEF LaneWalks, Walking
  <2>3. CASE LaneGoes("flush") \/ LaneGoes("stat")
    BY <1>3, <2>1, <2>3 DEF LaneWalks, Walking, LanePlaces
  <2> QED
    BY <2>1, <2>2, <2>3
<1>8. CASE TombstoneFindsFile
  <2>1. lane.at = "stat" /\ UNCHANGED <<row, cursor>> /\ (LaneGoes("flush") \/ LaneGoes("read"))
    BY <1>8 DEF TombstoneFindsFile
  <2>2. ~lane.live
    BY <2>1 DEF LaneNumbers
  <2> QED
    BY <1>3, <2>1, <2>2 DEF LaneWalks, Walking, LanePlaces
<1>9. CASE TombstoneDecides
  <2>1. lane.at = "read" /\ UNCHANGED <<row, cursor>> /\ (LaneGoes("flush") \/ lane' = NoLane)
    BY <1>9 DEF TombstoneDecides
  <2> QED
    BY <1>2, <1>3, <2>1 DEF LaneWalks, Walking, LanePlaces
<1>10. CASE LaneFlushes
  <2>1. LaneGoes("reconcile") \/ lane' = NoLane
    BY <1>10 DEF LaneFlushes
  <2> QED
    BY <1>2, <1>3, <2>1 DEF LaneRests, Walking, LanePlaces
<1>11. CASE Reconcile \/ ReconcileStats
  <2>1. \/ lane' = NoLane
        \/ lane' = [lane EXCEPT !.at = "republish", !.seq = entry.seq]
        \/ lane' = [lane EXCEPT !.at = "stable", !.seq = entry.seq]
        \/ LaneGoes("trash")
    BY <1>11 DEF Reconcile, ReconcileStats, RepublishInstead
  <2>2. ASSUME NEW at \in LanePlaces, at \in {"republish", "stable"},
               lane' = [lane EXCEPT !.at = at, !.seq = entry.seq]
        PROVE  lane'.at = at /\ lane'.seq = entry.seq /\ lane'.acked = lane.acked
    BY <2>2 DEF Lanes
  <2> QED
    BY <1>2, <1>3, <2>1, <2>2 DEF LaneRests, Walking, LanePlaces
<1>12. CASE ReconcileTrashes
  BY <1>2, <1>12 DEF ReconcileTrashes
<1>13. CASE RepublishReads
  <2>1. lane' = NoLane \/ (lane' = [lane EXCEPT !.at = "send", !.hash = file] /\ file # None)
    BY <1>13 DEF RepublishReads
  <2>2. CASE lane' = [lane EXCEPT !.at = "send", !.hash = file] /\ file # None
    BY <1>13, <2>2 DEF Lanes
  <2> QED
    BY <1>2, <2>1, <2>2
<1>14. CASE RepublishSends
  <2>1. lane' = NoLane \/ (lane' = [lane EXCEPT !.at = "post"] /\ lane.at = "send")
    BY <1>14 DEF RepublishSends
  <2>2. CASE lane' = [lane EXCEPT !.at = "post"] /\ lane.at = "send"
    BY <1>14, <2>2 DEF Lanes
  <2> QED
    BY <1>2, <2>1, <2>2
<1>15. CASE RepublishPosts
  <2>1. \/ lane' = NoLane
        \/ /\ lane' = [lane EXCEPT !.at = "answer", !.acked = row.seq + 1] /\ Accepts(lane.hash)
           /\ UNCHANGED <<entry, cursor>>
    BY <1>15 DEF RepublishPosts
  <2>2. CASE /\ lane' = [lane EXCEPT !.at = "answer", !.acked = row.seq + 1] /\ Accepts(lane.hash)
             /\ UNCHANGED <<entry, cursor>>
    <3>1. row.seq + 1 \in Seqs
      BY <2>2 DEF Accepts
    <3> QED
      BY <1>15, <2>2, <3>1 DEF Lanes
  <2> QED
    BY <1>2, <2>1, <2>2
<1>16. CASE RepublishAcked
  BY <1>2, <1>16 DEF RepublishAcked
<1>17. CASE Crash
  <2>1. lane' = [NoLane EXCEPT !.at = "reconcile", !.online = FALSE]
    BY <1>17 DEF Crash
  <2>2. lane'.at = "reconcile" /\ lane'.seq = 0 /\ lane'.acked = 0
    BY <2>1 DEF NoLane
  <2> QED
    BY <2>2 DEF LaneRests, Walking
<1>18. CASE UNCHANGED lane \/ LaneLists
  BY <1>18
<1> QED
  BY <1>4, <1>5, <1>6, <1>7, <1>8, <1>9, <1>10, <1>11, <1>12, <1>13, <1>14, <1>15, <1>16, <1>17,
     <1>18, LaneChanges

(* What happens to the cursor and to what is stored.                         *)
LEMMA CursorStep ==
  ASSUME TypeOK, LaneNumbers, Next
  PROVE  \/ cursor' = cursor
         \/ /\ LaneFlushes /\ lane.at = "flush" /\ ~lane.deferred /\ lane.seq > cursor
            /\ cursor' = lane.seq /\ lane'.at = "reconcile" /\ UNCHANGED <<row, entry, file, ups>>
         \/ Crash /\ cursor' = stored.cursor
<1> USE Fields
<1>1. CASE LaneFlushes
  <2>1. \/ cursor' = cursor
        \/ cursor' = lane.seq /\ ~lane.deferred /\ LaneGoes("reconcile")
    BY <1>1 DEF LaneFlushes
  <2>2. lane.at = "flush" /\ UNCHANGED <<row, entry, file, ups>>
    BY <1>1 DEF LaneFlushes
  <2>3. lane.seq > cursor
    BY <2>2 DEF LaneNumbers, Walking
  <2>4. LaneGoes("reconcile") => lane'.at = "reconcile"
    BY DEF LaneGoes, Lanes
  <2> QED
    BY <1>1, <2>1, <2>2, <2>3, <2>4
<1>2. CASE Crash
  BY <1>2 DEF Crash
<1>3. CASE Reconcile \/ ReconcileStats \/ Persist \/ HydrationWritten \/ HydrationWriteFails
  BY <1>3 DEF Reconcile, ReconcileStats, Persist, HydrationWritten, HydrationWriteFails
<1> QED
  BY <1>1, <1>2, <1>3, StoredChanges

LEMMA OverwritesLeave ==
  ASSUME TypeOK, Named, HydrationWritten \/ HydrationWriteFails \/ Crash
  PROVE  /\ Alike(stored.entry, stored'.entry) /\ stored'.cursor = stored.cursor
         /\ (UNCHANGED <<file, stored>>) \/ stored'.entry.mtime # file'
         /\ stored.entry = NoEntry => stored'.entry = NoEntry
<1> USE Fields
<1>1. /\ stored'.cursor = stored.cursor /\ Alike(stored.entry, stored'.entry)
      /\ (UNCHANGED <<file, stored>>) \/ \E c \in {hyd.hash, Torn} : file' = c /\ Outdates(c)
  BY Overwrites DEF HydrationWritten, HydrationWriteFails, Crash
<1>2. (UNCHANGED <<file, stored>>) \/ hyd.hash # None
  <2>1. (UNCHANGED <<file, stored>>) \/ hyd.at = "write"
    BY DEF HydrationWritten, HydrationWriteFails, Crash
  <2> QED
    BY <2>1 DEF Named
<1>3. ASSUME NEW c \in {hyd.hash, Torn}, file' = c, Outdates(c), hyd.hash # None
      PROVE  stored'.entry.mtime # file' /\ (stored.entry = NoEntry => stored'.entry = NoEntry)
  <2>1. stored.entry \in Entries /\ c \in Contents /\ c # None
    BY <1>3, Blanks DEF Torn, None
  <2>2. /\ Outdated(stored.entry, c).mtime # c
        /\ c # None => (Outdated(stored.entry, c) = NoEntry <=> stored.entry = NoEntry)
    BY <2>1, Outdating
  <2>3. stored'.entry = Outdated(stored.entry, c)
    BY <1>3 DEF Outdates
  <2> QED
    BY <1>3, <2>1, <2>2, <2>3
<1> QED
  BY <1>1, <1>2, <1>3

LEMMA StoredStep ==
  ASSUME TypeOK, Named, Next
  PROVE  \/ /\ Alike(stored.entry, stored'.entry) /\ stored'.cursor = stored.cursor
            /\ stored' = stored \/ stored'.entry.mtime # file'
            /\ stored.entry = NoEntry => stored'.entry = NoEntry
         \/ stored'.entry = entry /\ stored'.cursor = cursor /\ UNCHANGED <<row, file>>
         \/ /\ stored'.entry = entry' /\ stored'.cursor = cursor /\ UNCHANGED <<row, file, cursor>>
            /\ RepublishInstead
<1> USE Fields
<1>0. Alike(stored.entry, stored.entry)
  BY DEF Alike
<1>1. CASE HydrationWritten \/ HydrationWriteFails \/ Crash
  BY <1>1, OverwritesLeave
<1>2. CASE LaneFlushes \/ Persist
  <2>1. \/ stored' = stored
        \/ stored' = [entry |-> entry, cursor |-> cursor]
    BY <1>2 DEF LaneFlushes, Persist
  <2>2. UNCHANGED <<row, file>>
    BY <1>2 DEF LaneFlushes, Persist
  <2> QED
    BY <1>0, <2>1, <2>2
<1>3. CASE Reconcile \/ ReconcileStats
  <2>1. \/ stored' = stored
        \/ RepublishInstead /\ stored' = [entry |-> entry', cursor |-> cursor]
    BY <1>3 DEF Reconcile, ReconcileStats, RepublishInstead
  <2>2. UNCHANGED <<row, file, cursor>>
    BY <1>3 DEF Reconcile, ReconcileStats
  <2> QED
    BY <1>0, <2>1, <2>2
<1>4. CASE UNCHANGED <<cursor, stored>>
  BY <1>0, <1>4
<1> QED
  BY <1>1, <1>2, <1>3, <1>4, StoredChanges

(* Every step keeps the numbers.                                             *)
LEMMA RowGrows ==
  ASSUME TypeOK, Numbered, Next
  PROVE  /\ row' = row \/ row'.seq = row.seq + 1
         /\ row'.seq \in Nat /\ row.seq \in Nat /\ row.seq <= row'.seq
<1>1. row.seq \in Nat
  BY Fields DEF Seqs
<1>2. row' = row \/ row'.seq = row.seq + 1
  BY ServerStep
<1> QED
  BY <1>1, <1>2

(* An entry takes its number and its content from a row the server has.      *)
LEMMA EntryNumbersStep ==
  ASSUME TypeOK, Named, Numbered, Next
  PROVE  /\ entry'.seq <= row.seq /\ (entry'.hash # None => row.seq > 0)
         /\ row' = row => Current(entry)'
<1> USE Fields, Blanks
<1>a. /\ entry.seq <= row.seq /\ Current(entry) /\ (entry.hash # None => row.seq > 0)
      /\ row.seq \in Nat /\ entry.seq \in Nat
  BY DEF Numbered, IndexNumbers, RowNumbers, Seqs
<1>b. NoEntry.seq = 0 /\ NoEntry.hash = None
  BY DEF NoEntry
<1>c. row.live => row.seq > 0
  BY DEF Numbered, RowNumbers
<1>1. CASE Kept(entry, entry')
  BY <1>1, <1>a DEF Kept, Current
<1>2. CASE Dropped
  BY <1>2, <1>a, <1>b DEF Dropped, Current
<1>3. CASE Republishing
  <2>1. entry'.seq = entry.seq /\ entry'.hash = entry.hash /\ entry'.decision = "republish"
    BY <1>3 DEF Republishing, Entries
  <2>2. entry.decision = "delete"
    BY <1>3 DEF Republishing
  <2> QED
    BY <2>1, <2>2, <1>a DEF Current
<1>4. CASE Refused
  <2>1. entry'.seq = entry.seq /\ entry'.hash = entry.hash
    BY <1>4 DEF Refused, Undecided, Entries
  <2>2. row.seq > entry.seq
    BY <1>4 DEF Refused
  <2> QED
    BY <2>1, <2>2, <1>a DEF Current
<1>5. ASSUME NEW u \in Slots, UploadSends(u), entry' = Skipped
      PROVE  /\ entry'.seq <= row.seq /\ (entry'.hash # None => row.seq > 0)
             /\ row' = row => Current(entry)'
  BY <1>5, <1>a, SkippedStep DEF Current
<1>6. ASSUME NEW u \in Slots, UploadAcked(u), ups[u].seq > entry.seq
      PROVE  /\ entry'.seq <= row.seq /\ (entry'.hash # None => row.seq > 0)
             /\ row' = row => Current(entry)'
  <2>1. /\ ups[u].at = "answer"
        /\ entry'.seq = ups[u].seq /\ entry'.hash = ups[u].content /\ entry'.decision = "none"
    BY <1>6, AnswerStep
  <2>2. /\ ups[u].seq > 0 /\ ups[u].seq <= row.seq /\ ups[u].seq \in Nat
        /\ ups[u].seq = row.seq => row.live /\ row.hash = ups[u].content
    BY <2>1 DEF Numbered, UploadNumbers, Seqs
  <2> QED
    BY <2>1, <2>2, <1>a DEF Current
<1>7. CASE LiveUnindexed \/ LiveIndexed \/ LiveFindsFile
  <2>1. /\ lane.at \in Walking /\ lane.live
        /\ \/ entry' = entry
           \/ LiveIndexed /\ lane.seq > entry.seq /\ entry' = Undecided(entry)
           \/ /\ entry'.seq = lane.seq /\ entry'.hash = lane.hash
              /\ entry'.decision = "none" \/ (entry'.decision = entry.decision /\ entry.seq = lane.seq)
    BY <1>7, LiveStep DEF Numbered
  <2>2. /\ lane.seq <= row.seq /\ lane.seq > cursor /\ lane.seq \in Nat /\ cursor \in Nat
        /\ lane.seq = row.seq => row.live /\ row.hash = lane.hash
    <3>1. lane.live = TRUE
      BY <2>1 DEF Lanes
    <3>2. lane.seq = row.seq => row.live = TRUE /\ row.hash = lane.hash
      BY <2>1, <3>1 DEF Numbered, LaneCurrent
    <3> QED
      BY <2>1, <3>2 DEF Numbered, LaneNumbers, Seqs
  <2>3. CASE LiveIndexed /\ lane.seq > entry.seq /\ entry' = Undecided(entry)
    <3>1. entry'.seq = entry.seq /\ entry'.hash = entry.hash
      BY <2>3 DEF Undecided, Entries
    <3> QED
      BY <2>2, <2>3, <3>1, <1>a DEF Current
  <2>4. CASE /\ entry'.seq = lane.seq /\ entry'.hash = lane.hash
             /\ entry'.decision = "none" \/ (entry'.decision = entry.decision /\ entry.seq = lane.seq)
    <3>1. lane.seq = row.seq => entry'.decision = "none"
      BY <2>2, <2>4, <1>a DEF Current
    <3> QED
      BY <2>2, <2>4, <3>1, <1>a DEF Current
  <2> QED
    BY <2>1, <2>3, <2>4, <1>a DEF Current
<1>8. CASE TombstoneFindsFile \/ TombstoneDecides
  <2>1. /\ lane.at \in {"stat", "read"}
        /\ \/ entry' = entry \/ entry' = NoEntry
           \/ /\ entry'.seq = lane.seq /\ entry'.decision # "none" /\ entry'.hash = entry.hash
    BY <1>8, TombstoneStep
  <2>2. /\ lane.seq <= row.seq
        /\ lane.seq = row.seq => ~row.live
    BY <2>1 DEF Numbered, LaneNumbers, LaneCurrent, Walking
  <2> QED
    BY <2>1, <2>2, <1>a, <1>b DEF Current
<1>9. CASE RepublishAcked /\ lane.acked > entry.seq /\ Holds("republish")
  <2>1. lane.at = "answer" /\ entry'.seq = lane.acked /\ entry'.hash = lane.hash /\ entry'.decision = "none"
    BY <1>9, RepublishedStep
  <2>2. /\ lane.acked <= row.seq /\ lane.acked > entry.seq /\ lane.acked \in Nat
        /\ lane.acked = row.seq => row.live /\ row.hash = lane.hash
    BY <1>9, <2>1 DEF Numbered, LaneNumbers, LaneCurrent, Seqs
  <2> QED
    BY <2>1, <2>2, <1>a DEF Current
<1>10. CASE Crash
  <2>1. Alike(stored.entry, stored'.entry) /\ entry' = stored'.entry
    BY <1>10, Overwrites DEF Crash
  <2>2. /\ stored.entry.seq <= row.seq /\ (stored.entry.hash # None => row.seq > 0)
        /\ Current(stored.entry)
    BY DEF Numbered, IndexNumbers, RowNumbers
  <2> QED
    BY <2>1, <2>2 DEF Alike, Current
<1> QED
  BY <1>1, <1>2, <1>3, <1>4, <1>5, <1>6, <1>7, <1>8, <1>9, <1>10, EntryStep

(* A step that changes the row leaves an entry that is behind it.            *)
LEMMA CurrentStep ==
  ASSUME TypeOK, Named, Numbered, Next
  PROVE  Current(entry)'
<1>1. CASE row' = row
  BY <1>1, EntryNumbersStep
<1>2. CASE row' # row
  <2>1. row'.seq = row.seq + 1 /\ entry' = entry
    BY <1>2, ServerStep
  <2>2. entry.seq <= row.seq /\ entry.seq \in Nat /\ row.seq \in Nat
    BY Fields DEF Numbered, IndexNumbers, Seqs
  <2> QED
    BY <2>1, <2>2 DEF Current
<1> QED
  BY <1>1, <1>2

LEMMA StoredCurrentStep ==
  ASSUME TypeOK, Named, Numbered, Next
  PROVE  Current(stored.entry)'
<1>0. stored.entry.seq <= row.seq /\ stored.entry.seq \in Nat /\ row.seq \in Nat
      /\ Current(stored.entry) /\ Current(entry)
  BY Fields DEF Numbered, IndexNumbers, Seqs, Entries
<1>1. CASE row' = row
  BY <1>0, <1>1, StoredStep, CurrentStep DEF Current, Alike
<1>2. CASE row' # row
  <2>1. row'.seq = row.seq + 1 /\ stored' = stored
    BY <1>2, ServerStep
  <2> QED
    BY <1>0, <2>1 DEF Current
<1> QED
  BY <1>1, <1>2

LEMMA DeleteStep ==
  ASSUME TypeOK, Next
  PROVE  \/ del' = del
         \/ del' = NoDelete
         \/ del.at # "idle" /\ DeleteNext /\ del'.seq = del.seq
         \/ del'.at # "answer" /\ del'.seq = entry.seq /\ entry.hash # None
<1> USE Fields
<1>1. ASSUME OnFileDeleted
      PROVE  del' = del \/ (del'.at # "answer" /\ del'.seq = entry.seq /\ entry.hash # None)
  BY <1>1 DEF OnFileDeleted
<1>2. CASE UserDeletes \/ SweepMissesFile \/ ReconcileTrashes
  BY <1>1, <1>2 DEF UserDeletes, SweepMissesFile, ReconcileTrashes
<1>3. CASE DeleteFindsFile \/ DeletePassesGate \/ DeletePosts \/ DeleteAnswered
  <2>1. /\ del.at # "idle"
        /\ (del' = NoDelete \/ \E at \in {"gate", "post", "answer"} : del' = [del EXCEPT !.at = at])
    BY <1>3 DEF DeleteFindsFile, DeletePassesGate, DeletePosts, DeleteAnswered
  <2>2. ASSUME NEW at \in {"gate", "post", "answer"} PROVE [del EXCEPT !.at = at].seq = del.seq
    BY DEF Deletes
  <2> QED
    BY <1>3, <2>1, <2>2 DEF DeleteNext
<1>4. CASE Crash
  BY <1>4 DEF Crash
<1> QED
  BY <1>2, <1>3, <1>4, DeleteChanges

LEMMA DeleteAheadStep ==
  ASSUME TypeOK, Numbered, Next
  PROVE  DeleteAhead'
<1> SUFFICES ASSUME del'.at = "answer", "unposted" \notin lapses' PROVE row'.seq > del'.seq
  BY DEF DeleteAhead
<1> USE Fields
<1>a. del.seq <= row.seq /\ row.seq \in Nat /\ row'.seq \in Nat /\ row.seq <= row'.seq
  BY RowGrows DEF Numbered, IndexNumbers
<1>b. del.seq \in Nat
  BY DEF Deletes, Seqs
<1>1. CASE del' = del
  <2>1. row.seq > del.seq
    BY <1>1, Grows DEF Numbered, DeleteAhead
  <2> QED
    BY <1>1, <1>a, <1>b, <2>1
<1>2. CASE DeleteNext /\ del'.seq = del.seq /\ del' # del
  <2>1. /\ [del EXCEPT !.at = "gate"].at = "gate" /\ [del EXCEPT !.at = "post"].at = "post"
        /\ NoDelete.at = "idle"
    BY DEF Deletes, NoDelete
  <2>2. DeletePosts /\ (AcceptsDelete \/ (MayRefuse(del.seq) /\ UNCHANGED server))
    BY <1>2, <2>1 DEF DeleteNext, DeleteFindsFile, DeletePassesGate, DeletePosts, DeleteAnswered
  <2>3. AcceptsDelete => row'.seq = row.seq + 1
    BY DEF AcceptsDelete
  <2> QED
    BY <1>2, <1>a, <1>b, <2>2, <2>3 DEF MayRefuse
<1>3. CASE del' = NoDelete
  BY <1>3 DEF NoDelete
<1> QED
  BY <1>1, <1>2, <1>3, DeleteStep

LEMMA IndexNumbersStep ==
  ASSUME TypeOK, Named, Numbered, Next
  PROVE  IndexNumbers' /\ RowNumbers'
<1> USE Fields
<1>a. /\ row.seq \in Nat /\ row'.seq \in Nat /\ row.seq <= row'.seq
      /\ row' = row \/ (row'.seq = row.seq + 1 /\ row'.hash # None)
  BY RowGrows, ServerStep
<1>b. /\ cursor <= row.seq /\ stored.cursor <= row.seq /\ entry.seq <= row.seq
      /\ stored.entry.seq <= row.seq /\ del.seq <= row.seq /\ lane.seq <= row.seq
      /\ cursor \in Nat /\ stored.cursor \in Nat /\ entry.seq \in Nat /\ stored.entry.seq \in Nat
      /\ del.seq \in Nat /\ lane.seq \in Nat
  BY DEF Numbered, IndexNumbers, LaneNumbers, Seqs, Entries, Deletes
<1>c. entry' \in Entries
  BY EntryTypesStep DEF EntryTypes
<1>d. entry'.seq \in Nat
  BY <1>c DEF Entries, Seqs
<1>1. cursor' <= row.seq /\ cursor' \in Nat
  BY <1>b, CursorStep DEF Numbered
<1>2. entry'.seq <= row.seq /\ (entry'.hash # None => row.seq > 0)
  BY EntryNumbersStep
<1>3. /\ stored'.cursor <= row.seq /\ stored'.cursor \in Nat
      /\ stored'.entry.seq <= row.seq /\ stored'.entry.seq \in Nat
  BY <1>b, <1>d, <1>2, StoredStep DEF Alike
<1>4. del'.seq <= row.seq /\ del'.seq \in Nat
  <2>1. NoDelete.seq = 0
    BY DEF NoDelete
  <2> QED
    BY <1>a, <1>b, <2>1, DeleteStep
<1>5. stored'.entry.hash # None => row.seq > 0
  BY <1>2, StoredStep DEF Alike, Numbered, RowNumbers
<1>6. del'.at # "idle" => row.seq > 0
  BY DeleteStep DEF Numbered, RowNumbers, NoDelete
<1>7. IndexNumbers'
  BY <1>a, <1>d, <1>1, <1>2, <1>3, <1>4 DEF IndexNumbers
<1>8. RowNumbers'
  <2>1. (row.live => row.seq > 0) /\ (row.seq > 0 => row.hash # None)
    BY DEF Numbered, RowNumbers
  <2> QED
    BY <1>a, <1>2, <1>5, <1>6, <2>1 DEF RowNumbers
<1> QED
  BY <1>7, <1>8

LEMMA DecisionStays ==
  ASSUME TypeOK, Named, LaneNumbers, Next, entry.decision = "none",
         lane.at \notin {"stat", "read"}, ~Crash
  PROVE  entry'.decision = "none"
<1> USE Fields
<1>1. NoEntry.decision = "none" /\ Undecided(entry).decision = "none"
  BY DEF NoEntry, Undecided, Entries
<1>2. CASE Kept(entry, entry') \/ Dropped \/ Republishing \/ Refused
  BY <1>1, <1>2 DEF Kept, Dropped, Republishing, Refused
<1>3. CASE LiveUnindexed \/ LiveIndexed \/ LiveFindsFile
  BY <1>1, <1>3, LiveStep
<1>4. CASE TombstoneFindsFile \/ TombstoneDecides
  BY <1>4, TombstoneStep
<1>5. CASE RepublishAcked /\ lane.acked > entry.seq /\ Holds("republish")
  BY <1>5, RepublishedStep
<1>6. ASSUME NEW u \in Slots, UploadSends(u), entry' = Skipped PROVE entry'.decision = "none"
  BY <1>6, SkippedStep
<1>7. ASSUME NEW u \in Slots, UploadAcked(u), ups[u].seq > entry.seq PROVE entry'.decision = "none"
  BY <1>7, AnswerStep
<1> QED
  BY <1>2, <1>3, <1>4, <1>5, <1>6, <1>7, EntryStep

LEMMA LaneNumbersStep ==
  ASSUME TypeOK, Named, Numbered, Next
  PROVE  LaneNumbers' /\ LaneCurrent'
<1> USE Fields
<1>a. /\ row.seq \in Nat /\ row'.seq \in Nat /\ row.seq <= row'.seq
      /\ row' = row \/ (row'.seq = row.seq + 1 /\ row'.hash # None)
  BY RowGrows, ServerStep
<1>b. /\ lane.seq <= row.seq /\ lane.acked <= row.seq /\ entry.seq <= row.seq /\ cursor <= row.seq
      /\ lane.seq \in Nat /\ lane.acked \in Nat /\ entry.seq \in Nat /\ cursor \in Nat
      /\ LaneNumbers /\ LaneCurrent
  BY DEF Numbered, LaneNumbers, IndexNumbers, Seqs
<1>1. CASE lane' = lane
  <2>1. lane.at \in Walking \cup {"answer"} => cursor' = cursor
    <3>1. LaneFlushes => lane'.at # "flush"
      BY <1>b DEF LaneFlushes, LaneGoes, Lanes, NoLane
    <3>2. Crash => lane'.at \notin Walking \cup {"answer"}
      BY DEF Crash, NoLane, Walking
    <3> QED
      BY <1>1, <1>b, <3>1, <3>2, CursorStep
  <2>2. lane.at = "live" => entry'.decision = "none"
    <3>1. Crash => lane'.at # "live"
      BY DEF Crash, NoLane
    <3>2. lane.at = "live" => entry.decision = "none"
      BY <1>b DEF LaneNumbers
    <3> QED
      BY <1>1, <1>b, <3>1, <3>2, DecisionStays
  <2>3. LaneNumbers'
    BY <1>1, <1>a, <1>b, <2>1, <2>2 DEF LaneNumbers
  <2>4. LaneCurrent'
    BY <1>1, <1>a, <1>b DEF LaneCurrent
  <2> QED
    BY <2>3, <2>4
<1>2. CASE LaneRests /\ lane'.seq \in {0, lane.seq, entry.seq} /\ lane'.acked \in {0, lane.acked}
  <2>1. lane'.seq <= row'.seq /\ lane'.acked <= row'.seq
    BY <1>2, <1>a, <1>b
  <2> QED
    BY <1>2, <2>1 DEF LaneRests, LaneNumbers, LaneCurrent, Walking
<1>3. CASE LaneLists
  <2>1. /\ lane' = [NoLane EXCEPT !.at = "apply", !.seq = row.seq, !.hash = row.hash, !.live = row.live]
        /\ row.seq > cursor /\ UNCHANGED <<row, cursor>>
    BY <1>3 DEF LaneLists
  <2>2. /\ lane'.at = "apply" /\ lane'.seq = row.seq /\ lane'.hash = row.hash /\ lane'.live = row.live
        /\ lane'.acked = 0 /\ lane'.deferred = FALSE
    BY <2>1 DEF NoLane
  <2> QED
    BY <2>1, <2>2, <1>a DEF LaneNumbers, LaneCurrent
<1>4. CASE LaneWalks
  <2>1. lane'.at \notin {"send", "post", "answer"} /\ lane.seq > cursor
    BY <1>4, <1>b DEF LaneWalks, LaneNumbers, Walking
  <2>2. LaneNumbers'
    <3>1. lane'.at # "flush" => ~lane'.deferred
      <4>1. lane.at \in {"apply", "stat"} => ~lane.deferred
        BY <1>b DEF LaneNumbers
      <4> QED
        BY <1>4, <4>1 DEF LaneWalks
    <3> QED
      BY <1>4, <1>a, <1>b, <2>1, <3>1 DEF LaneWalks, LaneNumbers
  <2>3. LaneCurrent'
    BY <1>4, <1>b, <2>1 DEF LaneWalks, LaneCurrent
  <2> QED
    BY <2>2, <2>3
<1>5. CASE /\ RepublishReads /\ lane'.at = "send" /\ lane'.hash = file /\ file # None
           /\ lane'.seq = lane.seq /\ lane'.acked = lane.acked
  BY <1>5, <1>a, <1>b DEF LaneNumbers, LaneCurrent, Walking
<1>6. CASE /\ RepublishSends /\ lane.at = "send" /\ lane'.at = "post" /\ lane'.hash = lane.hash
           /\ lane'.seq = lane.seq /\ lane'.acked = lane.acked
  BY <1>6, <1>a, <1>b DEF LaneNumbers, LaneCurrent, Walking
<1>7. CASE /\ RepublishPosts /\ Accepts(lane.hash) /\ lane'.at = "answer" /\ lane'.hash = lane.hash
           /\ lane'.seq = lane.seq /\ lane'.acked = row.seq + 1 /\ UNCHANGED <<entry, cursor>>
  <2>1. row'.seq = row.seq + 1 /\ row'.live = TRUE /\ row'.hash = lane.hash
    BY <1>7 DEF Accepts
  <2>2. lane.hash # None
    BY <1>7, <1>b DEF RepublishPosts, LaneNumbers
  <2> QED
    BY <1>7, <1>a, <1>b, <2>1, <2>2 DEF LaneNumbers, LaneCurrent, Walking
<1> QED
  BY <1>b, <1>1, <1>2, <1>3, <1>4, <1>5, <1>6, <1>7, LaneStep

(* An upload that posts gets the number of the row the server makes of it.   *)
LEMMA UploadStep ==
  ASSUME TypeOK, Next, NEW v \in Slots
  PROVE  \/ ups'[v] = ups[v]
         \/ ups'[v].at \notin {"send", "post", "answer"}
         \/ UploadReads(v) /\ ups'[v].at = "send" /\ ups'[v].content = file /\ file # None
         \/ UploadSends(v) /\ ups[v].at = "send" /\ ups'[v].at = "post" /\ ups'[v].content = ups[v].content
         \/ /\ UploadPosts(v) /\ Accepts(ups[v].content) /\ ups'[v].at = "answer"
            /\ ups'[v].content = ups[v].content /\ ups'[v].seq = row.seq + 1
<1> USE Fields
<1>a. NoUpload.at = "idle" /\ ups[v] \in Uploads
  BY DEF NoUpload
<1>b. ASSUME NEW u \in Slots, ups' = [ups EXCEPT ![u] = NoUpload]
      PROVE  ups'[v] = ups[v] \/ ups'[v].at \notin {"send", "post", "answer"}
  BY <1>a, <1>b
<1>1. ASSUME NEW u \in Slots, UploadStarts(u) \/ UploadPassesGate(u)
      PROVE  ups'[v] = ups[v] \/ ups'[v].at \notin {"send", "post", "answer"}
  <2>1. \/ ups' = ups \/ ups' = [ups EXCEPT ![u] = NoUpload]
        \/ ups' = [ups EXCEPT ![u].at = "gate"]
        \/ ups' = [ups EXCEPT ![u].at = "read"]
    BY <1>1 DEF UploadStarts, UploadPassesGate, UploadEnds
  <2> QED
    BY <1>a, <1>b, <2>1 DEF Uploads
<1>2. ASSUME NEW u \in Slots, UploadReads(u)
      PROVE  \/ ups'[v] = ups[v] \/ ups'[v].at \notin {"send", "post", "answer"}
             \/ UploadReads(v) /\ ups'[v].at = "send" /\ ups'[v].content = file /\ file # None
  <2>1. \/ ups' = [ups EXCEPT ![u] = NoUpload]
        \/ file # None /\ ups' = [ups EXCEPT ![u] = [at |-> "send", content |-> file, seq |-> 0]]
    BY <1>2 DEF UploadReads, UploadEnds
  <2>2. CASE file # None /\ ups' = [ups EXCEPT ![u] = [at |-> "send", content |-> file, seq |-> 0]]
    BY <1>2, <2>2
  <2> QED
    BY <1>b, <2>1, <2>2
<1>3. ASSUME NEW u \in Slots, UploadSends(u)
      PROVE  \/ ups'[v] = ups[v] \/ ups'[v].at \notin {"send", "post", "answer"}
             \/ /\ UploadSends(v) /\ ups[v].at = "send" /\ ups'[v].at = "post"
                /\ ups'[v].content = ups[v].content
  <2>1. ups[u].at = "send"
        /\ \/ ups' = [ups EXCEPT ![u] = NoUpload]
           \/ ups' = [ups EXCEPT ![u].at = "post", ![u].seq = entry.seq]
    BY <1>3 DEF UploadSends, UploadEnds
  <2>2. CASE ups' = [ups EXCEPT ![u].at = "post", ![u].seq = entry.seq]
    <3>1. u = v => ups'[v].at = "post" /\ ups'[v].content = ups[v].content
      BY <1>a, <2>2 DEF Uploads
    <3> QED
      BY <1>3, <2>1, <2>2, <3>1
  <2> QED
    BY <1>b, <2>1, <2>2
<1>4. ASSUME NEW u \in Slots, UploadPosts(u)
      PROVE  \/ ups'[v] = ups[v] \/ ups'[v].at \notin {"send", "post", "answer"}
             \/ /\ UploadPosts(v) /\ Accepts(ups[v].content) /\ ups'[v].at = "answer"
                /\ ups'[v].content = ups[v].content /\ ups'[v].seq = row.seq + 1
  <2>1. \/ ups' = [ups EXCEPT ![u] = NoUpload]
        \/ Accepts(ups[u].content) /\ ups' = [ups EXCEPT ![u].at = "answer", ![u].seq = row.seq + 1]
    BY <1>4 DEF UploadPosts, UploadEnds
  <2>2. CASE Accepts(ups[u].content) /\ ups' = [ups EXCEPT ![u].at = "answer", ![u].seq = row.seq + 1]
    <3>1. u = v => ups'[v].at = "answer" /\ ups'[v].content = ups[v].content /\ ups'[v].seq = row.seq + 1
      BY <1>a, <2>2 DEF Uploads
    <3> QED
      BY <1>4, <2>2, <3>1
  <2> QED
    BY <1>b, <2>1, <2>2
<1>5. ASSUME NEW u \in Slots, UploadAcked(u)
      PROVE  ups'[v] = ups[v] \/ ups'[v].at \notin {"send", "post", "answer"}
  BY <1>b, <1>5 DEF UploadAcked, UploadEnds
<1>6. CASE Crash
  BY <1>a, <1>6 DEF Crash
<1> QED
  BY <1>1, <1>2, <1>3, <1>4, <1>5, <1>6, UploadsChange

LEMMA UploadNumbersStep ==
  ASSUME TypeOK, Numbered, Next
  PROVE  UploadNumbers'
<1> USE Fields
<1>a. /\ row.seq \in Nat /\ row'.seq \in Nat /\ row.seq <= row'.seq
      /\ row' = row \/ row'.seq = row.seq + 1
  BY RowGrows
<1> SUFFICES ASSUME NEW v \in Slots
             PROVE  /\ ups'[v].at \in {"send", "post", "answer"} => ups'[v].content # None
                    /\ ups'[v].at = "answer" => ups'[v].seq > 0 /\ ups'[v].seq <= row'.seq
                    /\ ups'[v].at = "answer" /\ ups'[v].seq = row'.seq
                         => row'.live /\ row'.hash = ups'[v].content
  BY DEF UploadNumbers
<1>b. /\ ups[v].at \in {"send", "post", "answer"} => ups[v].content # None
      /\ ups[v].at = "answer" => ups[v].seq > 0 /\ ups[v].seq <= row.seq
      /\ ups[v].at = "answer" /\ ups[v].seq = row.seq => row.live /\ row.hash = ups[v].content
      /\ ups[v].seq \in Nat
  BY DEF Numbered, UploadNumbers, Seqs
<1>1. CASE ups'[v] = ups[v]
  BY <1>a, <1>b, <1>1
<1>2. CASE UploadPosts(v) /\ Accepts(ups[v].content) /\ ups'[v].at = "answer"
            /\ ups'[v].content = ups[v].content /\ ups'[v].seq = row.seq + 1
  <2>1. row'.seq = row.seq + 1 /\ row'.live = TRUE /\ row'.hash = ups[v].content
    BY <1>2 DEF Accepts
  <2>2. ups[v].content # None
    BY <1>2, <1>b DEF UploadPosts
  <2> QED
    BY <1>2, <1>a, <2>1, <2>2
<1> QED
  BY <1>b, <1>1, <1>2, UploadStep

LEMMA NumberedStep ==
  ASSUME TypeOK, Named, Numbered, Next
  PROVE  Numbered'
<1>1. IndexNumbers' /\ RowNumbers' /\ LaneNumbers' /\ LaneCurrent' /\ UploadNumbers' /\ DeleteAhead'
  BY IndexNumbersStep, LaneNumbersStep, UploadNumbersStep, DeleteAheadStep
<1>2. Current(entry)' /\ Current(stored.entry)'
  BY CurrentStep, StoredCurrentStep
<1> QED
  BY <1>1, <1>2 DEF Numbered, Current

-----------------------------------------------------------------------------
(* What the cursor has passed, or is about to pass, the entry accounts for:  *)
(* a live row has its number in it, a deleted one has removed the entry, is  *)
(* decided in it, or is one of a path that is left alone.                    *)
Accounts(e) ==
  IF row.live THEN e.seq = row.seq
  ELSE e = NoEntry \/ e.skipped \/ (e.decision # "none" /\ e.seq = row.seq)
Passed == row.seq <= cursor \/ (lane.at = "flush" /\ lane.seq = row.seq /\ ~lane.deferred)
Passing ==
  \/ row.seq <= cursor
  \/ lane.at \in {"stat", "read", "flush"} /\ lane.seq = row.seq /\ ~lane.deferred

EntryAccounts == Clean /\ Passed => Accounts(entry)
StoredAccounts == Clean /\ row.seq <= stored.cursor => Accounts(stored.entry)
(* No upload answers behind a deleted row that has been taken.               *)
Answered == Clean /\ Passing /\ ~row.live => \A u \in Slots : ups[u].at # "answer"
Accounted == EntryAccounts /\ StoredAccounts /\ Answered

LEMMA CleanBefore ==
  ASSUME TypeOK, Next, Clean'
  PROVE  Clean
  BY Grows DEF Clean

(* A row that the server has just made is not passed.                        *)
LEMMA NewRowAhead ==
  ASSUME TypeOK, Named, Numbered, Next, row' # row
  PROVE  ~Passing' /\ ~Passed' /\ ~(row'.seq <= stored'.cursor)
<1> USE Fields
<1>1. row'.seq = row.seq + 1 /\ UNCHANGED <<cursor, stored>> /\ row.seq \in Nat
  BY ServerStep DEF Seqs
<1>2. cursor <= row.seq /\ stored.cursor <= row.seq /\ cursor \in Nat /\ stored.cursor \in Nat
  BY DEF Numbered, IndexNumbers, Seqs
<1>3. lane'.at \in {"stat", "read", "flush"} => lane'.seq <= row.seq /\ lane'.seq \in Nat
  <2>1. lane.seq <= row.seq /\ lane.seq \in Nat
    BY DEF Numbered, LaneNumbers, Seqs
  <2>2. LaneLists => row' = row
    BY DEF LaneLists
  <2> QED
    BY <2>1, <2>2, LaneStep DEF Numbered, LaneRests, LaneWalks, Walking
<1> QED
  BY <1>1, <1>2, <1>3 DEF Passing, Passed

(* Who passes a row that was not passed.                                     *)
LEMMA PassingStep ==
  ASSUME TypeOK, Named, Numbered, Next, row' = row
  PROVE  /\ Passing' => Passing \/ Crash \/ TombstoneTaken
                          \/ LiveUnindexed \/ LiveIndexed \/ LiveFindsFile
         /\ Passed' => \/ Passed \/ Crash
                       \/ /\ lane.at \in Walking \ {"flush"} /\ lane'.at = "flush" /\ LaneWalks
                          /\ lane.seq = row.seq /\ ~lane'.deferred
<1> USE Fields
<1>a. LaneNumbers /\ lane.seq \in Nat /\ row.seq \in Nat /\ cursor \in Nat /\ lane.seq <= row.seq
      /\ cursor <= row.seq
  BY DEF Numbered, LaneNumbers, IndexNumbers, Seqs
<1>1. CASE row.seq <= cursor' /\ ~(row.seq <= cursor)
  <2>1. \/ Crash
        \/ lane.at = "flush" /\ ~lane.deferred /\ cursor' = lane.seq
    BY <1>1, <1>a, CursorStep
  <2> QED
    BY <1>1, <1>a, <2>1 DEF Passing, Passed
<1>2. CASE /\ lane'.at \in {"stat", "read", "flush"} /\ lane'.seq = row.seq /\ ~lane'.deferred
           /\ lane' # lane
  <2>1. LaneWalks
    <3>1. LaneLists => lane'.at = "apply"
      BY DEF LaneLists, NoLane
    <3> QED
      BY <1>2, <1>a, <3>1, LaneStep DEF LaneRests, Walking
  <2>2. lane.seq = row.seq /\ lane.at \in Walking
    BY <1>2, <2>1 DEF LaneWalks
  <2>3. lane.at # "flush"
    <3>1. ~(LiveUnindexed \/ LiveIndexed \/ LiveFindsFile \/ TombstoneTaken \/ TombstoneFindsFile
             \/ TombstoneDecides) \/ lane.at # "flush"
      BY DEF LiveUnindexed, LiveIndexed, LiveFindsFile, TombstoneTaken, TombstoneFindsFile,
             TombstoneDecides
    <3>2. LaneFlushes => lane'.at \notin Walking
      BY <1>a DEF LaneFlushes, LaneGoes, Lanes, NoLane, Walking
    <3>3. lane.at = "flush" => ~(LaneLists \/ Reconcile \/ ReconcileStats \/ ReconcileTrashes
             \/ RepublishReads \/ RepublishSends \/ RepublishPosts \/ RepublishAcked)
      BY DEF LaneLists, Reconcile, ReconcileStats, ReconcileTrashes, RepublishReads,
             RepublishSends, RepublishPosts, RepublishAcked
    <3>4. Crash => lane'.at \notin Walking
      BY DEF Crash, NoLane, Walking
    <3> QED
      BY <1>2, <2>1, <3>1, <3>2, <3>3, <3>4, LaneChanges DEF LaneWalks
  <2>4. \/ LiveUnindexed \/ LiveIndexed \/ LiveFindsFile \/ TombstoneTaken
        \/ lane.at \in {"stat", "read"} /\ ~lane.deferred
    <3>1. CASE lane.at \in {"stat", "read"}
      BY <3>1, <1>a DEF LaneNumbers
    <3>2. CASE lane.at \in {"apply", "live"}
      <4>1. ~(TombstoneFindsFile \/ TombstoneDecides \/ LaneFlushes \/ LaneLists \/ Reconcile
             \/ ReconcileStats \/ ReconcileTrashes
             \/ RepublishReads \/ RepublishSends \/ RepublishPosts \/ RepublishAcked)
        BY <3>2 DEF TombstoneFindsFile, TombstoneDecides, LaneFlushes, LaneLists, Reconcile,
             ReconcileStats, ReconcileTrashes, RepublishReads,
             RepublishSends, RepublishPosts, RepublishAcked
      <4>2. Crash => lane'.at \notin Walking
        BY DEF Crash, NoLane, Walking
      <4> QED
        BY <1>2, <2>1, <4>1, <4>2, LaneChanges DEF LaneWalks
    <3> QED
      BY <2>2, <2>3, <3>1, <3>2 DEF Walking
  <2>5. Passing \/ TombstoneTaken \/ LiveUnindexed \/ LiveIndexed \/ LiveFindsFile
    BY <2>2, <2>4 DEF Passing
  <2>6. Passed' => \/ Passed
                   \/ /\ lane.at \in Walking \ {"flush"} /\ lane'.at = "flush" /\ LaneWalks
                      /\ lane.seq = row.seq /\ ~lane'.deferred
    <3>1. Passed' => row.seq <= cursor \/ lane'.at = "flush"
      BY <2>1 DEF Passed, LaneWalks
    <3> QED
      BY <1>2, <2>1, <2>2, <2>3, <3>1 DEF Passed
  <2> QED
    BY <2>5, <2>6
<1>3. Passed' => Passed \/ row.seq <= cursor' \/ (lane' # lane /\ lane'.at = "flush"
                                                   /\ lane'.seq = row.seq /\ ~lane'.deferred)
  BY DEF Passed
<1>4. Passing' => Passing \/ row.seq <= cursor'
                  \/ (lane' # lane /\ lane'.at \in {"stat", "read", "flush"}
                       /\ lane'.seq = row.seq /\ ~lane'.deferred)
  BY DEF Passing
<1>5. row.seq <= cursor => Passed /\ Passing
  BY DEF Passed, Passing
<1> QED
  BY <1>1, <1>2, <1>3, <1>4, <1>5 DEF Passed, Passing

LEMMA AnsweredStep ==
  ASSUME TypeOK, Named, Numbered, Answered, Next
  PROVE  Answered'
<1> USE Fields
<1> SUFFICES ASSUME Clean', Passing', ~row'.live, NEW v \in Slots PROVE ups'[v].at # "answer"
  BY DEF Answered
<1>0. Clean /\ row' = row
  BY CleanBefore, NewRowAhead
<1>1. CASE Passing
  <2>1. ups[v].at # "answer"
    BY <1>0, <1>1 DEF Answered
  <2>2. ~Accepts(ups[v].content)
    BY <1>0 DEF Accepts, Seqs
  <2> QED
    BY <2>1, <2>2, UploadStep
<1>2. CASE Crash
  BY <1>2 DEF Crash, NoUpload
<1>3. CASE TombstoneTaken
  <2>1. lane' = [lane EXCEPT !.at = "flush", !.deferred = TRUE] => ~Passing' \/ Passing
    <3>1. lane' = [lane EXCEPT !.at = "flush", !.deferred = TRUE] => lane'.deferred = TRUE
      BY DEF Lanes
    <3>2. cursor' = cursor
      BY <1>3 DEF TombstoneTaken
    <3> QED
      BY <1>0, <3>1, <3>2 DEF Passing
  <2>2. lane' # [lane EXCEPT !.at = "flush", !.deferred = TRUE] => ~queued
    BY <1>3 DEF TombstoneTaken
  <2>3. ~queued /\ Uploading => "passed" \in lapses'
    BY <1>3 DEF TombstoneTaken
  <2>4. ups' = ups
    BY <1>3 DEF TombstoneTaken
  <2> QED
    BY <1>1, <2>1, <2>2, <2>3, <2>4 DEF Clean, Uploading
<1>4. CASE LiveUnindexed \/ LiveIndexed \/ LiveFindsFile
  <2>1. lane.at \in Walking /\ lane.live /\ UNCHANGED <<row, cursor>>
    BY <1>4, LiveStep DEF Numbered
  <2>2. lane'.seq = lane.seq
    BY <1>4 DEF LiveUnindexed, LiveIndexed, LiveFindsFile, LaneGoes, Lanes
  <2>3. row.live = lane.live \/ Passing
    BY <1>0, <2>1, <2>2 DEF Passing, Numbered, LaneCurrent
  <2> QED
    BY <1>0, <1>1, <2>1, <2>3
<1> QED
  BY <1>0, <1>1, <1>2, <1>3, <1>4, PassingStep

(* A row that is passed stays accounted for, whatever happens to the entry.  *)
LEMMA AccountsStays ==
  ASSUME TypeOK, Named, Numbered, Answered, Clean, Passed, Accounts(entry), Next, ~Crash,
         row' = row
  PROVE  Accounts(entry)'
<1> USE Fields, Blanks
<1>a. /\ Current(entry) /\ (row.live => row.seq > 0 /\ row.hash # None) /\ row.live \in BOOLEAN
      /\ entry.seq \in Nat /\ row.seq \in Nat /\ cursor \in Nat /\ entry.seq <= row.seq
      /\ LaneNumbers /\ Passing
  BY DEF Numbered, RowNumbers, IndexNumbers, Seqs, Passed, Passing
<1>b. NoEntry.decision = "none" /\ NoEntry.hash = None /\ NoEntry.seq = 0
  BY DEF NoEntry
<1>c. row.live => entry.seq = row.seq /\ entry.hash = row.hash /\ entry.decision = "none"
  BY <1>a DEF Accounts, Current
<1>1. CASE Kept(entry, entry')
  BY <1>1 DEF Kept, Accounts
<1>2. CASE Dropped
  <2>1. ~row.live
    <3>1. CASE entry.hash = None \/ entry.decision = "delete"
      BY <1>a, <1>c, <3>1
    <3>2. CASE DeleteAnswered /\ entry.seq = del.seq
      <4>1. row.seq > del.seq
        BY <3>2 DEF Numbered, DeleteAhead, DeleteAnswered, Clean
      <4> QED
        BY <1>a, <1>c, <3>2, <4>1
    <3> QED
      BY <1>2, <3>1, <3>2 DEF Dropped
  <2> QED
    BY <1>2, <2>1 DEF Dropped, Accounts
<1>3. CASE Republishing
  <2>1. entry'.seq = entry.seq /\ entry'.skipped = entry.skipped /\ entry'.decision = "republish"
    BY <1>3 DEF Republishing, Entries
  <2>2. entry.decision = "delete"
    BY <1>3 DEF Republishing
  <2> QED
    BY <2>1, <2>2, <1>b, <1>c DEF Accounts
<1>4. CASE Refused
  <2>1. row.seq > entry.seq /\ entry' = Undecided(entry)
    BY <1>4 DEF Refused
  <2>2. Undecided(entry).skipped = entry.skipped
    BY DEF Undecided, Entries
  <2>3. ~row.live /\ entry.skipped
    BY <1>4, <1>a, <1>b, <2>1 DEF Accounts, Refused
  <2> QED
    BY <2>1, <2>2, <2>3 DEF Accounts
<1>5. ASSUME NEW u \in Slots, UploadSends(u), entry' = Skipped PROVE Accounts(entry)'
  BY <1>5, SkippedStep DEF Accounts
<1>6. ASSUME NEW u \in Slots, UploadAcked(u), ups[u].seq > entry.seq PROVE Accounts(entry)'
  <2>1. ups[u].at = "answer" /\ ups[u].seq \in Nat
    BY <1>6 DEF UploadAcked, Seqs
  <2>2. row.live
    BY <1>a, <2>1 DEF Answered
  <2>3. ups[u].seq <= row.seq
    BY <2>1 DEF Numbered, UploadNumbers
  <2> QED
    BY <1>6, <1>a, <1>c, <2>1, <2>2, <2>3
<1>7. CASE LiveUnindexed \/ LiveIndexed \/ LiveFindsFile
  <2>1. lane.at \in {"apply", "live"} /\ lane.seq > cursor /\ lane.seq <= row.seq /\ lane.seq \in Nat
    BY <1>7, <1>a DEF LiveUnindexed, LiveIndexed, LiveFindsFile, LaneNumbers, Walking, Seqs
  <2> QED
    BY <1>a, <2>1 DEF Passed
<1>8. CASE TombstoneFindsFile \/ TombstoneDecides
  <2>1. lane.at \in {"stat", "read"} /\ lane.seq > cursor /\ lane.seq <= row.seq /\ lane.seq \in Nat
    BY <1>8, <1>a DEF TombstoneFindsFile, TombstoneDecides, LaneNumbers, Walking, Seqs
  <2> QED
    BY <1>a, <2>1 DEF Passed
<1>9. CASE RepublishAcked /\ lane.acked > entry.seq /\ Holds("republish")
  <2>1. lane.at = "answer"
    BY <1>9 DEF RepublishAcked
  <2>2. lane.acked > cursor /\ lane.acked <= row.seq /\ lane.acked \in Nat
    BY <1>a, <2>1 DEF LaneNumbers, Seqs
  <2> QED
    BY <1>a, <2>1, <2>2 DEF Passed
<1> QED
  BY <1>1, <1>2, <1>3, <1>4, <1>5, <1>6, <1>7, <1>8, <1>9, EntryStep

(* A row that the lane has just taken is accounted for.                      *)
LEMMA AccountsTaken ==
  ASSUME TypeOK, Named, Numbered, Clean', Next, row' = row,
         lane.at \in Walking \ {"flush"}, lane'.at = "flush", LaneWalks, lane.seq = row.seq,
         ~lane'.deferred
  PROVE  Accounts(entry)'
<1> USE Fields, Blanks
<1>a. /\ lane.live = row.live /\ entry.seq <= row.seq /\ entry.seq \in Nat /\ row.seq \in Nat
      /\ lane.live \in BOOLEAN
  BY DEF Numbered, LaneCurrent, IndexNumbers, Seqs, Lanes
<1>b. \A e \in Entries : Recorded(e).seq = lane.seq
  BY DEF Recorded, Entries
<1>c. lane.seq >= entry.seq /\ ~(lane.seq < entry.seq)
  BY <1>a
<1>1. CASE LiveUnindexed
  <2>1. lane.live
    BY <1>1 DEF LiveUnindexed
  <2>2. "passed" \notin lapses'
    BY DEF Clean
  <2>3. file = None \/ file = lane.hash
    BY <1>1, <2>2 DEF LiveUnindexed
  <2>4. entry'.seq = lane.seq
    BY <1>1, <2>3 DEF LiveUnindexed, NoEntry
  <2> QED
    BY <1>a, <2>1, <2>4 DEF Accounts
<1>2. CASE LiveIndexed
  <2>1. lane.live
    BY <1>2 DEF LiveIndexed
  <2>2. ~LaneGoes("live")
    BY DEF LaneGoes, Lanes
  <2>3. entry' = Recorded(entry)
    BY <1>2, <1>c, <2>2 DEF LiveIndexed
  <2> QED
    BY <1>a, <1>b, <2>1, <2>3 DEF Accounts
<1>3. CASE LiveFindsFile
  <2>1. lane.live
    BY <1>3 DEF LiveFindsFile, Numbered, LaneNumbers
  <2>2. Known
    BY <1>3 DEF LiveFindsFile, Clean
  <2>3. [entry EXCEPT !.hydrated = entry.hydrated /\ file # None] \in Entries
    BY DEF Entries
  <2>4. entry' = Recorded([entry EXCEPT !.hydrated = entry.hydrated /\ file # None])
    BY <1>3, <1>c, <2>2 DEF LiveFindsFile
  <2> QED
    BY <1>a, <1>b, <2>1, <2>3, <2>4 DEF Accounts
<1>4. CASE TombstoneTaken
  <2>1. ~row.live /\ entry' = entry
    BY <1>4, <1>a DEF TombstoneTaken
  <2>2. [lane EXCEPT !.at = "flush", !.deferred = TRUE].deferred = TRUE
    BY DEF Lanes
  <2>3. LaneGoes("stat") => lane'.at = "stat"
    BY DEF LaneGoes, Lanes
  <2>4. ~Known \/ lane.seq < entry.seq \/ (Decided /\ entry.seq = lane.seq)
    BY <1>4, <2>2, <2>3 DEF TombstoneTaken
  <2> QED
    BY <1>c, <2>1, <2>4 DEF Accounts, Known, Decided
<1>5. CASE TombstoneFindsFile \/ TombstoneDecides
  <2>1. lane.at \in {"stat", "read"}
    BY <1>5 DEF TombstoneFindsFile, TombstoneDecides
  <2>2. ~row.live
    BY <1>a, <2>1 DEF Numbered, LaneNumbers
  <2>3. \/ entry' = entry /\ Superseded
        \/ entry' = NoEntry
        \/ entry'.seq = lane.seq /\ entry'.decision # "none"
    BY <1>5, TombstoneStep
  <2> QED
    BY <1>c, <2>2, <2>3 DEF Accounts, Superseded, Known
<1>6. CASE \/ LaneLists \/ LaneFlushes \/ Reconcile \/ ReconcileStats \/ ReconcileTrashes
           \/ RepublishReads \/ RepublishSends \/ RepublishPosts \/ RepublishAcked
  BY <1>6 DEF LaneLists, LaneFlushes, Reconcile, ReconcileStats, ReconcileTrashes,
      RepublishReads, RepublishSends, RepublishPosts, RepublishAcked, Walking
<1>7. CASE Crash
  BY <1>7 DEF Crash, NoLane
<1> QED
  BY <1>1, <1>2, <1>3, <1>4, <1>5, <1>6, <1>7, LaneChanges

LEMMA EntryAccountsStep ==
  ASSUME TypeOK, Named, Numbered, Accounted, Next
  PROVE  EntryAccounts'
<1> USE Fields
<1> SUFFICES ASSUME Clean', Passed' PROVE Accounts(entry)'
  BY DEF EntryAccounts
<1>0. Clean /\ row' = row
  BY CleanBefore, NewRowAhead
<1>1. CASE Crash
  <2>1. Alike(stored.entry, stored'.entry) /\ entry' = stored'.entry /\ cursor' = stored.cursor
    BY <1>1, Overwrites DEF Crash
  <2>2. lane'.at = "reconcile"
    BY <1>1 DEF Crash, NoLane
  <2>3. row.seq <= stored.cursor
    BY <1>0, <2>1, <2>2 DEF Passed
  <2>4. Accounts(stored.entry)
    BY <1>0, <2>3 DEF Accounted, StoredAccounts
  <2>5. stored.entry = NoEntry => entry' = NoEntry
    BY <2>1, <1>1, OverwritesLeave
  <2> QED
    BY <1>0, <2>1, <2>4, <2>5 DEF Accounts, Alike
<1>2. CASE Passed /\ ~Crash
  <2>1. Accounts(entry)
    BY <1>0, <1>2 DEF Accounted, EntryAccounts
  <2> QED
    BY <1>0, <1>2, <2>1, AccountsStays DEF Accounted
<1> QED
  BY <1>0, <1>1, <1>2, PassingStep, AccountsTaken

LEMMA StoredAccountsStep ==
  ASSUME TypeOK, Named, Numbered, Accounted, Next
  PROVE  StoredAccounts'
<1> USE Fields
<1> SUFFICES ASSUME Clean', row'.seq <= stored'.cursor PROVE Accounts(stored.entry)'
  BY DEF StoredAccounts
<1>0. Clean /\ row' = row
  BY CleanBefore, NewRowAhead
<1>1. CASE /\ Alike(stored.entry, stored'.entry) /\ stored'.cursor = stored.cursor
           /\ stored.entry = NoEntry => stored'.entry = NoEntry
  <2>1. Accounts(stored.entry)
    BY <1>0, <1>1 DEF Accounted, StoredAccounts
  <2> QED
    BY <1>0, <1>1, <2>1 DEF Accounts, Alike
<1>2. CASE stored'.cursor = cursor
  <2>1. Passed
    BY <1>0, <1>2 DEF Passed
  <2>2. Accounts(entry)
    BY <1>0, <2>1 DEF Accounted, EntryAccounts
  <2>3. CASE stored'.entry = entry
    BY <1>0, <2>2, <2>3 DEF Accounts
  <2>4. CASE stored'.entry = entry' /\ RepublishInstead /\ cursor' = cursor
    <3>1. ~Crash
      <4>1. RepublishInstead => lane'.at \in {"idle", "republish"}
        <5>1. [lane EXCEPT !.at = "republish", !.seq = entry.seq].at = "republish" /\ NoLane.at = "idle"
          BY DEF NoLane, Lanes
        <5> QED
          BY <5>1 DEF RepublishInstead
      <4>2. Crash => lane'.at = "reconcile"
        BY DEF Crash, NoLane
      <4> QED
        BY <2>4, <4>1, <4>2
    <3>2. Accounts(entry)'
      BY <1>0, <2>1, <2>2, <3>1, AccountsStays DEF Accounted
    <3> QED
      BY <2>4, <3>2 DEF Accounts
  <2> QED
    BY <1>1, <2>3, <2>4, StoredStep
<1> QED
  BY <1>1, <1>2, StoredStep

LEMMA AccountedStep ==
  ASSUME TypeOK, Named, Numbered, Accounted, Next
  PROVE  Accounted'
<1>1. EntryAccounts' /\ StoredAccounts'
  BY EntryAccountsStep, StoredAccountsStep
<1>2. Answered'
  BY AnsweredStep DEF Accounted
<1> QED
  BY <1>1, <1>2 DEF Accounted

-----------------------------------------------------------------------------
(* No mtime is that of a content which is still to be written, and a file    *)
(* that has the mtime of an entry has its content.                           *)
Old == {c \in Contents : c < fresh \/ c = Torn}
Olds ==
  /\ file \in Old /\ published \subseteq Old
  /\ entry.mtime \in Old \cup {Stale} /\ stored.entry.mtime \in Old \cup {Stale}
  /\ \A u \in Slots : ups[u].at \in {"send", "post"} => ups[u].content \in Old
  /\ lane.at \in {"send", "post"} => lane.hash \in Old

LEMMA OldGrows ==
  ASSUME TypeOK, Next
  PROVE  /\ Old \subseteq Old' /\ None \in Old /\ Torn \in Old
         /\ UserWrites \/ fresh' # fresh => fresh \in Old' /\ fresh \notin Old \cup {Stale}
<1> USE Fields, Blanks
<1>1. fresh' = fresh \/ (fresh' = fresh + 1 /\ fresh <= MaxContents)
  BY CountersChange DEF UserWrites, UserDeletes, PeerWrites, DeletePassesGate, DeletePosts,
      HydrationFetched, HydrationWriteFails, HydrationCompensates, LaneFlushes,
      Reconcile, ReconcileStats, RepublishInstead, ReconcileTrashes, RepublishSends,
      RepublishPosts, Crash, Fault, NoFault, UploadPassesGate, UploadSends, UploadPosts
<1>2. \A c \in Contents : c \in Nat
  BY DEF Contents, None, Torn
<1>3. UserWrites => fresh' = fresh + 1
  BY DEF UserWrites
<1> QED
  BY <1>1, <1>2, <1>3 DEF Old, None, Torn, Stale

LEMMA EntryMtime ==
  ASSUME TypeOK, Named, Numbered, Next
  PROVE  entry'.mtime \in {None, Stale, file, entry.mtime, stored.entry.mtime}
<1> USE Fields, Blanks
<1>1. CASE Kept(entry, entry') \/ Dropped
  BY <1>1 DEF Kept, Dropped, NoEntry
<1>8. CASE Republishing \/ Refused
  <2>1. /\ Undecided(entry).mtime = entry.mtime
        /\ [entry EXCEPT !.decision = "republish", !.expected = None].mtime = entry.mtime
    BY DEF Undecided, Entries
  <2> QED
    BY <1>8, <2>1 DEF Republishing, Refused
<1>2. CASE LiveUnindexed \/ LiveIndexed \/ LiveFindsFile
  <2>1. Undecided(entry).mtime = entry.mtime
    BY DEF Undecided, Entries
  <2> QED
    BY <1>2, <2>1, LiveStep DEF Numbered
<1>3. CASE TombstoneFindsFile \/ TombstoneDecides
  BY <1>3, TombstoneStep DEF NoEntry
<1>4. CASE RepublishAcked /\ lane.acked > entry.seq /\ Holds("republish")
  BY <1>4, RepublishedStep
<1>5. ASSUME NEW u \in Slots, UploadSends(u), entry' = Skipped
      PROVE  entry'.mtime = entry.mtime
  BY <1>5, SkippedStep
<1>6. ASSUME NEW u \in Slots, UploadAcked(u), ups[u].seq > entry.seq
      PROVE  entry'.mtime \in {file, entry.mtime}
  BY <1>6, AnswerStep
<1>7. CASE Crash
  BY <1>7, Overwrites DEF Crash, Alike
<1> QED
  BY <1>1, <1>2, <1>3, <1>4, <1>5, <1>6, <1>7, <1>8, EntryStep

LEMMA OldsStep ==
  ASSUME TypeOK, Named, Numbered, Backed, Olds, Next
  PROVE  Olds'
<1> USE Fields, Blanks
<1>a. Old \subseteq Old' /\ None \in Old /\ Torn \in Old
  BY OldGrows
<1>b. row.hash \in Old /\ hyd.hash \in Old
  BY <1>a DEF Backed, RowHad, HydrationHad, Had, Olds
<1>1. file' \in Old'
  <2>1. CASE UserWrites
    BY <2>1, OldGrows DEF UserWrites
  <2>2. CASE ~UserWrites
    <3>1. file' \in {file, None, hyd.hash, Torn}
      BY <2>2, DiskChanges DEF UserDeletes, HydrationCompares, HydrationWritten,
         HydrationWriteFails, HydrationCompensates, ReconcileTrashes, Crash
    <3> QED
      BY <1>a, <1>b, <3>1 DEF Olds
  <2> QED
    BY <2>1, <2>2
<1>2. published' \subseteq Old'
  <2>1. ASSUME NEW c, Accepts(c), c \in Old' PROVE published' \subseteq Old'
    BY <1>a, <2>1 DEF Accepts, Olds
  <2>2. UNCHANGED server \/ AcceptsDelete => published' \subseteq Old'
    BY <1>a DEF AcceptsDelete, Olds
  <2>3. CASE PeerWrites
    <3>1. fresh' # fresh => fresh \in Old'
      BY OldGrows
    <3>2. fresh' = fresh + 1 => fresh' # fresh
      OBVIOUS
    <3> QED
      BY <1>a, <1>b, <2>1, <2>2, <2>3, <3>1, <3>2 DEF PeerWrites
  <2>4. ASSUME NEW u \in Slots, UploadPosts(u) PROVE published' \subseteq Old'
    <3>1. ups[u].content \in Old'
      BY <2>4, <1>a DEF UploadPosts, Olds
    <3> QED
      BY <2>1, <2>2, <2>4, <3>1 DEF UploadPosts
  <2>5. CASE RepublishPosts
    <3>1. lane.hash \in Old'
      BY <2>5, <1>a DEF RepublishPosts, Olds
    <3> QED
      BY <2>1, <2>2, <2>5, <3>1 DEF RepublishPosts
  <2>6. CASE DeletePosts
    BY <2>2, <2>6 DEF DeletePosts
  <2> QED
    BY <2>2, <2>3, <2>4, <2>5, <2>6, ServerChanges
<1>3. entry'.mtime \in Old' \cup {Stale}
  BY EntryMtime, <1>a DEF Olds
<1>4. stored'.entry.mtime \in Old' \cup {Stale}
  BY <1>3, <1>a, StoredStep DEF Olds, Alike
<1>5. ASSUME NEW v \in Slots PROVE ups'[v].at \in {"send", "post"} => ups'[v].content \in Old'
  BY <1>a, UploadStep DEF Olds
<1>6. lane'.at \in {"send", "post"} => lane'.hash \in Old'
  <2>1. LaneLists => lane'.at = "apply"
    BY DEF LaneLists, NoLane
  <2> QED
    BY <1>a, <2>1, LaneStep DEF Olds, Numbered, LaneRests, LaneWalks, Walking
<1> QED
  BY <1>1, <1>2, <1>3, <1>4, <1>5, <1>6 DEF Olds

Matches(e) == e.mtime # None /\ file = e.mtime /\ e.hydrated => e.hash = file
LaneMatches ==
  lane.at \in {"send", "post", "answer"} /\ Holds("republish") /\ file = entry.mtime /\ file # None
    => lane.hash = file
Mtimes == Clean => Matches(entry) /\ Matches(stored.entry) /\ LaneMatches

(* A write gives the file an mtime that no entry has.                        *)
LEMMA WriteOutdates ==
  ASSUME TypeOK, Named, Olds, Next, file' # file
  PROVE  \/ file' = None
         \/ Crash
         \/ entry'.mtime # file' /\ stored'.entry.mtime # file'
<1> USE Fields, Blanks
<1>1. CASE UserWrites
  <2>1. file' = fresh /\ entry' = entry /\ stored' = stored /\ fresh \notin Old \cup {Stale}
    BY <1>1, OldGrows DEF UserWrites
  <2> QED
    BY <2>1 DEF Olds
<1>2. CASE HydrationWritten \/ HydrationWriteFails
  <2>1. PICK c \in {hyd.hash, Torn} : file' = c /\ Outdates(c) /\ c \in Contents
    BY <1>2 DEF HydrationWritten, HydrationWriteFails
  <2>2. stored'.entry.mtime # file'
    <3>1. stored.entry \in Entries
      OBVIOUS
    <3>2. Outdated(stored.entry, c).mtime # c
      BY <2>1, <3>1, Outdating
    <3> QED
      BY <2>1, <3>2 DEF Outdates
  <2>3. entry'.mtime # file'
    <3>1. CASE HydrationWritten
      <4>1. Outdated(entry, hyd.hash).mtime # hyd.hash /\ Outdated(entry, hyd.hash) \in Entries
        BY Outdating DEF Alike
      <4>2. entry'.mtime = Outdated(entry, hyd.hash).mtime /\ file' = hyd.hash
        BY <3>1, <4>1 DEF HydrationWritten, Entries
      <4> QED
        BY <4>1, <4>2
    <3>2. CASE HydrationWriteFails
      <4> DEFINE rolled == IF StillHydrates THEN [entry EXCEPT !.base = hyd.base] ELSE entry
      <4>1. rolled \in Entries
        BY DEF Entries
      <4>2. file' = Torn /\ entry' = Outdated(rolled, Torn)
        BY <3>2 DEF HydrationWriteFails
      <4> HIDE DEF rolled
      <4>3. Outdated(rolled, Torn).mtime # Torn
        BY <4>1, Outdating
      <4> QED
        BY <4>2, <4>3
    <3> QED
      BY <1>2, <3>1, <3>2
  <2> QED
    BY <2>2, <2>3
<1>3. CASE UserDeletes \/ HydrationCompensates \/ ReconcileTrashes \/ HydrationCompares
  BY <1>3 DEF UserDeletes, HydrationCompensates, ReconcileTrashes, HydrationCompares
<1> QED
  BY <1>1, <1>2, <1>3, DiskChanges

LEMMA StoredMatchesStep ==
  ASSUME TypeOK, Named, Mtimes, Next, Clean', file' # file => stored'.entry.mtime # file' \/ file' = None,
         Matches(entry)'
  PROVE  Matches(stored.entry)'
<1> USE Fields, Blanks
<1>0. Matches(entry) /\ Matches(stored.entry)
  BY CleanBefore DEF Mtimes
<1>1. CASE file' = file
  <2>1. file' # Stale
    BY <1>1 DEF Contents, Torn, Stale, None
  <2> QED
    BY <1>0, <1>1, <2>1, StoredStep DEF Matches, Alike
<1>2. CASE file' # file
  BY <1>2 DEF Matches
<1> QED
  BY <1>1, <1>2

LEMMA EntryMatchesStep ==
  ASSUME TypeOK, Named, Numbered, Olds, Mtimes, Next, Clean'
  PROVE  Matches(entry)'
<1> USE Fields, Blanks
<1>0. Matches(entry) /\ Matches(stored.entry) /\ LaneMatches
  BY CleanBefore DEF Mtimes
<1>a. file \in Contents /\ Stale \notin Contents
  BY DEF Contents, Torn, Stale, None
<1>1. CASE Crash
  <2>1. /\ Alike(stored.entry, stored'.entry) /\ entry' = stored'.entry
        /\ file' = file \/ stored'.entry.mtime # file'
    BY <1>1, OverwritesLeave DEF Crash
  <2>2. file' = file => file' # Stale
    BY <1>a
  <2> QED
    BY <1>0, <2>1, <2>2 DEF Matches, Alike
<1>2. CASE file' # file /\ ~Crash
  BY <1>2, WriteOutdates DEF Matches
<1>3. CASE file' = file /\ ~Crash
  <2> USE <1>3
  <2>1. CASE Kept(entry, entry')
    BY <1>0, <1>a, <2>1 DEF Kept, Matches
  <2>2. CASE Dropped
    BY <2>2 DEF Dropped, Matches, NoEntry
  <2>3. CASE Republishing \/ Refused
    <3>1. entry'.mtime = entry.mtime /\ entry'.hash = entry.hash /\ entry'.hydrated = entry.hydrated
      <4>1. ASSUME NEW k \in Decisions
            PROVE  /\ [entry EXCEPT !.decision = k, !.expected = None].mtime = entry.mtime
                   /\ [entry EXCEPT !.decision = k, !.expected = None].hash = entry.hash
                   /\ [entry EXCEPT !.decision = k, !.expected = None].hydrated = entry.hydrated
        BY DEF Entries
      <4>2. "none" \in Decisions /\ "republish" \in Decisions
        BY DEF Decisions
      <4> QED
        BY <2>3, <4>1, <4>2 DEF Republishing, Refused, Undecided
    <3> QED
      BY <1>0, <3>1 DEF Matches
  <2>4. ASSUME NEW u \in Slots, UploadSends(u), entry' = Skipped PROVE Matches(entry)'
    BY <1>0, <2>4, SkippedStep DEF Matches
  <2>5. ASSUME NEW u \in Slots, UploadAcked(u), ups[u].seq > entry.seq PROVE Matches(entry)'
    BY <2>5, AnswerStep DEF Matches, Clean
  <2>6. CASE LiveUnindexed \/ LiveIndexed \/ LiveFindsFile
    <3>1. /\ Undecided(entry).mtime = entry.mtime /\ Undecided(entry).hash = entry.hash
          /\ Undecided(entry).hydrated = entry.hydrated
      BY DEF Undecided, Entries
    <3> QED
      BY <1>0, <2>6, <3>1, LiveStep DEF Matches, Numbered
  <2>7. CASE TombstoneFindsFile \/ TombstoneDecides
    <3>1. NoEntry.mtime = None
      BY DEF NoEntry
    <3>2. \/ entry' = entry \/ entry' = NoEntry
          \/ /\ entry'.hash = entry.hash /\ entry'.mtime = entry.mtime
             /\ entry'.hydrated = entry.hydrated
      BY <2>7, TombstoneStep
    <3> QED
      BY <1>0, <3>1, <3>2 DEF Matches
  <2>8. CASE RepublishAcked /\ lane.acked > entry.seq /\ Holds("republish")
    BY <1>0, <2>8, RepublishedStep DEF Matches, LaneMatches
  <2> QED
    BY <2>1, <2>2, <2>3, <2>4, <2>5, <2>6, <2>7, <2>8, EntryStep
<1> QED
  BY <1>1, <1>2, <1>3

LEMMA LaneMatchesStep ==
  ASSUME TypeOK, Named, Numbered, Olds, Mtimes, Next, Clean'
  PROVE  LaneMatches'
<1> USE Fields, Blanks
<1>0. LaneMatches
  BY CleanBefore DEF Mtimes
<1>a. file \in Contents /\ Stale \notin Contents
  BY DEF Contents, Torn, Stale, None
<1> SUFFICES ASSUME lane'.at \in {"send", "post", "answer"}, Holds("republish")',
                    file' = entry'.mtime, file' # None
             PROVE  lane'.hash = file'
  BY DEF LaneMatches
<1>b. ~Crash
  BY DEF Crash, NoLane
<1>c. file' = file
  BY <1>b, WriteOutdates
<1>1. CASE RepublishReads
  <2>1. lane.at = "republish"
    BY <1>1 DEF RepublishReads
  <2>2. lane' # lane
    BY <2>1
  <2>3. ~LaneLists /\ ~RepublishSends /\ ~RepublishPosts
    BY <2>1 DEF LaneLists, RepublishSends, RepublishPosts
  <2> QED
    BY <1>c, <1>1, <2>1, <2>2, <2>3, LaneStep DEF Numbered, LaneRests, LaneWalks, Walking
<1>2. CASE RepublishSends \/ RepublishPosts
  <2>1. lane' # NoLane
    BY DEF NoLane
  <2>2. lane.at \in {"send", "post"} /\ entry' = entry
        /\ (lane' = [lane EXCEPT !.at = "post"]
            \/ lane' = [lane EXCEPT !.at = "answer", !.acked = row.seq + 1])
    BY <1>2, <2>1 DEF RepublishSends, RepublishPosts
  <2>3. lane'.hash = lane.hash /\ lane'.seq = lane.seq
    BY <2>2 DEF Lanes
  <2> QED
    BY <1>0, <1>c, <2>2, <2>3 DEF LaneMatches, Holds
<1>3. CASE ~RepublishReads /\ ~RepublishSends /\ ~RepublishPosts
  <2>1. lane' = lane
    <3>1. LaneLists => lane'.at = "apply"
      BY DEF LaneLists, NoLane
    <3> QED
      BY <1>3, <3>1, LaneStep DEF Numbered, LaneRests, LaneWalks, Walking
  <2>2. Holds("republish") /\ entry'.mtime = entry.mtime
    <3>a. entry'.decision = "republish" /\ entry'.seq = lane.seq
      BY <2>1 DEF Holds
    <3>1. CASE Kept(entry, entry')
      BY <1>c, <1>a, <3>a, <3>1 DEF Kept, Holds
    <3>2. CASE Dropped
      BY <3>a, <3>2 DEF Dropped, NoEntry
    <3>3. CASE Republishing
      <4>1. [lane EXCEPT !.at = "republish", !.seq = entry.seq].at = "republish" /\ NoLane.at = "idle"
        BY DEF NoLane, Lanes
      <4> QED
        BY <3>3, <4>1 DEF Republishing, RepublishInstead
    <3>4. CASE Refused
      BY <1>3, <3>4 DEF Refused
    <3>5. ASSUME NEW u \in Slots, UploadSends(u), entry' = Skipped
          PROVE  Holds("republish") /\ entry'.mtime = entry.mtime
      BY <3>a, <3>5, SkippedStep DEF Holds
    <3>6. ASSUME NEW u \in Slots, UploadAcked(u), ups[u].seq > entry.seq PROVE FALSE
      BY <3>a, <3>6, AnswerStep
    <3>7. CASE LiveUnindexed \/ LiveIndexed \/ LiveFindsFile \/ TombstoneFindsFile \/ TombstoneDecides
      BY <2>1, <3>7 DEF LiveUnindexed, LiveIndexed, LiveFindsFile, TombstoneFindsFile, TombstoneDecides
    <3>8. CASE RepublishAcked /\ lane.acked > entry.seq /\ Holds("republish")
      BY <3>8 DEF RepublishAcked, NoLane
    <3> QED
      BY <1>b, <3>1, <3>2, <3>3, <3>4, <3>5, <3>6, <3>7, <3>8, EntryStep
  <2> QED
    BY <1>0, <1>c, <2>1, <2>2 DEF LaneMatches
<1> QED
  BY <1>1, <1>2, <1>3

LEMMA MtimesStep ==
  ASSUME TypeOK, Named, Numbered, Olds, Mtimes, Next
  PROVE  Mtimes'
<1> SUFFICES ASSUME Clean' PROVE Matches(entry)' /\ Matches(stored.entry)' /\ LaneMatches'
  BY DEF Mtimes
<1>1. Matches(entry)' /\ LaneMatches'
  BY EntryMatchesStep, LaneMatchesStep
<1>2. file' # file => stored'.entry.mtime # file' \/ file' = None
  <2>1. Crash => file' = file \/ stored'.entry.mtime # file'
    BY OverwritesLeave
  <2> QED
    BY <2>1, WriteOutdates
<1> QED
  BY <1>1, <1>2, StoredMatchesStep

-----------------------------------------------------------------------------
(* The invariant of what the index takes for known, on top of IInv.          *)
RestInv == Numbered /\ Accounted /\ Olds /\ Mtimes

LEMMA InitRest == Init => RestInv
<1> SUFFICES ASSUME Init PROVE RestInv
  OBVIOUS
<1> USE Blanks
<1>1. /\ NoEntry.seq = 0 /\ NoEntry.hash = None /\ NoEntry.decision = "none" /\ NoEntry.mtime = None
      /\ Synced.seq = 1 /\ Synced.hash = 1 /\ Synced.decision = "none" /\ Synced.mtime = 1
  BY DEF NoEntry, Synced
<1>2. /\ NoLane.at = "idle" /\ NoLane.seq = 0 /\ NoLane.acked = 0
      /\ NoUpload.at = "idle" /\ NoDelete.at = "idle" /\ NoDelete.seq = 0
  BY DEF NoLane, NoUpload, NoDelete
<1>3. /\ lane = NoLane /\ del = NoDelete /\ ups = [u \in Slots |-> NoUpload]
      /\ stored.entry = entry /\ stored.cursor = cursor
  BY DEF Init
<1>4. \/ /\ row.seq = 0 /\ row.live = FALSE /\ row.hash = None /\ published = {}
         /\ file = None /\ entry = NoEntry /\ cursor = 0 /\ fresh = 1
      \/ /\ row.seq = 1 /\ row.live = TRUE /\ row.hash = 1 /\ published = {1}
         /\ file = 1 /\ entry = Synced /\ cursor = 1 /\ fresh = 2
  BY DEF Init
<1>5. Numbered
  <2>1. RowNumbers /\ IndexNumbers
    BY <1>1, <1>2, <1>3, <1>4 DEF RowNumbers, IndexNumbers, None
  <2>2. LaneNumbers /\ LaneCurrent /\ UploadNumbers /\ DeleteAhead
    BY <1>2, <1>3, <1>4 DEF LaneNumbers, LaneCurrent, UploadNumbers, DeleteAhead, Walking
  <2>3. Current(entry) /\ Current(stored.entry)
    BY <1>1, <1>3, <1>4 DEF Current
  <2> QED
    BY <2>1, <2>2, <2>3 DEF Numbered
<1>6. Accounted
  <2>1. Accounts(entry)
    BY <1>1, <1>4 DEF Accounts
  <2> QED
    BY <1>2, <1>3, <2>1 DEF Accounted, EntryAccounts, StoredAccounts, Answered
<1>7. Olds
  <2>1. 0 \in Old /\ (fresh = 2 => 1 \in Old)
    BY <1>4 DEF Old, Contents, None, Torn
  <2> QED
    BY <1>1, <1>2, <1>3, <1>4, <2>1 DEF Olds, None
<1>8. Mtimes
  BY <1>1, <1>2, <1>3, <1>4 DEF Mtimes, Matches, LaneMatches, None
<1> QED
  BY <1>5, <1>6, <1>7, <1>8 DEF RestInv

LEMMA NextRest == IInv /\ RestInv /\ [Next]_vars => RestInv'
<1> SUFFICES ASSUME IInv, RestInv, [Next]_vars PROVE RestInv'
  OBVIOUS
<1>1. CASE Next
  BY <1>1, NumberedStep, AccountedStep, OldsStep, MtimesStep DEF IInv, RestInv
<1>2. CASE UNCHANGED vars
  <2> USE <1>2 DEF RestInv, vars
  <2>1. Numbered'
    BY DEF Numbered, RowNumbers, IndexNumbers, LaneNumbers, LaneCurrent, UploadNumbers, Current,
       DeleteAhead
  <2>2. Accounted'
    BY DEF Accounted, EntryAccounts, StoredAccounts, Answered, Clean, Passed, Passing, Accounts
  <2>3. Olds' /\ Mtimes'
    BY DEF Olds, Old, Mtimes, Matches, LaneMatches, Clean, Holds
  <2> QED
    BY <2>1, <2>2, <2>3
<1> QED
  BY <1>1, <1>2

LEMMA RestInvariant == Spec => []RestInv
  BY InitRest, NextRest, Invariant, PTL DEF Spec

(* When nothing works on the path, the file and the server agree or the next *)
(* pass, a sweep, the gate, a download or the reconciler will notice: a row  *)
(* that the cursor has passed is in the entry, and an entry that is in step  *)
(* with the server matches the file or differs from it visibly.              *)
THEOREM RestNoticed == Spec => []RestIsNoticed
<1>1. IInv /\ RestInv => RestIsNoticed
  <2> SUFFICES ASSUME IInv, RestInv, AtRest, Clean, ~Abandoned, ~Noticed
               PROVE  Agree
    BY DEF RestIsNoticed, Clean
  <2> USE Fields DEF IInv, RestInv
  <2>1. Accounts(entry)
    <3>1. row.seq <= cursor
      BY DEF Noticed, Seqs
    <3> QED
      BY <3>1 DEF Accounted, EntryAccounts, Passed
  <2>2. row.live => entry.seq = row.seq /\ entry.hash = row.hash /\ entry.hash # None
    <3>1. row.live => row.seq > 0 /\ row.hash # None
      BY DEF Numbered, RowNumbers, Seqs
    <3> QED
      BY <2>1, <3>1 DEF Accounts, Numbered, Current
  <2>3. entry.decision = "none"
    BY DEF Noticed, Decided
  <2>4. CASE file # None
    <3>1. ~Changed /\ ~entry.skipped
      BY <2>4 DEF Noticed
    <3>2. row.live
      BY <2>1, <2>3, <3>1 DEF Accounts, Changed, Known
    <3>3. entry.hydrated
      BY <2>2, <3>1, <3>2 DEF Noticed
    <3>4. CASE entry.mtime = None
      BY <2>2, <3>1, <3>2, <3>4 DEF Changed, Agree
    <3>5. CASE entry.mtime # None
      BY <2>2, <3>1, <3>2, <3>3, <3>5 DEF Changed, Agree, Mtimes, Matches
    <3> QED
      BY <3>4, <3>5
  <2>5. CASE file = None
    <3>1. ~row.live
      BY <2>2, <2>3, <2>5 DEF Noticed, Abandoned, MissesFile, Decided
    <3> QED
      BY <2>5, <3>1 DEF Agree
  <2> QED
    BY <2>4, <2>5
<1> QED
  BY <1>1, Invariant, RestInvariant, PTL
=============================================================================
