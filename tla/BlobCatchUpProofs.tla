------------------------- MODULE BlobCatchUpProofs -------------------------
(* Proofs about BlobCatchUp, for any paths, page size and bounds.            *)
EXTENDS BlobCatchUp, TLAPS

(* Numbers of rows never run ahead of the server, and no two rows have the   *)
(* same number.                                                              *)
Numbered ==
  /\ cursor <= top /\ pass.p <= top
  /\ pass.fence # NoFence => pass.fence <= top
  /\ \A q \in Paths :
       /\ rows[q].seq <= top
       /\ index[q].seq <= rows[q].seq
       /\ stored.index[q].seq <= rows[q].seq
       /\ posted[q] <= rows[q].seq
       /\ given[q] <= rows[q].seq
       /\ posted[q] # 0 => q \in queued
  /\ stored.cursor <= cursor
  /\ \A q, r \in Paths : rows[q].seq = rows[r].seq => rows[q].seq = 0 \/ q = r

(* Known, and not about to be undone by the answer to an upload.             *)
Settled(q) ==
  \/ index[q].seq >= rows[q].seq
  \/ ~rows[q].live /\ index[q].st = "none" /\ posted[q] = 0
  \/ given[q] = rows[q].seq

(* A decision that is up to date answers a delete, and no upload of its path *)
(* has been accepted since.                                                  *)
Decided ==
  \A q \in Paths :
    /\ index[q].st = "decided" /\ index[q].seq = rows[q].seq =>
         ~rows[q].live /\ posted[q] = 0
    /\ stored.index[q].st = "decided" /\ stored.index[q].seq = rows[q].seq => ~rows[q].live

Certified ==
  \A q \in Paths :
    /\ rows[q].seq <= cursor => Settled(q)
    /\ rows[q].seq <= stored.cursor => Known(q, stored.index)

Walking == pass.at \in {"list", "rows", "apply", "flush"}

(* The walk has handled every row up to p; what it has still to handle up to *)
(* the fence is in the page, or behind a full page. A row of the page that   *)
(* is no longer the row of its path has moved beyond the fence.              *)
Walk ==
  /\ Walking =>
       /\ cursor <= pass.p
       /\ \A q \in Paths : rows[q].seq <= pass.p => Settled(q)
  /\ pass.fence # NoFence => pass.p <= pass.fence
  /\ pass.at \notin {"rows", "apply"} => pass.todo = {}
  /\ \A s \in pass.todo :
       /\ s.seq > pass.p
       /\ \A t \in pass.todo : t.seq = s.seq => t = s
       /\ \/ rows[s.path].seq = s.seq /\ rows[s.path].live = s.live
          \/ rows[s.path].seq > pass.fence /\ rows[s.path].seq > s.seq
  /\ pass.at \in {"rows", "apply"} =>
       \A q \in Paths :
         rows[q].seq > pass.p /\ rows[q].seq <= pass.fence =>
           \/ \E s \in pass.todo : s.path = q /\ s.seq = rows[q].seq
           \/ pass.full /\ \A s \in pass.todo : s.seq < rows[q].seq
  /\ pass.at = "flush" /\ ~pass.deferred =>
       \A q \in Paths : rows[q].seq <= pass.fence => Settled(q)
  /\ pass.at = "apply" =>
       \E s \in pass.todo :
         /\ NextRow(s) /\ s.seq <= pass.fence
         /\ ~s.live /\ rows[s.path].seq = s.seq => posted[s.path] = 0

(* A pass that has got its first page has its fence.                         *)
FenceSet == pass.at \in {"rows", "apply", "flush"} => pass.fence # NoFence

IInv == TypeOK /\ FenceSet /\ Numbered /\ Decided /\ Certified /\ Walk
-----------------------------------------------------------------------------
LEMMA Constants == NoPass \in Passes /\ NoPass.at = "none" /\ Started \in Passes /\ Started.at = "start"
                   /\ NoEntry \in Entries
                   /\ 0 \in Seqs /\ Seqs \subseteq Nat /\ NoFence \notin Seqs
<1>1. NoPass \in Passes /\ NoPass.at = "none"
  BY CatchUpAssumption DEF NoPass, Passes, Points, NoFence, Seqs
<1>2. Started \in Passes /\ Started.at = "start"
  BY <1>1 DEF Started, Passes, Points
<1>3. NoEntry \in Entries /\ 0 \in Seqs /\ Seqs \subseteq Nat /\ NoFence \notin Seqs
  BY CatchUpAssumption DEF NoEntry, Entries, Seqs, NoFence
<1> QED BY <1>1, <1>2, <1>3

LEMMA EntryTyped ==
  /\ \A n \in Seqs, st \in {"none", "live", "decided"} : [seq |-> n, st |-> st] \in Entries
  /\ \A e \in Entries : e.seq \in Seqs /\ e.st \in {"none", "live", "decided"}
  /\ \A f \in [Paths -> Entries], q \in Paths, e \in Entries :
        f[q] \in Entries /\ [f EXCEPT ![q] = e] \in [Paths -> Entries]
  BY DEF Entries

LEMMA InitTyped == Init => TypeOK /\ FenceSet
<1> SUFFICES ASSUME Init PROVE TypeOK /\ FenceSet
  OBVIOUS
<1>1. stored \in [index: [Paths -> Entries], cursor: Seqs]
  BY Constants DEF Init
<1>2. rows \in [Paths -> Rows] /\ top \in Seqs
  BY Constants DEF Init, Rows
<1>3. connects \in 0..MaxConnects /\ work \in 0..MaxWork
  BY CatchUpAssumption DEF Init
<1> QED BY <1>1, <1>2, <1>3, Constants DEF Init, TypeOK, FenceSet

(* A pass that has its list has its fence too.                               *)
LEMMA ListAnsweredTyped ==
  ASSUME TypeOK, ListAnswered
  PROVE  pass' \in Passes /\ pass'.fence # NoFence
<1> DEFINE f == IF pass.fence = NoFence THEN top ELSE pass.fence
<1>1. PICK page \in Pages(pass.p) :
        pass' = [pass EXCEPT !.fence = f, !.at = IF pass.p # f THEN "rows" ELSE "flush",
                             !.todo = IF pass.p # f THEN page ELSE {},
                             !.full = (Cardinality(page) = PageSize)]
  BY DEF ListAnswered
<1>2. page \in SUBSET ListedRows /\ {} \in SUBSET ListedRows
  BY DEF TypeOK, Pages, Above, ListedRows, Rows
<1>3. pass \in Passes /\ f \in Seqs
  BY DEF TypeOK, Passes, NoFence
<1> HIDE DEF f
<1>4. PICK a \in {"rows", "flush"}, t \in SUBSET ListedRows, full \in BOOLEAN :
        pass' = [pass EXCEPT !.fence = f, !.at = a, !.todo = t, !.full = full]
  BY <1>1, <1>2, Zenon
<1>5. pass' \in Passes /\ pass'.fence = f
  BY <1>3, <1>4 DEF Passes, Points
<1> QED BY <1>3, <1>5, CatchUpAssumption DEF Seqs, NoFence

(* Every action keeps every variable in its type.                            *)
LEMMA StepTyped == TypeOK /\ FenceSet /\ [Next]_vars => (TypeOK /\ FenceSet)'
<1> SUFFICES ASSUME TypeOK, FenceSet, [Next]_vars PROVE (TypeOK /\ FenceSet)'
  OBVIOUS
<1> USE CatchUpAssumption, Constants DEF TypeOK, FenceSet, Seqs, Passes, Points, NoFence, server, memory, busy, rearm, history, counters
<1>1. CASE Connect
  BY <1>1 DEF Connect
<1>2. CASE AnnouncementTimer
  BY <1>2 DEF AnnouncementTimer
<1>3. CASE PassStarts
  BY <1>3 DEF PassStarts
<1>4. CASE \E p \in Paths : UploadQueued(p)
  BY <1>4 DEF UploadQueued
<1>5. CASE \E p \in Paths : UploadAccepted(p)
  BY <1>5 DEF UploadAccepted, Rows
<1>6. CASE \E p \in Paths : UploadAcked(p)
  BY <1>6 DEF UploadAcked, Entries
<1>7. CASE \E p \in Paths : UploadEnds(p)
  <2>1. posted' \in [Paths -> Seqs]
    BY <1>7 DEF UploadEnds
  <2>2. deferredPaths' \subseteq Paths /\ trailing' \in BOOLEAN /\ request' \in BOOLEAN
    BY <1>7, Zenon DEF UploadEnds, UploadSettled, NoWork
  <2> QED BY <1>7, <2>1, <2>2 DEF UploadEnds
<1>8. CASE \E p \in Paths : DownloadRegistered(p)
  BY <1>8 DEF DownloadRegistered
<1>9. CASE \E p \in Paths : DownloadSettles(p)
  BY <1>9 DEF DownloadSettles, UploadSettled, NoWork
<1>10. CASE \E p \in Paths, live \in BOOLEAN : PeerWrites(p, live)
  BY <1>10 DEF PeerWrites, Rows
<1>11. CASE \E p \in Paths : Reconcile(p)
  <2>1. PICK p \in Paths : Reconcile(p)
    BY <1>11
  <2>2. index' \in [Paths -> Entries]
    <3>1. [seq |-> index[p].seq, st |-> "live"] \in Entries
      BY EntryTyped
    <3>2. top < MaxSeq => [seq |-> top + 1, st |-> "live"] \in Entries
      <4>1. top < MaxSeq => top + 1 \in Seqs
        OBVIOUS
      <4> QED BY <4>1, EntryTyped
    <3>3. \A e \in Entries : [index EXCEPT ![p] = e] \in [Paths -> Entries]
      BY EntryTyped
    <3> QED BY <2>1, <3>1, <3>2, <3>3, Constants DEF Reconcile
  <2>3. rows' \in [Paths -> Rows] /\ top' \in Seqs
    <3>1. top < MaxSeq => [seq |-> top + 1, live |-> TRUE] \in Rows /\ top + 1 \in Seqs
      BY DEF Rows
    <3>2. \A e \in Rows : [rows EXCEPT ![p] = e] \in [Paths -> Rows]
      OBVIOUS
    <3>3. CASE UNCHANGED server
      BY <3>3
    <3>4. CASE /\ top < MaxSeq /\ top' = top + 1
               /\ rows' = [rows EXCEPT ![p] = [seq |-> top + 1, live |-> TRUE]]
      BY <3>1, <3>2, <3>4
    <3> QED BY <2>1, <3>3, <3>4 DEF Reconcile
  <2> QED BY <2>1, <2>2, <2>3 DEF Reconcile
<1>12. CASE ListAnswered
  <2>1. pass' \in Passes /\ pass'.fence # NoFence
    BY <1>12, ListAnsweredTyped
  <2>2. UNCHANGED <<server, memory, stored, busy, rearm, timer, history, counters>>
    BY <1>12 DEF ListAnswered
  <2>3. TypeOK'
    BY <2>1, <2>2
  <2>4. FenceSet'
    BY <2>1
  <2> QED BY <2>3, <2>4
<1>13. CASE ListFails
  BY <1>13 DEF ListFails, PassOver
<1>14. CASE PageDone
  BY <1>14 DEF PageDone
<1>15. CASE BeyondFence
  BY <1>15 DEF BeyondFence
<1>16. CASE Defer
  BY <1>16 DEF Defer, ListedRows
<1>17. CASE TakeRow
  BY <1>17 DEF TakeRow
<1>18. CASE Apply
  <2>1. PICK s \in pass.todo :
          /\ IF s.live THEN LiveApplied(s) ELSE TombstoneApplied(s)
          /\ pass' = [pass EXCEPT !.at = IF s.seq = pass.fence THEN "flush" ELSE "rows",
                                  !.p = s.seq,
                                  !.todo = IF s.seq = pass.fence THEN {} ELSE @ \ {s}]
    BY <1>18 DEF Apply
  <2>2. s.path \in Paths /\ s.seq \in 0..MaxSeq
    BY DEF ListedRows
  <2>3. index' \in [Paths -> Entries] /\ given' \in [Paths -> 0..MaxSeq]
    <3>1. [seq |-> s.seq, st |-> "live"] \in Entries /\ [seq |-> s.seq, st |-> "decided"] \in Entries
      BY <2>2, EntryTyped
    <3>2. \A e \in Entries : [index EXCEPT ![s.path] = e] \in [Paths -> Entries]
      BY <2>2, EntryTyped
    <3>3. [given EXCEPT ![s.path] = s.seq] \in [Paths -> 0..MaxSeq]
      BY <2>2
    <3> QED BY <2>1, <3>1, <3>2, <3>3, Constants DEF LiveApplied, TombstoneApplied
  <2> QED BY <1>18, <2>1, <2>2, <2>3 DEF Apply
<1>19. CASE Flush
  BY <1>19 DEF Flush
<1>20. CASE FlushFails
  BY <1>20 DEF FlushFails, PassOver
<1>21. CASE PassEnds
  BY <1>21 DEF PassEnds, PassOver
<1>22. CASE Persist
  BY <1>22 DEF Persist
<1>23. CASE Crash
  BY <1>23, Constants DEF Crash
<1>24. CASE UNCHANGED vars
  BY <1>24 DEF vars
<1>25. CASE StartReconciled
  BY <1>25 DEF StartReconciled
<1> QED BY <1>1, <1>2, <1>3, <1>4, <1>5, <1>6, <1>7, <1>8, <1>9, <1>10, <1>11, <1>12, <1>13, <1>14, <1>15, <1>16, <1>17, <1>18, <1>19, <1>20, <1>21, <1>22, <1>23, <1>24, <1>25 DEF Next
-----------------------------------------------------------------------------
LEMMA TypeFacts ==
  ASSUME TypeOK
  PROVE  /\ \A q \in Paths :
              /\ rows[q].seq \in Nat /\ rows[q].live \in BOOLEAN
              /\ index[q].seq \in Nat /\ index[q].st \in {"none", "live", "decided"}
              /\ stored.index[q].seq \in Nat /\ stored.index[q].st \in {"none", "live", "decided"}
              /\ posted[q] \in Nat /\ given[q] \in Nat
         /\ top \in Nat /\ top <= MaxSeq /\ MaxSeq \in Nat /\ cursor \in Nat /\ stored.cursor \in Nat
         /\ pass.p \in Nat /\ pass.fence \in Nat /\ NoFence \in Nat /\ NoFence > top
         /\ pass.at \in Points /\ pass.full \in BOOLEAN /\ pass.deferred \in BOOLEAN
         /\ \A s \in pass.todo : s.path \in Paths /\ s.seq \in Nat /\ s.live \in BOOLEAN
  BY CatchUpAssumption DEF TypeOK, Seqs, Rows, Entries, Passes, ListedRows, NoFence

(* What the invariant says survives a step that leaves the rows, the index,  *)
(* the file and the pass alone and loses no upload.                          *)
LEMMA Frame ==
  ASSUME IInv, UNCHANGED <<rows, top, index, cursor, stored, posted, given, pass>>,
         queued \subseteq queued'
  PROVE  (Numbered /\ Decided /\ Certified /\ Walk)'
  BY DEF IInv, Numbered, Decided, Certified, Walk, Settled, Known, Walking, NextRow, NoFence

LEMMA InitIInv == Init => IInv
<1> SUFFICES ASSUME Init PROVE IInv
  OBVIOUS
<1>1. TypeOK /\ FenceSet
  BY InitTyped
<1>2. /\ \A q \in Paths : rows[q].seq = 0 /\ index[q] = NoEntry /\ stored.index[q] = NoEntry
                         /\ posted[q] = 0 /\ given[q] = 0
      /\ cursor = 0 /\ stored.cursor = 0 /\ top = 0
      /\ pass.at = "none" /\ pass.p = 0 /\ pass.fence = NoFence /\ pass.todo = {}
  BY DEF Init, NoPass
<1>3. Numbered /\ Decided /\ Certified /\ Walk
  BY <1>2 DEF Numbered, Decided, Certified, Walk, Settled, Known, Walking, NoEntry
<1> QED BY <1>1, <1>3 DEF IInv
-----------------------------------------------------------------------------
(* A row gets the next number: nothing was certified about it, and a row of  *)
(* the page that is no longer current has moved beyond the fence.            *)
LEMMA NewRow ==
  ASSUME IInv, TypeOK', NEW p \in Paths, NEW l \in BOOLEAN, top < MaxSeq,
         rows' = [rows EXCEPT ![p] = [seq |-> top + 1, live |-> l]], top' = top + 1,
         UNCHANGED <<index, cursor, stored, given, pass, queued>>,
         \/ UNCHANGED posted
         \/ /\ posted' = [posted EXCEPT ![p] = top + 1] /\ p \in queued
            /\ index[p].st # "decided"
  PROVE  (Numbered /\ Decided /\ Certified /\ Walk)'
<1> USE TypeFacts
<1>1. /\ rows'[p].seq = top + 1 /\ rows'[p].live = l
      /\ \A q \in Paths : q # p => rows'[q] = rows[q] /\ posted'[q] = posted[q]
      /\ \/ posted'[p] = posted[p]
         \/ posted'[p] = top + 1 /\ p \in queued /\ index[p].st # "decided"
  <2>1. /\ rows'[p] = [seq |-> top + 1, live |-> l] /\ \A q \in Paths : q # p => rows'[q] = rows[q]
    BY DEF IInv, TypeOK
  <2>2. /\ \A q \in Paths : q # p => posted'[q] = posted[q]
        /\ \/ posted'[p] = posted[p]
           \/ posted'[p] = top + 1 /\ p \in queued /\ index[p].st # "decided"
    <3>1. CASE UNCHANGED posted
      BY <3>1
    <3>2. CASE posted' = [posted EXCEPT ![p] = top + 1] /\ p \in queued /\ index[p].st # "decided"
      BY <3>2 DEF IInv, TypeOK
    <3> QED BY <3>1, <3>2
  <2> QED BY <2>1, <2>2
<1>2. Numbered'
  BY <1>1 DEF IInv, Numbered, NoFence
<1>3. Decided'
  BY <1>1 DEF IInv, Numbered, Decided
<1>4. Certified'
  BY <1>1 DEF IInv, Numbered, Certified, Settled, Known
<1>5. Walk'
  BY <1>1, <1>2 DEF IInv, FenceSet, Numbered, Walk, Settled, Walking, NextRow, NoFence, Points
<1> QED BY <1>2, <1>3, <1>4, <1>5

LEMMA AckStep ==
  ASSUME IInv, TypeOK', NEW p \in Paths, UploadAcked(p)
  PROVE  (Numbered /\ Decided /\ Certified /\ Walk)'
<1> USE TypeFacts
<1>1. /\ posted'[p] = 0 /\ \A q \in Paths : q # p => posted'[q] = posted[q] /\ index'[q] = index[q]
      /\ UNCHANGED <<rows, top, cursor, stored, given, pass, queued>>
      /\ \/ index'[p] = index[p] /\ posted[p] <= index[p].seq
         \/ index'[p].seq = posted[p] /\ index'[p].st = "live" /\ posted[p] > index[p].seq
      /\ posted[p] # 0
  BY DEF IInv, TypeOK, Entries, UploadAcked, server, history, memory
<1>2. \A q \in Paths : Settled(q) => Settled(q)'
  BY <1>1 DEF IInv, Numbered, Settled
<1>3. Numbered' /\ Decided'
  BY <1>1 DEF IInv, Numbered, Decided, NoFence
<1>4. Certified'
  BY <1>1, <1>2 DEF IInv, Certified, Known
<1>5. Walk'
  BY <1>1, <1>2 DEF IInv, Walk, Walking, NextRow, NoFence
<1> QED BY <1>3, <1>4, <1>5

LEMMA UploadEndStep ==
  ASSUME IInv, TypeOK', NEW p \in Paths, UploadEnds(p)
  PROVE  (Numbered /\ Decided /\ Certified /\ Walk)'
<1> USE TypeFacts
<1>1. /\ posted'[p] = 0 /\ \A q \in Paths : q # p => posted'[q] = posted[q]
      /\ UNCHANGED <<rows, top, index, cursor, stored, given, pass>>
      /\ queued' = queued \ {p}
  BY DEF IInv, TypeOK, UploadEnds, server, history, memory
<1>2. \A q \in Paths : Settled(q) => Settled(q)'
  BY <1>1 DEF IInv, Settled
<1>3. Numbered' /\ Decided'
  BY <1>1 DEF IInv, Numbered, Decided, NoFence
<1>4. Certified'
  BY <1>1, <1>2 DEF IInv, Certified, Known
<1>5. Walk'
  BY <1>1, <1>2 DEF IInv, Walk, Walking, NextRow, NoFence
<1> QED BY <1>3, <1>4, <1>5

(* A decision that is carried out, lost or published again leaves the row it *)
(* answers known.                                                            *)
LEMMA ReconcileStep ==
  ASSUME IInv, TypeOK', NEW p \in Paths, Reconcile(p)
  PROVE  (Numbered /\ Decided /\ Certified /\ Walk)'
<1> USE TypeFacts
<1>1. /\ UNCHANGED <<cursor, stored, given, pass, queued, posted>>
      /\ \A q \in Paths : q # p => rows'[q] = rows[q] /\ index'[q] = index[q]
      /\ index[p].st = "decided" /\ pass.at \in {"start", "tail"}
      /\ \/ /\ UNCHANGED <<rows, top>>
            /\ \/ index'[p].seq = 0 /\ index'[p].st = "none"
               \/ index'[p].seq = index[p].seq /\ index'[p].st = "live"
         \/ /\ top' = top + 1 /\ rows'[p].seq = top + 1 /\ rows'[p].live = TRUE
            /\ \/ index'[p] = index[p]
               \/ index'[p].seq = top + 1 /\ index'[p].st = "live"
  <2>1. /\ UNCHANGED <<cursor, stored, given, pass, queued, posted>>
        /\ index[p].st = "decided" /\ pass.at \in {"start", "tail"}
    BY DEF Reconcile, busy, history
  <2>2. CASE /\ UNCHANGED <<rows, top>>
             /\ \/ index' = [index EXCEPT ![p] = NoEntry]
                \/ index' = [index EXCEPT ![p] = [seq |-> index[p].seq, st |-> "live"]]
    BY <2>1, <2>2 DEF IInv, TypeOK, NoEntry
  <2>3. CASE /\ top' = top + 1
             /\ rows' = [rows EXCEPT ![p] = [seq |-> top + 1, live |-> TRUE]]
             /\ \/ index' = [index EXCEPT ![p] = [seq |-> top + 1, st |-> "live"]]
                \/ UNCHANGED index
    <3>1. /\ rows'[p] = [seq |-> top + 1, live |-> TRUE]
          /\ \A q \in Paths : q # p => rows'[q] = rows[q]
      BY <2>3 DEF IInv, TypeOK
    <3>2. /\ index'[p] = [seq |-> top + 1, st |-> "live"] \/ index'[p] = index[p]
          /\ \A q \in Paths : q # p => index'[q] = index[q]
      <4>1. CASE UNCHANGED index
        BY <4>1
      <4>2. CASE index' = [index EXCEPT ![p] = [seq |-> top + 1, st |-> "live"]]
        BY <4>2 DEF IInv, TypeOK
      <4> QED BY <2>3, <4>1, <4>2
    <3> QED BY <2>1, <2>3, <3>1, <3>2
  <2> QED BY <2>2, <2>3 DEF Reconcile, server
<1>2. Numbered' /\ Decided'
  BY <1>1 DEF IInv, Numbered, Decided, NoFence
<1>3. Certified'
  BY <1>1 DEF IInv, Numbered, Decided, Certified, Settled, Known
<1>4. Walk'
  BY <1>1, <1>2 DEF IInv, Numbered, Walk, Walking, NextRow, NoFence
<1> QED BY <1>2, <1>3, <1>4
-----------------------------------------------------------------------------
(* The steps of the pass that leave rows, index, cursor and file alone.      *)
Still == UNCHANGED <<rows, top, index, cursor, stored, posted, given, queued>>

(* What does not mention the pass stays true.                                *)
LEMMA StillStep ==
  ASSUME IInv, Still, pass'.p <= top, pass'.fence # NoFence => pass'.fence <= top
  PROVE  (Numbered /\ Decided /\ Certified)' /\ \A q \in Paths : Settled(q)' <=> Settled(q)
  BY DEF IInv, Numbered, Decided, Certified, Settled, Known, Still, NoFence

LEMMA PassOverStep ==
  ASSUME IInv, Still, pass' = NoPass
  PROVE  (Numbered /\ Decided /\ Certified /\ Walk)'
<1> USE TypeFacts
<1>1. pass'.at = "none" /\ pass'.p = 0 /\ pass'.fence = NoFence /\ pass'.todo = {}
  BY DEF NoPass
<1>2. Walk'
  BY <1>1 DEF Walk, Walking, NoFence
<1> QED BY <1>1, <1>2, StillStep DEF IInv, Numbered

LEMMA PassStartStep ==
  ASSUME IInv, PassStarts
  PROVE  (Numbered /\ Decided /\ Certified /\ Walk)'
<1> USE TypeFacts
<1>1. /\ pass'.at = "list" /\ pass'.p = cursor /\ pass'.fence = NoFence /\ pass'.todo = {}
      /\ Still
  BY DEF PassStarts, NoPass, Still, server, memory, busy
<1>2. (Numbered /\ Decided /\ Certified)' /\ \A q \in Paths : Settled(q)' <=> Settled(q)
  BY <1>1, StillStep DEF IInv, Numbered
<1>3. Walk'
  BY <1>1, <1>2 DEF IInv, Certified, Walk, Walking, NoFence, Still
<1> QED BY <1>2, <1>3

(* A page holds the rows of the answer as they are, from the position of the *)
(* pass on; what it leaves out is behind it, and then it is full.            *)
LEMMA PageFacts ==
  ASSUME TypeOK, NEW page \in Pages(pass.p)
  PROVE  /\ \A s \in page : /\ s.path \in Paths /\ s.seq = rows[s.path].seq
                            /\ s.live = rows[s.path].live /\ s.seq > pass.p
                            /\ s = [path |-> s.path, seq |-> s.seq, live |-> s.live]
         /\ \A q \in Paths : rows[q].seq > pass.p =>
              \/ \E s \in page : s.path = q /\ s.seq = rows[q].seq
              \/ /\ Cardinality(page) = PageSize
                 /\ \A s \in page : s.seq < rows[q].seq
<1>1. page \subseteq Above(pass.p)
  BY DEF Pages
<1>2. \A s \in Above(pass.p) : /\ s.path \in Paths /\ s.seq = rows[s.path].seq
                               /\ s.live = rows[s.path].live /\ s.seq > pass.p
                               /\ s = [path |-> s.path, seq |-> s.seq, live |-> s.live]
  BY DEF Above
<1>3. ASSUME NEW q \in Paths, rows[q].seq > pass.p
      PROVE  \/ \E s \in page : s.path = q /\ s.seq = rows[q].seq
             \/ /\ Cardinality(page) = PageSize
                /\ \A s \in page : s.seq < rows[q].seq
  <2> DEFINE t == [path |-> q, seq |-> rows[q].seq, live |-> rows[q].live]
  <2>1. t \in Above(pass.p)
    BY <1>3 DEF Above
  <2>2. CASE t \in page
    BY <2>2
  <2>3. CASE t \notin page
    <3>1. page # Above(pass.p) /\ \A s \in page : s.seq < t.seq
      BY <2>1, <2>3 DEF Pages
    <3> QED BY <3>1 DEF Pages
  <2> QED BY <2>2, <2>3
<1> QED BY <1>1, <1>2, <1>3

LEMMA ListStep ==
  ASSUME IInv, ListAnswered
  PROVE  (Numbered /\ Decided /\ Certified /\ Walk)'
<1> USE TypeFacts
<1> DEFINE fence == IF pass.fence = NoFence THEN top ELSE pass.fence
           more == pass.p # fence
<1>1. PICK page \in Pages(pass.p) :
        pass' = [pass EXCEPT !.fence = fence,
                             !.at = IF more THEN "rows" ELSE "flush",
                             !.todo = IF more THEN page ELSE {},
                             !.full = Cardinality(page) = PageSize]
  BY DEF ListAnswered
<1>2. /\ pass'.fence = fence /\ pass'.p = pass.p /\ pass'.deferred = pass.deferred
      /\ pass'.at = (IF more THEN "rows" ELSE "flush")
      /\ pass'.todo = (IF more THEN page ELSE {})
      /\ pass'.full = (Cardinality(page) = PageSize)
  BY <1>1 DEF IInv, TypeOK, Passes
<1>3. Still /\ pass.at = "list"
  BY DEF ListAnswered, Still, server, memory, busy, history
<1>4. fence <= top /\ fence # NoFence /\ pass.p <= fence
  <2>1. CASE pass.fence = NoFence
    BY <2>1 DEF IInv, Numbered
  <2>2. CASE pass.fence # NoFence
    BY <2>2 DEF IInv, Numbered, Walk
  <2> QED BY <2>1, <2>2
<1>5. (Numbered /\ Decided /\ Certified)' /\ \A q \in Paths : Settled(q)' <=> Settled(q)
  BY <1>2, <1>3, <1>4, StillStep DEF IInv, Numbered
<1>6. /\ cursor <= pass.p
      /\ \A q \in Paths : rows[q].seq <= pass.p => Settled(q)
  BY <1>3 DEF IInv, Walk, Walking
<1>7. CASE ~more
  <2>1. pass'.at = "flush" /\ pass'.todo = {} /\ pass'.p = fence /\ pass'.fence = fence /\ pass.p = fence
    BY <1>2, <1>7
  <2> HIDE DEF fence, more
  <2>2. Walk'
    BY <1>3, <1>4, <1>5, <1>6, <2>1 DEF Walk, Walking, Still, NoFence
  <2> QED BY <1>5, <2>2
<1>8. CASE more
  <2>1. pass'.at = "rows" /\ pass'.todo = page /\ pass'.p = pass.p /\ pass'.fence = fence
    BY <1>2, <1>8
  <2> HIDE DEF fence, more
  <2>2. \A s \in page : \A t \in page : t.seq = s.seq => t = s
    <3> SUFFICES ASSUME NEW s \in page, NEW t \in page, t.seq = s.seq PROVE t = s
      OBVIOUS
    <3>1. s.path = t.path
      BY PageFacts DEF IInv, Numbered
    <3> QED BY <3>1, PageFacts DEF IInv
  <2>3. \A q \in Paths : rows[q].seq > pass.p =>
           \/ \E s \in page : s.path = q /\ s.seq = rows[q].seq
           \/ pass'.full /\ \A s \in page : s.seq < rows[q].seq
    BY <1>2, PageFacts DEF IInv
  <2>4. \A s \in page : /\ rows[s.path].seq = s.seq /\ rows[s.path].live = s.live
                        /\ s.seq > pass.p
    BY PageFacts DEF IInv
  <2>5. Walk'
    BY <1>3, <1>4, <1>5, <1>6, <2>1, <2>2, <2>3, <2>4 DEF Walk, Walking, Still, NoFence
  <2> QED BY <1>5, <2>5
<1> QED BY <1>7, <1>8

LEMMA PageDoneStep ==
  ASSUME IInv, PageDone
  PROVE  (Numbered /\ Decided /\ Certified /\ Walk)'
<1> USE TypeFacts
<1>1. /\ pass'.at = (IF pass.full THEN "list" ELSE "flush") /\ pass'.todo = pass.todo
      /\ pass'.p = pass.p /\ pass'.fence = pass.fence /\ pass'.deferred = pass.deferred
      /\ pass.at = "rows" /\ pass.todo = {} /\ Still
  BY DEF PageDone, IInv, TypeOK, Passes, Still, server, memory, busy, history
<1>2. (Numbered /\ Decided /\ Certified)' /\ \A q \in Paths : Settled(q)' <=> Settled(q)
  BY <1>1, StillStep DEF IInv, Numbered
<1>3. Walk'
  BY <1>1, <1>2 DEF IInv, Walk, Walking, Still, NoFence
<1> QED BY <1>2, <1>3

LEMMA StopStep ==
  ASSUME IInv, BeyondFence \/ Defer
  PROVE  (Numbered /\ Decided /\ Certified /\ Walk)'
<1> USE TypeFacts
<1>1. /\ pass'.at = "flush" /\ pass'.todo = {} /\ pass'.p = pass.p /\ pass'.fence = pass.fence
      /\ pass.at = "rows" /\ Still
      /\ \/ pass'.deferred = TRUE
         \/ \E s \in pass.todo : NextRow(s) /\ s.seq > pass.fence
  BY DEF BeyondFence, Defer, IInv, TypeOK, Passes, Still, server, memory, busy, history
<1>2. (Numbered /\ Decided /\ Certified)' /\ \A q \in Paths : Settled(q)' <=> Settled(q)
  BY <1>1, StillStep DEF IInv, Numbered
<1>3. pass'.deferred \/ \A q \in Paths : rows[q].seq <= pass.fence => rows[q].seq <= pass.p
  BY <1>1 DEF IInv, Walk, NextRow
<1>4. Walk'
  BY <1>1, <1>2, <1>3 DEF IInv, Walk, Walking, Still, NoFence
<1> QED BY <1>2, <1>4

LEMMA TakeRowStep ==
  ASSUME IInv, TakeRow
  PROVE  (Numbered /\ Decided /\ Certified /\ Walk)'
<1> USE TypeFacts
<1>1. /\ pass'.at = "apply" /\ pass'.todo = pass.todo /\ pass'.p = pass.p
      /\ pass'.fence = pass.fence /\ pass'.full = pass.full
      /\ pass.at = "rows" /\ Still
      /\ \E s \in pass.todo : /\ NextRow(s) /\ s.seq <= pass.fence
                              /\ s.live \/ s.path \notin queued \cup effects
  BY DEF TakeRow, IInv, TypeOK, Passes, Still, server, memory, busy, history
<1>2. (Numbered /\ Decided /\ Certified)' /\ \A q \in Paths : Settled(q)' <=> Settled(q)
  BY <1>1, StillStep DEF IInv, Numbered
<1>3. \E s \in pass.todo : /\ NextRow(s) /\ s.seq <= pass.fence
                           /\ ~s.live => posted[s.path] = 0
  BY <1>1 DEF IInv, Numbered
<1>4. Walk'
  BY <1>1, <1>2, <1>3 DEF IInv, Walk, Walking, Still, NextRow, NoFence
<1> QED BY <1>2, <1>4

(* The effect of a row on the index: the row is known afterwards, unless it  *)
(* is no longer the row of its path; then that row is beyond the fence.      *)
LEMMA ApplyStep ==
  ASSUME IInv, TypeOK', Apply
  PROVE  (Numbered /\ Decided /\ Certified /\ Walk)'
<1> USE TypeFacts
<1>1. PICK s \in pass.todo :
        /\ NextRow(s)
        /\ IF s.live THEN LiveApplied(s) ELSE TombstoneApplied(s)
        /\ pass' = [pass EXCEPT !.at = IF s.seq = pass.fence THEN "flush" ELSE "rows",
                                !.p = s.seq,
                                !.todo = IF s.seq = pass.fence THEN {} ELSE @ \ {s}]
  BY DEF Apply
<1>2. /\ pass'.at = (IF s.seq = pass.fence THEN "flush" ELSE "rows") /\ pass'.p = s.seq
      /\ pass'.todo = (IF s.seq = pass.fence THEN {} ELSE pass.todo \ {s})
      /\ pass'.fence = pass.fence /\ pass'.full = pass.full /\ pass'.deferred = pass.deferred
      /\ NextRow(s)
  BY <1>1 DEF IInv, TypeOK, Passes
<1>3. /\ UNCHANGED <<rows, top, cursor, stored, queued, posted>>
      /\ pass.at = "apply"
  BY DEF Apply, server, busy
<1>4. /\ s.seq > pass.p /\ s.seq <= pass.fence /\ pass.fence # NoFence /\ cursor <= pass.p
      /\ ~s.live /\ rows[s.path].seq = s.seq => posted[s.path] = 0
      /\ \/ rows[s.path].seq = s.seq /\ rows[s.path].live = s.live
         \/ rows[s.path].seq > pass.fence /\ rows[s.path].seq > s.seq
      /\ s.path \in Paths
  <2>1. PICK t \in pass.todo : /\ NextRow(t) /\ t.seq <= pass.fence
                               /\ ~t.live /\ rows[t.path].seq = t.seq => posted[t.path] = 0
    BY <1>3 DEF IInv, Walk
  <2>2. t = s
    <3>1. s.seq = t.seq
      <4>1. NextRow(s)
        BY <1>2
      <4>2. s \in pass.todo /\ s.seq <= t.seq /\ t.seq <= s.seq
        BY <4>1, <2>1 DEF NextRow
      <4>3. s.seq \in Nat /\ t.seq \in Nat
        BY <4>2, <2>1 DEF IInv
      <4> QED BY <4>2, <4>3
    <3> QED BY <3>1 DEF IInv, Walk
  <2>3. s.path \in Paths /\ s.seq > pass.p /\ pass.fence # NoFence /\ cursor <= pass.p
    BY <1>3 DEF IInv, FenceSet, Walk, Walking
  <2>4. \/ rows[s.path].seq = s.seq /\ rows[s.path].live = s.live
        \/ rows[s.path].seq > pass.fence /\ rows[s.path].seq > s.seq
    BY DEF IInv, Walk
  <2>5. /\ s.seq <= pass.fence
        /\ ~s.live /\ rows[s.path].seq = s.seq => posted[s.path] = 0
    BY <2>1, <2>2
  <2> QED BY <2>3, <2>4, <2>5
<1>5. /\ \A q \in Paths : q # s.path => index'[q] = index[q] /\ given'[q] = given[q]
      /\ \/ /\ index'[s.path] = index[s.path] /\ given'[s.path] = given[s.path]
            /\ \/ s.seq <= index[s.path].seq
               \/ ~s.live /\ index[s.path].st = "none"
         \/ /\ index'[s.path] = index[s.path] /\ given'[s.path] = s.seq
         \/ /\ index'[s.path] = [seq |-> s.seq, st |-> "live"]
            /\ given'[s.path] = given[s.path]
         \/ /\ ~s.live /\ given'[s.path] = given[s.path]
            /\ index'[s.path] = NoEntry \/ index'[s.path] = [seq |-> s.seq, st |-> "decided"]
  <2>1. CASE s.live
    BY <1>1, <1>4, <2>1 DEF LiveApplied, IInv, TypeOK
  <2>2. CASE ~s.live
    BY <1>1, <1>4, <2>2 DEF TombstoneApplied, IInv, TypeOK
  <2> QED BY <2>1, <2>2
<1>6. \A q \in Paths : rows[q].seq <= s.seq => Settled(q)'
  <2> SUFFICES ASSUME NEW q \in Paths, rows[q].seq <= s.seq PROVE Settled(q)'
    OBVIOUS
  <2>1. CASE q = s.path
    BY <1>3, <1>4, <1>5, <2>1 DEF Settled, NoEntry, IInv
  <2>2. CASE q # s.path
    <3>1. rows[q].seq <= pass.p
      BY <1>2, <1>3, <1>4, <2>2 DEF IInv, Walk, NextRow
    <3>2. Settled(q)
      BY <1>3, <3>1 DEF IInv, Walk, Walking
    <3> QED BY <1>3, <1>5, <2>2, <3>2 DEF Settled
  <2> QED BY <2>1, <2>2
<1>7. Numbered'
  <2>1. \A q \in Paths : index'[q].seq <= rows[q].seq /\ given'[q] <= rows[q].seq
    BY <1>4, <1>5 DEF IInv, Numbered, NoEntry
  <2> QED BY <1>2, <1>3, <1>4, <2>1 DEF IInv, Numbered
<1>8. Decided'
  <2> SUFFICES ASSUME NEW q \in Paths, index'[q].st = "decided", index'[q].seq = rows[q].seq
               PROVE ~rows[q].live /\ posted[q] = 0
    BY <1>3 DEF IInv, Decided
  <2>1. CASE index'[q] = index[q]
    BY <2>1 DEF IInv, Decided
  <2>2. CASE index'[q] # index[q]
    BY <1>4, <1>5, <2>2 DEF NoEntry, IInv
  <2> QED BY <2>1, <2>2
<1>9. Certified'
  <2> SUFFICES ASSUME NEW q \in Paths
               PROVE /\ rows[q].seq <= cursor => Settled(q)'
                     /\ rows[q].seq <= stored.cursor => Known(q, stored.index)'
    BY <1>3 DEF Certified
  <2>1. rows[q].seq <= cursor => Settled(q)'
    BY <1>4, <1>6 DEF IInv
  <2>2. ASSUME rows[q].seq <= stored.cursor PROVE Known(q, stored.index)'
    <3>1. q # s.path
      BY <1>4, <2>2 DEF IInv, Numbered
    <3> QED BY <1>3, <1>5, <2>2, <3>1 DEF IInv, Certified, Known
  <2> QED BY <2>1, <2>2
<1>10. Walk'
  <2>1. CASE s.seq = pass.fence
    BY <1>2, <1>3, <1>4, <1>6, <2>1 DEF IInv, Walk, Walking, NoFence
  <2>2. CASE s.seq # pass.fence
    <3>1. pass'.at = "rows" /\ pass'.todo = pass.todo \ {s}
      BY <1>2, <2>2
    <3>2. \A t \in pass'.todo : t.seq > s.seq
      BY <1>2, <3>1 DEF IInv, Walk, NextRow
    <3>3. \A q \in Paths : rows[q].seq > s.seq /\ rows[q].seq <= pass.fence =>
            \/ \E t \in pass'.todo : t.path = q /\ t.seq = rows[q].seq
            \/ pass.full /\ \A t \in pass'.todo : t.seq < rows[q].seq
      BY <1>3, <1>4, <3>1 DEF IInv, Walk
    <3>4. \A t \in pass'.todo :
            /\ \A u \in pass'.todo : u.seq = t.seq => u = t
            /\ \/ rows[t.path].seq = t.seq /\ rows[t.path].live = t.live
               \/ rows[t.path].seq > pass.fence /\ rows[t.path].seq > t.seq
      BY <3>1 DEF IInv, Walk
    <3> QED BY <1>2, <1>3, <1>4, <1>6, <3>1, <3>2, <3>3, <3>4 DEF IInv, Walk, Walking, NoFence
  <2> QED BY <2>1, <2>2
<1> QED BY <1>7, <1>8, <1>9, <1>10

LEMMA FlushStep ==
  ASSUME IInv, TypeOK', Flush
  PROVE  (Numbered /\ Decided /\ Certified /\ Walk)'
<1> USE TypeFacts
<1> DEFINE certified == IF pass.deferred THEN pass.p ELSE pass.fence
<1>1. /\ UNCHANGED <<rows, top, index, posted, given, queued>>
      /\ stored'.index = index /\ stored'.cursor = cursor
      /\ cursor' = IF certified > cursor THEN certified ELSE cursor
      /\ pass'.at = "tail" /\ pass'.p = pass.p /\ pass'.fence = pass.fence
      /\ pass'.todo = pass.todo /\ pass.at = "flush"
  BY DEF Flush, IInv, TypeOK, Passes, server, busy, history
<1>2. certified <= top
  BY <1>1 DEF IInv, FenceSet, Numbered
<1>3. \A q \in Paths : rows[q].seq <= certified => Settled(q)
  BY <1>1 DEF IInv, Walk, Walking
<1> HIDE DEF certified
<1>4. certified \in Nat
  BY DEF certified, IInv
<1>5. Numbered' /\ Decided'
  BY <1>1, <1>2, <1>4 DEF IInv, Numbered, Decided, NoFence
<1>6. Certified'
  BY <1>1, <1>3, <1>4 DEF IInv, Certified, Settled, Known
<1>7. Walk'
  BY <1>1 DEF IInv, Walk, Walking, NoFence
<1> QED BY <1>5, <1>6, <1>7

LEMMA PersistStep ==
  ASSUME IInv, Persist
  PROVE  (Numbered /\ Decided /\ Certified /\ Walk)'
<1> USE TypeFacts
<1>1. /\ UNCHANGED <<rows, top, index, cursor, posted, given, queued, pass>>
      /\ stored'.index = index /\ stored'.cursor = cursor
  BY DEF Persist, server, memory, busy, history
<1> QED BY <1>1 DEF IInv, Numbered, Decided, Certified, Walk, Settled, Known, Walking, NextRow, NoFence

LEMMA CrashStep ==
  ASSUME IInv, Crash
  PROVE  (Numbered /\ Decided /\ Certified /\ Walk)'
<1> USE TypeFacts
<1>1. /\ UNCHANGED <<rows, top, stored, given>> /\ index' = stored.index /\ cursor' = stored.cursor
      /\ \A q \in Paths : posted'[q] = 0
      /\ pass'.at = "start" /\ pass'.p = 0 /\ pass'.fence = NoFence /\ pass'.todo = {}
  BY DEF Crash, Started, NoPass, server
<1>2. Numbered' /\ Decided' /\ Certified'
  BY <1>1 DEF IInv, Numbered, Decided, Certified, Settled, Known, NoFence
<1>3. Walk'
  BY <1>1 DEF Walk, Walking, NoFence
<1> QED BY <1>2, <1>3

LEMMA StepIInv == IInv /\ [Next]_vars => IInv'
<1> SUFFICES ASSUME IInv, [Next]_vars PROVE IInv'
  OBVIOUS
<1>1. (TypeOK /\ FenceSet)'
  BY StepTyped DEF IInv
<1> SUFFICES (Numbered /\ Decided /\ Certified /\ Walk)'
  BY <1>1 DEF IInv
<1> USE <1>1 DEF server, memory, busy, history
<1>2. CASE Connect \/ AnnouncementTimer \/ UNCHANGED vars
  BY <1>2, Frame DEF Connect, AnnouncementTimer, vars
<1>3. CASE \E p \in Paths : UploadQueued(p) \/ DownloadRegistered(p) \/ DownloadSettles(p)
  BY <1>3, Frame DEF UploadQueued, DownloadRegistered, DownloadSettles
<1>4. ASSUME NEW p \in Paths, UploadAccepted(p) PROVE (Numbered /\ Decided /\ Certified /\ Walk)'
  BY <1>4, NewRow DEF UploadAccepted
<1>5. ASSUME NEW p \in Paths, NEW l \in BOOLEAN, PeerWrites(p, l)
      PROVE (Numbered /\ Decided /\ Certified /\ Walk)'
  BY <1>5, NewRow DEF PeerWrites
<1>6. CASE \E p \in Paths : UploadAcked(p) \/ UploadEnds(p) \/ Reconcile(p)
  BY <1>6, AckStep, UploadEndStep, ReconcileStep
<1>7. CASE PassStarts \/ ListAnswered \/ PageDone \/ BeyondFence \/ Defer \/ TakeRow \/ Apply
  BY <1>7, PassStartStep, ListStep, PageDoneStep, StopStep, TakeRowStep, ApplyStep
<1>8. CASE ListFails \/ FlushFails \/ PassEnds \/ StartReconciled
  BY <1>8, PassOverStep DEF ListFails, FlushFails, PassEnds, StartReconciled, PassOver, Still
<1>9. CASE Flush \/ Persist \/ Crash
  BY <1>9, FlushStep, PersistStep, CrashStep
<1> QED BY <1>2, <1>3, <1>4, <1>5, <1>6, <1>7, <1>8, <1>9 DEF Next

(* The variables of the lane keep their types.                               *)
THEOREM TypeCorrect == Spec => []TypeOK
<1>1. IInv => TypeOK
  BY DEF IInv
<1> QED BY InitIInv, StepIInv, <1>1, PTL DEF Spec

(* Neither cursor ever passes a row the index next to it does not know, in   *)
(* whatever order rows, answers, failed writes and crashes meet the walk     *)
(* (runCatchUp, advanceCursor).                                              *)
THEOREM CursorAlwaysCertifies == Spec => []CursorCertifies
<1>1. IInv => CursorCertifies
  BY DEF IInv, Certified, Settled, CursorCertifies, Known
<1> QED BY InitIInv, StepIInv, <1>1, PTL DEF Spec

-----------------------------------------------------------------------------
Rearmed == (~NoWork => request) /\ FollowUpScheduled

LEMMA StepRearmed == Rearmed /\ [Next]_vars => Rearmed'
<1> SUFFICES ASSUME Rearmed, [Next]_vars PROVE Rearmed'
  OBVIOUS
<1> USE DEF Rearmed, FollowUpScheduled, NoWork, server, memory, busy, rearm, history, counters
<1>1. CASE Connect \/ AnnouncementTimer \/ Persist \/ UNCHANGED vars
  BY <1>1 DEF Connect, AnnouncementTimer, Persist, vars
<1>2. ASSUME NEW p \in Paths,
             UploadQueued(p) \/ UploadAccepted(p) \/ UploadAcked(p) \/ DownloadRegistered(p)
      PROVE  Rearmed'
  BY <1>2 DEF UploadQueued, UploadAccepted, UploadAcked, DownloadRegistered
<1>3. ASSUME NEW p \in Paths, UploadEnds(p) \/ DownloadSettles(p)
      PROVE  Rearmed'
  <2>1. /\ UNCHANGED <<pass, owed>> /\ UploadSettled(p)
        /\ queued \cup effects \subseteq queued' \cup effects' \cup {p}
    BY <1>3 DEF UploadEnds, DownloadSettles
  <2>2. CASE p \in deferredPaths
    <3>1. request' = TRUE /\ (~NoWork => trailing' = TRUE)
      BY <2>1, <2>2 DEF UploadSettled
    <3> QED BY <2>1, <3>1
  <2>3. CASE p \notin deferredPaths
    <3>1. UNCHANGED rearm
      BY <2>1, <2>3 DEF UploadSettled
    <3> QED BY <2>1, <2>3, <3>1
  <2> QED BY <2>2, <2>3
<1>4. ASSUME NEW p \in Paths, NEW l \in BOOLEAN, PeerWrites(p, l) \/ Reconcile(p)
      PROVE  Rearmed'
  BY <1>4 DEF PeerWrites, Reconcile
<1>5. CASE ListFails \/ FlushFails \/ PassEnds \/ StartReconciled
  BY <1>5 DEF ListFails, FlushFails, PassEnds, StartReconciled, PassOver, NoPass
<1>6. CASE PassStarts
  BY <1>6 DEF PassStarts
<1>7. CASE ListAnswered \/ PageDone \/ BeyondFence \/ TakeRow \/ Apply \/ Flush
  <2>1. UNCHANGED <<queued, effects, rearm, owed>> /\ ~NoWork
    BY <1>7 DEF ListAnswered, PageDone, BeyondFence, TakeRow, Apply, Flush
  <2> QED BY <2>1
<1>8. CASE Defer
  <2>1. PICK s \in pass.todo : /\ s.path \in queued \cup effects
                               /\ deferredPaths' = deferredPaths \cup {s.path}
                               /\ owed' = owed \cup {s.path}
    BY <1>8 DEF Defer
  <2>2. UNCHANGED <<queued, effects, trailing, request>> /\ ~NoWork
    BY <1>8 DEF Defer
  <2> QED BY <2>1, <2>2
<1>9. CASE Crash
  BY <1>9 DEF Crash, Started, NoPass
<1> QED BY <1>1, <1>2, <1>3, <1>4, <1>5, <1>6, <1>7, <1>8, <1>9 DEF Next

(* A remote delete that stopped a pass always has another pass coming        *)
(* (uploadSettled, catchUp), whenever the work it met settles.               *)
THEOREM DeferredAreRetried == Spec => []FollowUpScheduled
<1>1. Init => Rearmed
  BY DEF Init, Rearmed, FollowUpScheduled, NoWork, NoPass
<1>2. Rearmed => FollowUpScheduled
  BY DEF Rearmed
<1> QED BY <1>1, <1>2, StepRearmed, PTL DEF Spec
=============================================================================
