--------------------------- MODULE NoteMergeProofs ---------------------------
(* What TLAPS proves of NoteMerge, for any number of changes, any queue and  *)
(* any number of failures: the types, that own text is always somewhere,     *)
(* that text nobody deleted leaves the document only beside a write, and     *)
(* that a note at rest in whose session nothing lapsed has converged.        *)
EXTENDS NoteMerge, TLAPS

USE NoteMergeAssumption DEF remote, note, frames, chains, local, marks, history

(* What the user sees: the editor, or the file when none is open.            *)
Visible == IF Open THEN editor ELSE disk

(* Own changes that must be found in the text: those that were neither made  *)
(* beside a rewrite nor copied.                                              *)
Unsafe == ((MaxPeer + 1)..(MaxPeer + own)) \ (exposed \cup copies)

(* The document with the keystrokes it lacked, with a change that came, and  *)
(* with all that the server has.                                             *)
Base == Flushed(doc)
Joined(n) == Import(Base, {n})
Caught == Import(doc, 1..peers)

Docs == {d \in [ops : Texts, deleted : Texts, sent : SUBSET OwnChanges] : d.sent \subseteq d.ops}
Runs == [at : Places, content : Texts, before : Texts]
Lapses ==
  {"muted", "unsent", "closed", "opened", "suppressed", "dropped", "failed", "beside", "overtaken"}

---------------------------------------------------------------------------
(* Texts and documents.                                                      *)

(* The changes of others and own ones are different, and no text is what     *)
(* stands for a closed editor.                                               *)
LEMMA Numbering ==
  /\ 0 \in 0..MaxPeer /\ 0 \in 0..MaxOwn /\ 0 \in 0..MaxFaults
  /\ PeerChanges \cap OwnChanges = {} /\ PeerChanges \cup OwnChanges = Changes
  /\ \A x \in Texts : x # Closed /\ x # NotSet
  /\ {} \in Texts /\ Closed = NotSet
  /\ \A n \in 0..MaxPeer : 1..n \subseteq PeerChanges /\ 1..n \in Texts
  /\ \A n \in 0..MaxOwn : (MaxPeer + 1)..(MaxPeer + n) \subseteq OwnChanges
<1>1. 0 \notin Changes
  BY DEF Changes, PeerChanges, OwnChanges
<1>2. \A n \in 0..MaxPeer : 1..n \subseteq PeerChanges
  BY DEF PeerChanges
<1>3. \A n \in 0..MaxOwn : (MaxPeer + 1)..(MaxPeer + n) \subseteq OwnChanges
  BY DEF OwnChanges
<1>4. PeerChanges \cap OwnChanges = {}
  BY DEF PeerChanges, OwnChanges
<1> QED BY <1>1, <1>2, <1>3, <1>4 DEF Texts, Changes, Closed, NotSet

(* The parts of TypeOK by name.                                              *)
LEMMA Fields ==
  ASSUME TypeOK
  PROVE  /\ peers \in 0..MaxPeer /\ linked \subseteq PeerChanges /\ linked \subseteq 1..peers
         /\ doc \in Docs
         /\ editor \in Texts \cup {Closed} /\ disk \in Texts /\ copies \in Texts
         /\ (Open => editor \in Texts) /\ Visible \in Texts
         /\ front \in BOOLEAN /\ (front => Open) /\ own \in 0..MaxOwn
         /\ run \in [Chains -> Runs] /\ catching \in Chains \cup {"nobody"}
         /\ lastRemote \in Texts \cup {NotSet}
         /\ exposed \subseteq OwnChanges /\ lapses \subseteq Lapses
         /\ reads \subseteq {"guarded", "plain"}
<1>1. peers \in 0..MaxPeer /\ linked \subseteq 1..peers
  BY DEF TypeOK
<1>2. linked \subseteq PeerChanges
  BY <1>1, Numbering
<1> QED BY <1>1, <1>2 DEF TypeOK, Docs, Runs, Lapses, Open, Visible

LEMMA SequenceFacts ==
  ASSUME NEW T, NEW q \in Seq(T)
  PROVE  /\ Len(q) \in Nat
         /\ \A t \in T : Append(q, t) \in Seq(T) /\ Len(Append(q, t)) = Len(q) + 1
         /\ q # <<>> => Head(q) \in T /\ Tail(q) \in Seq(T) /\ Len(Tail(q)) = Len(q) - 1
  OBVIOUS

(* What the operators on a document give.                                    *)
LEMMA TextTyped ==
  ASSUME NEW d \in Docs
  PROVE  /\ Text(d) \in Texts /\ Text(d) \subseteq Applied(d) /\ Applied(d) \subseteq d.ops
         /\ d.ops \in Texts /\ d.deleted \in Texts
  BY DEF Text, Applied, Docs, Texts

LEMMA ImportGives ==
  ASSUME NEW d \in Docs, NEW x \in Texts
  PROVE  /\ Import(d, x) \in Docs
         /\ Import(d, x).ops = d.ops \cup x /\ Import(d, x).deleted = d.deleted
  BY DEF Import, Docs, Texts

LEMMA PushGives ==
  ASSUME NEW d \in Docs, NEW x \in Texts
  PROVE  /\ Synced(d, x) \in Docs /\ Pushed(d, x) \in Docs
         /\ Synced(d, x).ops = d.ops \cup x /\ Synced(d, x).deleted = (d.deleted \cup Text(d)) \ x
         /\ Pushed(d, x).ops = d.ops \cup x /\ Pushed(d, x).deleted = (d.deleted \cup Text(d)) \ x
<1>1. Text(d) \in Texts
  BY TextTyped
<1>2. /\ Synced(d, x) \in Docs
      /\ Synced(d, x).ops = d.ops \cup x /\ Synced(d, x).deleted = (d.deleted \cup Text(d)) \ x
  BY <1>1 DEF Synced, Docs, Texts
<1>3. Text(Synced(d, x)) \subseteq Synced(d, x).ops
  BY <1>2, TextTyped
<1> QED BY <1>2, <1>3 DEF Pushed, Docs

LEMMA FlushGives ==
  ASSUME NEW d \in Docs, TypeOK
  PROVE  /\ Flushed(d) \in Docs /\ d.ops \subseteq Flushed(d).ops
         /\ Open => /\ editor \in Texts /\ Flushed(d) = Pushed(d, editor)
                    /\ Flushed(d).ops = d.ops \cup editor
                    /\ Flushed(d).deleted = (d.deleted \cup Text(d)) \ editor
         /\ ~Open => Flushed(d) = d
<1>1. CASE Open
  <2>1. editor \in Texts
    BY <1>1, Fields
  <2>2. Flushed(d) = Pushed(d, editor)
    BY <1>1 DEF Flushed
  <2> QED BY <1>1, <2>1, <2>2, PushGives
<1>2. CASE ~Open
  BY <1>2 DEF Flushed
<1> QED BY <1>1, <1>2

(* Own operations are never held back.                                       *)
LEMMA OwnText ==
  ASSUME TypeOK, NEW d \in Docs, NEW c \in OwnChanges
  PROVE  c \in Text(d) <=> c \in d.ops \ d.deleted
<1>1. c \notin linked
  BY Fields, Numbering
<1> QED BY <1>1 DEF Text, Applied

---------------------------------------------------------------------------
(* What a step may change.                                                   *)

(* A broadcast is handled by one of the chains, which was idle.              *)
LEMMA BroadcastStep ==
  ASSUME TypeOK, LiveBroadcast \/ Replay
  PROVE  \E r \in Chains : \E n \in 1..peers : run[r].at = "idle" /\ OnDeltaBroadcast(r, n)
<1>1. \A s \in Seq(1..peers) : s # <<>> => Head(s) \in 1..peers
  BY SequenceFacts
<1>2. CASE LiveBroadcast
  BY <1>1, <1>2 DEF LiveBroadcast, TypeOK, Chains
<1>3. CASE Replay
  BY <1>1, <1>3 DEF Replay, TypeOK, Chains
<1> QED BY <1>2, <1>3

(* The content that pushFileDeltaAsync pushes is the visible one.            *)
LEMMA PushFilePushes ==
  ASSUME NEW read, PushFile(read), ~Open => read = disk
  PROVE  /\ lastRemote' = NotSet
         /\ doc' = doc \/ doc' = Pushed(doc, Visible)
         /\ lapses' = lapses \/ lapses' = lapses \cup {"beside"}
         /\ Outstanding /\ doc' # doc => "beside" \in lapses'
  BY DEF PushFile, Visible

(* How onDeltaBroadcast can go: the server is asked, the editor altered, an  *)
(* open editor found to show the text, or the file about to be written.      *)
LEMMA BroadcastGives ==
  ASSUME TypeOK, NEW r \in Chains, NEW n \in 1..peers, OnDeltaBroadcast(r, n)
  PROVE  /\ Base \in Docs /\ Joined(n) \in Docs /\ doc' \in Docs
         /\ doc.ops \subseteq Base.ops
         /\ Joined(n).ops = Base.ops \cup {n} /\ Joined(n).deleted = Base.deleted
         /\ Joined(n).ops \subseteq doc'.ops
         /\ Text(Base) \in Texts /\ Text(Joined(n)) \in Texts
         /\ \/ doc' = Flushed(Joined(n)) /\ catching = "nobody" /\ AskServer(r, Text(Base))
            \/ doc' = Joined(n) /\ Open /\ ApplyToEditor(r, Text(Joined(n)) \ Text(Base))
            \/ /\ doc' = Joined(n) /\ Open /\ Text(Joined(n)) \ Text(Base) = {}
               /\ Rewrite(r, Text(Joined(n)), Text(Base))
               /\ UNCHANGED <<editor, catching>>
            \/ /\ doc' = Joined(n) /\ ~Open
               /\ run' = [run EXCEPT ![r] = [at |-> "hook", content |-> Text(Joined(n)), before |-> Text(Base)]]
               /\ UNCHANGED <<editor, catching, lastRemote>>
<1>1. doc \in Docs
  BY Fields
<1>2. Base \in Docs /\ doc.ops \subseteq Base.ops
  BY <1>1, FlushGives DEF Base
<1>3. {n} \in Texts
  BY Fields, Numbering DEF Texts, Changes
<1>4. Joined(n) \in Docs /\ Joined(n).ops = Base.ops \cup {n} /\ Joined(n).deleted = Base.deleted
  BY <1>2, <1>3, ImportGives DEF Joined
<1>5. Text(Base) \in Texts /\ Text(Joined(n)) \in Texts
  BY <1>2, <1>4, TextTyped
<1>6. Flushed(Joined(n)) \in Docs /\ Joined(n).ops \subseteq Flushed(Joined(n)).ops
  BY <1>4, FlushGives
<1>7. \/ doc' = Flushed(Joined(n)) /\ catching = "nobody" /\ AskServer(r, Text(Base))
      \/ doc' = Joined(n) /\ Open /\ ApplyToEditor(r, Text(Joined(n)) \ Text(Base))
      \/ /\ doc' = Joined(n) /\ Open /\ Text(Joined(n)) \ Text(Base) = {}
               /\ Rewrite(r, Text(Joined(n)), Text(Base))
         /\ UNCHANGED <<editor, catching>>
      \/ /\ doc' = Joined(n) /\ ~Open
         /\ run' = [run EXCEPT ![r] = [at |-> "hook", content |-> Text(Joined(n)), before |-> Text(Base)]]
         /\ UNCHANGED <<editor, catching, lastRemote>>
  BY DEF OnDeltaBroadcast, WriteToVault, Base, Joined
<1> QED BY <1>2, <1>4, <1>5, <1>6, <1>7

(* The same for the answer to a catch-up request.                            *)
LEMMA AnswerGives ==
  ASSUME TypeOK, NEW r \in Chains, CatchUpAnswered(r)
  PROVE  /\ Caught \in Docs /\ doc' \in Docs /\ Caught.ops = doc.ops \cup 1..peers /\ Caught.deleted = doc.deleted
         /\ Caught.ops \subseteq doc'.ops /\ Text(Caught) \in Texts
         /\ \/ /\ Open /\ doc' = Synced(Caught, editor') /\ editor' = editor \cup (Text(Caught) \ Text(doc))
               /\ editor' \in Texts /\ lastRemote' = editor' /\ Done(r)
            \/ /\ doc' = Caught /\ Open /\ Rewrite(r, Text(Caught), run[r].before)
               /\ UNCHANGED <<editor, catching>>
            \/ /\ doc' = Caught /\ ~Open
               /\ run' = [run EXCEPT ![r] = [at |-> "hook", content |-> Text(Caught), before |-> run[r].before]]
               /\ UNCHANGED <<editor, catching, lastRemote>>
<1>1. doc \in Docs /\ 1..peers \in Texts
  BY Fields, Numbering
<1>2. Caught \in Docs /\ Caught.ops = doc.ops \cup 1..peers /\ Caught.deleted = doc.deleted
  BY <1>1, ImportGives DEF Caught
<1>3. Text(Caught) \in Texts /\ Text(doc) \in Texts
  BY <1>1, <1>2, TextTyped
<1>4. CASE front /\ Text(Caught) \ Text(doc) # {}
  <2>1. /\ editor' = editor \cup (Text(Caught) \ Text(doc)) /\ doc' = Synced(Caught, editor')
        /\ lastRemote' = editor' /\ Done(r)
    BY <1>4 DEF CatchUpAnswered, Caught
  <2>2. Open /\ editor \in Texts
    BY <1>4, Fields
  <2>3. editor' \in Texts
    BY <1>3, <2>1, <2>2 DEF Texts
  <2>4. ASSUME NEW x \in Texts PROVE Synced(Caught, x) \in Docs /\ Caught.ops \subseteq Synced(Caught, x).ops
    BY <1>2, PushGives
  <2>5. doc' \in Docs /\ Caught.ops \subseteq doc'.ops
    BY <2>1, <2>3, <2>4
  <2> QED BY <1>2, <1>3, <2>1, <2>2, <2>3, <2>5
<1>5. CASE ~(front /\ Text(Caught) \ Text(doc) # {})
  <2>1. doc' = Caught /\ WriteToVault(r, Text(Caught), run[r].before) /\ UNCHANGED <<editor, catching>>
    BY <1>5 DEF CatchUpAnswered, Caught
  <2> QED BY <1>2, <1>3, <2>1 DEF WriteToVault
<1> QED BY <1>4, <1>5

(* Who changes the document.                                                 *)
LEMMA DocChanges ==
  ASSUME TypeOK, Next
  PROVE  \/ doc' = doc
         \/ doc' = Pushed(doc, Visible) /\ (Outstanding => "beside" \in lapses')
            /\ UNCHANGED <<remote, note, run, catching>>
         \/ \E r \in Chains : \E n \in 1..peers : run[r].at = "idle" /\ OnDeltaBroadcast(r, n)
         \/ \E r \in Chains : CatchUpAnswered(r)
<1>1. CASE LiveBroadcast \/ Replay
  BY <1>1, BroadcastStep
<1>2. CASE DebounceFires
  BY <1>2, PushFilePushes DEF DebounceFires
<1>3. CASE PlainRead
  BY <1>3, PushFilePushes DEF PlainRead
<1>4. CASE GuardedRead
  BY <1>4, PushFilePushes DEF GuardedRead
<1>5. CASE ScanReads
  BY <1>5, PushFilePushes DEF ScanReads
<1>6. CASE ~(LiveBroadcast \/ Replay \/ DebounceFires \/ PlainRead \/ GuardedRead \/ ScanReads)
           /\ ~\E r \in Chains : CatchUpAnswered(r)
  BY <1>6 DEF Next, PeerChange, OverflowByOthers, InitialSyncEnds, ReplayEnds, CatchUpFails,
     HookReads, CopyMade, ShownIsChecked, FileIsChecked, Type, AutoSave, ChangePane, OpenNote,
     CloseNote, ExternalEdit, WindowEnds, ScanStarts
<1> QED BY <1>1, <1>2, <1>3, <1>4, <1>5, <1>6

---------------------------------------------------------------------------
(* Types.                                                                    *)

LEMMA RemoteTyped ==
  ASSUME TypeOK, Next
  PROVE  peers' \in 0..MaxPeer /\ linked' \subseteq 1..peers' /\ peers' >= peers
<1>1. UNCHANGED remote \/ PeerChange
  BY DEF Next, OverflowByOthers, InitialSyncEnds, ReplayEnds, LiveBroadcast, Replay, OnDeltaBroadcast,
     CatchUpAnswered, CatchUpFails, HookReads, CopyMade, ShownIsChecked, FileIsChecked, Type,
     DebounceFires, AutoSave, ChangePane, OpenNote, CloseNote, ExternalEdit, PlainRead, GuardedRead,
     WindowEnds, ScanStarts, ScanReads
<1>2. peers \in 0..MaxPeer /\ linked \subseteq 1..peers
  BY Fields
<1>3. CASE PeerChange
  <2>1. peers' = peers + 1 /\ peers < MaxPeer /\ linked' \subseteq linked \cup {peers + 1}
    BY <1>3 DEF PeerChange
  <2>2. peers' \in 0..MaxPeer /\ peers' >= peers
    BY <1>2, <2>1
  <2>3. 1..peers \subseteq 1..peers' /\ peers + 1 \in 1..peers'
    BY <1>2, <2>1
  <2> QED BY <1>2, <2>1, <2>2, <2>3
<1>4. CASE UNCHANGED remote
  BY <1>2, <1>4
<1> QED BY <1>1, <1>3, <1>4

LEMMA DocTyped ==
  ASSUME TypeOK, Next
  PROVE  doc' \in Docs
<1>1. doc \in Docs /\ Visible \in Texts
  BY Fields
<1>2. Pushed(doc, Visible) \in Docs
  BY <1>1, PushGives
<1>3. ASSUME NEW r \in Chains, NEW n \in 1..peers, OnDeltaBroadcast(r, n) PROVE doc' \in Docs
  BY <1>3, BroadcastGives
<1>4. ASSUME NEW r \in Chains, CatchUpAnswered(r) PROVE doc' \in Docs
  BY <1>4, AnswerGives
<1> QED BY <1>1, <1>2, <1>3, <1>4, DocChanges

(* The run of a chain has the types of its parts.                            *)
LEMMA RunTyped ==
  ASSUME TypeOK, NEW r \in Chains
  PROVE  run[r].at \in Places /\ run[r].content \in Texts /\ run[r].before \in Texts
  BY Fields DEF Runs

(* What the note's handlers do to the editor.                                *)
LEMMA EditorChanges ==
  ASSUME TypeOK, Next
  PROVE  \/ UNCHANGED editor
         \/ /\ Open /\ editor' \in Texts /\ UNCHANGED <<front, disk>>
            /\ \/ editor \subseteq editor'
               \/ \E r \in Chains : run[r].at = "checked" /\ editor' = run[r].content /\ FileIsChecked(r)
         \/ OpenNote \/ CloseNote
<1>1. editor \in Texts \cup {Closed} /\ (Open => editor \in Texts) /\ (front => Open)
  BY Fields
<1>2. ASSUME NEW r \in Chains, NEW n \in 1..peers, OnDeltaBroadcast(r, n)
      PROVE  \/ UNCHANGED editor
             \/ Open /\ editor' \in Texts /\ editor \subseteq editor' /\ UNCHANGED <<front, disk>>
  <2>1. Text(Base) \in Texts /\ Text(Joined(n)) \in Texts
    BY <1>2, BroadcastGives
  <2>2. \/ UNCHANGED editor
        \/ Open /\ editor' = editor \cup (Text(Joined(n)) \ Text(Base))
    BY <1>2, BroadcastGives DEF AskServer, ApplyToEditor
  <2>3. UNCHANGED <<front, disk>>
    BY <1>2 DEF OnDeltaBroadcast
  <2>4. Open => editor \cup (Text(Joined(n)) \ Text(Base)) \in Texts
    BY <1>1, <2>1 DEF Texts
  <2> QED BY <2>2, <2>3, <2>4
<1>3. ASSUME NEW r \in Chains, CatchUpAnswered(r)
      PROVE  \/ UNCHANGED editor
             \/ Open /\ editor' \in Texts /\ editor \subseteq editor' /\ UNCHANGED <<front, disk>>
  <2>1. \/ UNCHANGED editor
        \/ Open /\ editor' \in Texts /\ editor' = editor \cup (Text(Caught) \ Text(doc))
    BY <1>3, AnswerGives
  <2> QED BY <1>3, <2>1 DEF CatchUpAnswered
<1>4. ASSUME NEW r \in Chains, FileIsChecked(r)
      PROVE  \/ UNCHANGED editor
             \/ /\ Open /\ editor' \in Texts /\ UNCHANGED <<front, disk>>
                /\ run[r].at = "checked" /\ editor' = run[r].content
  <2>1. run[r].content \in Texts
    BY RunTyped
  <2> QED BY <1>4, <2>1 DEF FileIsChecked
<1>5. CASE Type
  <2>1. PICK c \in OwnChanges : editor' = editor \cup {c}
    BY <1>5 DEF Type
  <2>2. Open /\ UNCHANGED <<front, disk>>
    BY <1>1, <1>5 DEF Type
  <2> QED BY <1>1, <2>1, <2>2 DEF Texts, Changes
<1>6. CASE ~(LiveBroadcast \/ Replay \/ Type \/ OpenNote \/ CloseNote)
           /\ ~\E r \in Chains : CatchUpAnswered(r) \/ FileIsChecked(r)
  BY <1>6 DEF Next, PeerChange, OverflowByOthers, InitialSyncEnds, ReplayEnds, CatchUpFails,
     HookReads, CopyMade, ShownIsChecked, DebounceFires, AutoSave, ChangePane,
     ExternalEdit, PlainRead, GuardedRead, WindowEnds, ScanStarts, ScanReads
<1> QED BY <1>2, <1>3, <1>4, <1>5, <1>6, BroadcastStep

(* Who writes the file.                                                      *)
LEMMA DiskChanges ==
  ASSUME TypeOK, Next
  PROVE  \/ UNCHANGED disk
         \/ /\ UNCHANGED editor
            /\ \E r \in Chains : /\ run[r].at \in {"shown", "checked"} /\ disk' = run[r].content
                                 /\ ShownIsChecked(r) \/ (~Open /\ FileIsChecked(r))
         \/ Open /\ disk' = editor /\ (UNCHANGED editor \/ CloseNote)
         \/ ExternalEdit
<1>1. UNCHANGED disk \/ AutoSave \/ CloseNote \/ ExternalEdit
      \/ \E r \in Chains : ShownIsChecked(r) \/ FileIsChecked(r)
  BY DEF Next, PeerChange, OverflowByOthers, InitialSyncEnds, ReplayEnds, LiveBroadcast, Replay,
     OnDeltaBroadcast, CatchUpAnswered, CatchUpFails, HookReads, CopyMade, Type, DebounceFires,
     ChangePane, OpenNote, PlainRead, GuardedRead, WindowEnds, ScanStarts, ScanReads
<1>2. ASSUME NEW r \in Chains, ShownIsChecked(r)
      PROVE  UNCHANGED editor /\ run[r].at = "shown" /\ (UNCHANGED disk \/ disk' = run[r].content)
  BY <1>2 DEF ShownIsChecked, ModifyFile
<1>3. ASSUME NEW r \in Chains, FileIsChecked(r)
      PROVE  \/ UNCHANGED disk
             \/ UNCHANGED editor /\ ~Open /\ run[r].at = "checked" /\ disk' = run[r].content
  BY <1>3 DEF FileIsChecked, ModifyFile
<1>4. CASE AutoSave
  BY <1>4 DEF AutoSave
<1>5. CASE CloseNote
  BY <1>5 DEF CloseNote
<1>6. CASE ExternalEdit
  BY <1>6
<1>7. CASE \E r \in Chains : ShownIsChecked(r) \/ FileIsChecked(r)
  <2>1. PICK r \in Chains : ShownIsChecked(r) \/ FileIsChecked(r)
    BY <1>7
  <2>2. CASE ShownIsChecked(r)
    BY <1>2, <2>2
  <2>3. CASE FileIsChecked(r)
    BY <1>3, <2>3
  <2> QED BY <2>1, <2>2, <2>3
<1> QED BY <1>1, <1>4, <1>5, <1>6, <1>7

(* What is saved as a copy, and what is made here.                           *)
LEMMA CopiesGrow ==
  ASSUME Next
  PROVE  \/ UNCHANGED copies
         \/ copies' = copies \cup disk /\ UNCHANGED <<exposed, own>>
<1>1. ASSUME NEW r \in Chains, HookReads(r)
      PROVE  (UNCHANGED copies \/ copies' = copies \cup disk) /\ UNCHANGED <<exposed, own>>
  BY <1>1 DEF HookReads
<1>2. UNCHANGED copies \/ \E r \in Chains : HookReads(r)
  BY DEF Next, PeerChange, OverflowByOthers, InitialSyncEnds, ReplayEnds, LiveBroadcast, Replay,
     OnDeltaBroadcast, CatchUpAnswered, CatchUpFails, CopyMade, ShownIsChecked,
     FileIsChecked, Type, DebounceFires, AutoSave, ChangePane, OpenNote, CloseNote, ExternalEdit,
     PlainRead, GuardedRead, WindowEnds, ScanStarts, ScanReads
<1> QED BY <1>1, <1>2

LEMMA OwnGrows ==
  ASSUME Next
  PROVE  \/ UNCHANGED <<own, exposed>>
         \/ UNCHANGED own /\ OpenNote
         \/ \E c \in OwnChanges : OwnChange(c) /\ (Type \/ ExternalEdit)
  BY DEF Next, PeerChange, OverflowByOthers, InitialSyncEnds, ReplayEnds, LiveBroadcast, Replay,
     QueueBroadcast, EnqueueBroadcast,
     OnDeltaBroadcast, CatchUpAnswered, CatchUpFails, HookReads, CopyMade, ShownIsChecked,
     FileIsChecked, Type, DebounceFires, AutoSave, ChangePane, OpenNote, CloseNote, ExternalEdit,
     PlainRead, GuardedRead, WindowEnds, ScanStarts, ScanReads

LEMMA NoteTyped ==
  ASSUME TypeOK, Next
  PROVE  /\ editor' \in Texts \cup {Closed} /\ disk' \in Texts /\ copies' \in Texts
         /\ front' \in BOOLEAN /\ (front' => editor' # Closed)
         /\ own' \in 0..MaxOwn /\ exposed' \subseteq OwnChanges
<1>1. /\ editor \in Texts \cup {Closed} /\ disk \in Texts /\ copies \in Texts /\ (Open => editor \in Texts)
      /\ front \in BOOLEAN /\ (front => Open) /\ own \in 0..MaxOwn /\ exposed \subseteq OwnChanges
  BY Fields
<1>2. editor' \in Texts \cup {Closed}
  BY <1>1, EditorChanges DEF OpenNote, CloseNote
<1>3. disk' \in Texts
  <2>1. ASSUME NEW c \in OwnChanges PROVE disk \cup {c} \in Texts
    BY <1>1 DEF Texts, Changes
  <2>2. ExternalEdit => \E c \in OwnChanges : disk' = disk \cup {c}
    BY DEF ExternalEdit
  <2> QED BY <1>1, <2>1, <2>2, RunTyped, DiskChanges
<1>4. copies' \in Texts
  <2>1. copies \cup disk \in Texts
    BY <1>1 DEF Texts
  <2> QED BY <1>1, <2>1, CopiesGrow
<1>5. front' \in BOOLEAN /\ (front' => editor' # Closed)
  <2>1. \A x \in Texts : x # Closed
    BY Numbering
  <2>2. UNCHANGED front \/ ChangePane \/ OpenNote \/ CloseNote
    BY DEF Next, PeerChange, OverflowByOthers, InitialSyncEnds, ReplayEnds, LiveBroadcast, Replay,
       OnDeltaBroadcast, CatchUpAnswered, CatchUpFails, HookReads, CopyMade, ShownIsChecked,
       FileIsChecked, Type, DebounceFires, AutoSave, ExternalEdit, PlainRead, GuardedRead,
       WindowEnds, ScanStarts, ScanReads
  <2>3. CASE OpenNote
    BY <1>1, <2>1, <2>3 DEF OpenNote
  <2>4. CASE CloseNote
    BY <2>4 DEF CloseNote
  <2>5. CASE ChangePane
    BY <2>5 DEF ChangePane, Open
  <2>6. CASE UNCHANGED front /\ ~OpenNote /\ ~CloseNote
    BY <1>1, <2>1, <2>6, EditorChanges DEF Open
  <2> QED BY <2>2, <2>3, <2>4, <2>5, <2>6
<1>6. own' \in 0..MaxOwn /\ exposed' \subseteq OwnChanges
  <2>1. CASE UNCHANGED <<own, exposed>>
    BY <1>1, <2>1
  <2>2. CASE UNCHANGED own /\ OpenNote
    BY <1>1, <2>2 DEF OpenNote
  <2>3. CASE \E c \in OwnChanges : OwnChange(c)
    <3>1. PICK c \in OwnChanges : OwnChange(c)
      BY <2>3
    <3>2. own' = own + 1 /\ own < MaxOwn /\ exposed' \subseteq exposed \cup {c}
      BY <3>1 DEF OwnChange
    <3> QED BY <1>1, <3>2
  <2> QED BY <2>1, <2>2, <2>3, OwnGrows
<1> QED BY <1>2, <1>3, <1>4, <1>5, <1>6

(* A step moves one chain at most, and writes only records of their type.    *)
LEMMA RunMoves ==
  ASSUME TypeOK, Next
  PROVE  \/ UNCHANGED chains
         \/ \E r \in Chains : \E n \in 1..peers :
              run[r].at = "idle" /\ OnDeltaBroadcast(r, n) /\ (LiveBroadcast \/ Replay)
              /\ (r = "live" <=> LiveBroadcast)
         \/ \E r \in Chains : CatchUpAnswered(r) \/ HookReads(r) \/ CopyMade(r)
         \/ \E r \in Chains : /\ run[r].at # "idle" /\ Done(r)
                              /\ CatchUpFails(r) \/ ShownIsChecked(r) \/ FileIsChecked(r)
<1>1. CASE LiveBroadcast
  <2>1. Head(liveq) \in 1..peers
    BY <1>1, SequenceFacts DEF LiveBroadcast, TypeOK
  <2> QED BY <1>1, <2>1 DEF LiveBroadcast, Chains
<1>2. CASE Replay /\ ~LiveBroadcast
  <2>1. Head(buffered) \in 1..peers
    BY <1>2, SequenceFacts DEF Replay, TypeOK
  <2> QED BY <1>2, <2>1 DEF Replay, Chains
<1>3. ASSUME NEW r \in Chains, CatchUpFails(r) \/ ShownIsChecked(r) \/ FileIsChecked(r)
      PROVE  run[r].at # "idle" /\ Done(r)
  BY <1>3 DEF CatchUpFails, ShownIsChecked, FileIsChecked
<1>4. CASE ~(LiveBroadcast \/ Replay)
           /\ ~\E r \in Chains : \/ CatchUpAnswered(r) \/ HookReads(r) \/ CopyMade(r)
                                 \/ CatchUpFails(r) \/ ShownIsChecked(r) \/ FileIsChecked(r)
  BY <1>4 DEF Next, PeerChange, OverflowByOthers, InitialSyncEnds, ReplayEnds, Type,
     DebounceFires, AutoSave, ChangePane, OpenNote, CloseNote, ExternalEdit, PlainRead, GuardedRead,
     WindowEnds, ScanStarts, ScanReads
<1> QED BY <1>1, <1>2, <1>3, <1>4

(* What the helpers of the chains do to the runs.                            *)
LEMMA DoneGives ==
  ASSUME TypeOK, NEW r \in Chains, Done(r)
  PROVE  /\ run' \in [Chains -> Runs] /\ run'[r] = Idle
         /\ \A q \in Chains : q # r => run'[q] = run[q]
         /\ catching' = IF catching = r THEN "nobody" ELSE catching
<1>1. Idle \in Runs
  BY Numbering DEF Idle, Runs, Places
<1> QED BY <1>1, Fields DEF Done

LEMMA RewriteGives ==
  ASSUME TypeOK, NEW r \in Chains, NEW t \in Texts, NEW b \in Texts, Rewrite(r, t, b)
  PROVE  /\ run' \in [Chains -> Runs]
         /\ run'[r].at = (IF editor = t THEN "shown" ELSE "checked")
         /\ run'[r].content = t /\ run'[r].before = b
         /\ \A q \in Chains : q # r => run'[q] = run[q]
         /\ lastRemote' = IF editor = t THEN t ELSE lastRemote
<1> DEFINE new == [at |-> IF editor = t THEN "shown" ELSE "checked", content |-> t, before |-> b]
<1>1. new \in Runs
  BY DEF Runs, Places
<1>2. run' = [run EXCEPT ![r] = new] /\ run \in [Chains -> Runs]
  BY Fields DEF Rewrite
<1>3. run'[r] = new /\ run' \in [Chains -> Runs] /\ \A q \in Chains : q # r => run'[q] = run[q]
  BY <1>1, <1>2
<1> QED BY <1>3 DEF Rewrite

LEMMA PlaceGives ==
  ASSUME TypeOK, NEW r \in Chains, NEW p \in Places, NEW t \in Texts, NEW b \in Texts,
         run' = [run EXCEPT ![r] = [at |-> p, content |-> t, before |-> b]]
  PROVE  /\ run' \in [Chains -> Runs]
         /\ run'[r].at = p /\ run'[r].content = t /\ run'[r].before = b
         /\ \A q \in Chains : q # r => run'[q] = run[q]
<1>1. [at |-> p, content |-> t, before |-> b] \in Runs
  BY DEF Runs
<1> QED BY <1>1, Fields

(* How one chain moves: what its run is afterwards, and which request        *)
(* excludes others.                                                          *)
LEMMA BroadcastMoves ==
  ASSUME TypeOK, NEW r \in Chains, NEW n \in 1..peers, OnDeltaBroadcast(r, n)
  PROVE  /\ run' \in [Chains -> Runs] /\ \A q \in Chains : q # r => run'[q] = run[q]
         /\ \/ run'[r].at = "asked" /\ catching = "nobody" /\ catching' = r
               /\ UNCHANGED lastRemote
            \/ run'[r].at # "asked" /\ (catching' = catching \/ (catching = r /\ catching' = "nobody"))
               /\ (lastRemote' = lastRemote \/ lastRemote' \in Texts)
<1> DEFINE diff == Text(Joined(n)) \ Text(Base)
<1>1. /\ Text(Base) \in Texts /\ Text(Joined(n)) \in Texts
      /\ \/ catching = "nobody" /\ AskServer(r, Text(Base))
         \/ Open /\ ApplyToEditor(r, diff)
         \/ Rewrite(r, Text(Joined(n)), Text(Base)) /\ UNCHANGED catching
         \/ /\ run' = [run EXCEPT ![r] = [at |-> "hook", content |-> Text(Joined(n)), before |-> Text(Base)]]
            /\ UNCHANGED <<catching, lastRemote>>
  BY BroadcastGives
<1>2. CASE catching = "nobody" /\ AskServer(r, Text(Base))
  <2>1. "asked" \in Places /\ {} \in Texts
    BY Numbering DEF Places
  <2>2. run' = [run EXCEPT ![r] = [at |-> "asked", content |-> {}, before |-> Text(Base)]] /\ catching' = r
        /\ UNCHANGED lastRemote
    BY <1>2 DEF AskServer
  <2> QED BY <1>1, <1>2, <2>1, <2>2, PlaceGives
<1>3. CASE Open /\ ApplyToEditor(r, diff)
  <2>1. Done(r) /\ lastRemote' = editor \cup diff /\ editor \in Texts
    BY <1>3, Fields DEF ApplyToEditor
  <2>2. lastRemote' \in Texts
    BY <1>1, <2>1 DEF Texts
  <2> QED BY <2>1, <2>2, DoneGives DEF Idle
<1>4. CASE Rewrite(r, Text(Joined(n)), Text(Base)) /\ UNCHANGED catching
  <2>1. /\ run' \in [Chains -> Runs] /\ run'[r].at # "asked"
        /\ \A q \in Chains : q # r => run'[q] = run[q]
        /\ lastRemote' = IF editor = Text(Joined(n)) THEN Text(Joined(n)) ELSE lastRemote
    BY <1>1, <1>4, RewriteGives
  <2> QED BY <1>1, <1>4, <2>1
<1>5. CASE /\ run' = [run EXCEPT ![r] = [at |-> "hook", content |-> Text(Joined(n)), before |-> Text(Base)]]
           /\ UNCHANGED <<catching, lastRemote>>
  <2>1. "hook" \in Places
    BY DEF Places
  <2> QED BY <1>1, <1>5, <2>1, PlaceGives
<1> QED BY <1>1, <1>2, <1>3, <1>4, <1>5

LEMMA AnswerMoves ==
  ASSUME TypeOK, NEW r \in Chains, CatchUpAnswered(r)
  PROVE  /\ run' \in [Chains -> Runs] /\ \A q \in Chains : q # r => run'[q] = run[q]
         /\ run[r].at = "asked" /\ run'[r].at # "asked"
         /\ catching' = catching \/ (catching = r /\ catching' = "nobody")
         /\ lastRemote' = lastRemote \/ lastRemote' \in Texts
<1>1. /\ Text(Caught) \in Texts
      /\ \/ editor' \in Texts /\ lastRemote' = editor' /\ Done(r)
         \/ Rewrite(r, Text(Caught), run[r].before) /\ UNCHANGED catching
         \/ /\ run' = [run EXCEPT ![r] = [at |-> "hook", content |-> Text(Caught), before |-> run[r].before]]
            /\ UNCHANGED <<catching, lastRemote>>
  BY AnswerGives
<1>2. run[r].before \in Texts /\ run[r].at = "asked" /\ "hook" \in Places
  BY RunTyped DEF CatchUpAnswered, Places
<1>3. CASE editor' \in Texts /\ lastRemote' = editor' /\ Done(r)
  BY <1>2, <1>3, DoneGives DEF Idle
<1>4. CASE Rewrite(r, Text(Caught), run[r].before) /\ UNCHANGED catching
  <2>1. /\ run' \in [Chains -> Runs] /\ run'[r].at # "asked"
        /\ \A q \in Chains : q # r => run'[q] = run[q]
        /\ lastRemote' = IF editor = Text(Caught) THEN Text(Caught) ELSE lastRemote
    BY <1>1, <1>2, <1>4, RewriteGives
  <2> QED BY <1>1, <1>2, <1>4, <2>1
<1>5. CASE /\ run' = [run EXCEPT ![r] = [at |-> "hook", content |-> Text(Caught), before |-> run[r].before]]
           /\ UNCHANGED <<catching, lastRemote>>
  BY <1>1, <1>2, <1>5, PlaceGives
<1> QED BY <1>1, <1>3, <1>4, <1>5

LEMMA HookMoves ==
  ASSUME TypeOK, NEW r \in Chains, HookReads(r) \/ CopyMade(r)
  PROVE  /\ run' \in [Chains -> Runs] /\ \A q \in Chains : q # r => run'[q] = run[q]
         /\ run[r].at \in {"hook", "copied"} /\ run'[r].content = run[r].content
         /\ UNCHANGED <<editor, disk, doc, catching>>
         /\ \/ /\ run'[r].at = (IF editor = run[r].content THEN "shown" ELSE "checked")
               /\ run[r].at = "hook" => disk \in {run[r].content, run[r].before}
            \/ run'[r].at = "copied" /\ run[r].at = "hook" /\ copies' = copies \cup disk
         /\ lastRemote' = lastRemote \/ lastRemote' \in Texts
<1>1. run[r].content \in Texts /\ run[r].before \in Texts
  BY RunTyped
<1>2. UNCHANGED <<editor, disk, doc, catching>> /\ run[r].at \in {"hook", "copied"}
  BY DEF HookReads, CopyMade
<1>3. CASE Rewrite(r, run[r].content, run[r].before)
           /\ (run[r].at = "hook" => disk \in {run[r].content, run[r].before})
  BY <1>1, <1>2, <1>3, RewriteGives
<1>4. CASE /\ run' = [run EXCEPT ![r].at = "copied"] /\ run[r].at = "hook" /\ copies' = copies \cup disk
           /\ UNCHANGED lastRemote
  <2>1. run[r] \in Runs /\ run \in [Chains -> Runs]
    BY Fields
  <2>2. [run[r] EXCEPT !.at = "copied"] \in Runs
    BY <2>1 DEF Runs, Places
  <2> QED BY <1>2, <1>4, <2>1, <2>2 DEF Runs
<1> QED BY <1>3, <1>4 DEF HookReads, CopyMade

LEMMA RunsTyped ==
  ASSUME TypeOK, Next
  PROVE  /\ run' \in [Chains -> Runs] /\ catching' \in Chains \cup {"nobody"}
         /\ \A r \in Chains : run'[r].at = "asked" => catching' = r
<1>1. /\ run \in [Chains -> Runs] /\ catching \in Chains \cup {"nobody"}
      /\ \A r \in Chains : run[r].at = "asked" => catching = r
  BY Fields DEF TypeOK
<1>2. CASE UNCHANGED chains
  BY <1>1, <1>2
<1>3. ASSUME NEW r \in Chains,
             /\ run' \in [Chains -> Runs] /\ \A q \in Chains : q # r => run'[q] = run[q]
             /\ \/ run'[r].at = "asked" /\ catching = "nobody" /\ catching' = r
                \/ /\ run'[r].at # "asked"
                   /\ catching' = catching \/ (catching = r /\ catching' = "nobody")
      PROVE  /\ run' \in [Chains -> Runs] /\ catching' \in Chains \cup {"nobody"}
             /\ \A q \in Chains : run'[q].at = "asked" => catching' = q
  BY <1>1, <1>3 DEF Chains
<1>4. ASSUME NEW r \in Chains, NEW n \in 1..peers, OnDeltaBroadcast(r, n)
      PROVE  /\ run' \in [Chains -> Runs] /\ catching' \in Chains \cup {"nobody"}
             /\ \A q \in Chains : run'[q].at = "asked" => catching' = q
  BY <1>3, <1>4, BroadcastMoves
<1>5. ASSUME NEW r \in Chains, CatchUpAnswered(r)
      PROVE  /\ run' \in [Chains -> Runs] /\ catching' \in Chains \cup {"nobody"}
             /\ \A q \in Chains : run'[q].at = "asked" => catching' = q
  BY <1>3, <1>5, AnswerMoves
<1>6. ASSUME NEW r \in Chains, HookReads(r) \/ CopyMade(r)
      PROVE  /\ run' \in [Chains -> Runs] /\ catching' \in Chains \cup {"nobody"}
             /\ \A q \in Chains : run'[q].at = "asked" => catching' = q
  <2>1. run'[r].at # "asked" /\ catching' = catching
    BY <1>6, HookMoves
  <2> QED BY <1>3, <1>6, <2>1, HookMoves
<1>7. ASSUME NEW r \in Chains, Done(r)
      PROVE  /\ run' \in [Chains -> Runs] /\ catching' \in Chains \cup {"nobody"}
             /\ \A q \in Chains : run'[q].at = "asked" => catching' = q
  <2>1. run'[r].at # "asked"
    BY <1>7, DoneGives DEF Idle
  <2> QED BY <1>3, <1>7, <2>1, DoneGives
<1> QED BY <1>2, <1>4, <1>5, <1>6, <1>7, RunMoves

(* The frames: what is buffered or chained has arrived.                      *)
LEMMA FramesTyped ==
  ASSUME TypeOK, Next
  PROVE  /\ phase' \in {"syncing", "flushing", "live"} /\ overflowed' \in BOOLEAN
         /\ buffered' \in Seq(1..peers') /\ Len(buffered') <= MaxQueued
         /\ (phase' = "live" => buffered' = <<>>)
         /\ liveq' \in Seq(1..peers')
         /\ (phase' # "flushing" => run'["flush"].at = "idle")
<1> DEFINE P == 1..peers
           Q == 1..peers'
<1>1. /\ phase \in {"syncing", "flushing", "live"} /\ overflowed \in BOOLEAN
      /\ buffered \in Seq(P) /\ Len(buffered) <= MaxQueued
      /\ (phase = "live" => buffered = <<>>) /\ liveq \in Seq(P)
      /\ (phase # "flushing" => run["flush"].at = "idle")
  BY DEF TypeOK
<1>2. P \subseteq Q /\ peers' \in 0..MaxPeer /\ peers \in 0..MaxPeer
  BY RemoteTyped, Fields
<1> HIDE DEF P, Q
<1> SUFFICES /\ phase' \in {"syncing", "flushing", "live"} /\ overflowed' \in BOOLEAN
             /\ buffered' \in Seq(Q) /\ Len(buffered') <= MaxQueued
             /\ (phase' = "live" => buffered' = <<>>)
             /\ liveq' \in Seq(Q)
             /\ (phase' # "flushing" => run'["flush"].at = "idle")
  BY DEF Q
<1>3. buffered \in Seq(Q) /\ liveq \in Seq(Q) /\ <<>> \in Seq(Q) /\ Len(<<>>) <= MaxQueued
  <2>1. \A s \in Seq(P) : s \in Seq(Q)
    BY <1>2
  <2> QED BY <1>1, <2>1
<1>4. UNCHANGED frames \/ PeerChange \/ OverflowByOthers \/ InitialSyncEnds \/ ReplayEnds
      \/ LiveBroadcast \/ Replay \/ \E r \in Chains : CatchUpFails(r)
  BY DEF Next, CatchUpAnswered, HookReads, CopyMade, ShownIsChecked, FileIsChecked, Type,
     DebounceFires, AutoSave, ChangePane, OpenNote, CloseNote, ExternalEdit, PlainRead, GuardedRead,
     WindowEnds, ScanStarts, ScanReads
<1>5. phase' # "flushing" => run'["flush"].at = "idle"
  <2>1. ~Replay /\ phase' # "flushing" => run["flush"].at = "idle"
    BY <1>1, <1>4 DEF PeerChange, QueueBroadcast, EnqueueBroadcast, OverflowByOthers, InitialSyncEnds,
       ReplayEnds, LiveBroadcast, CatchUpFails
  <2>2. Replay => phase' = "flushing"
    BY DEF Replay
  <2>3. ASSUME ~Replay, run["flush"].at = "idle" PROVE run'["flush"].at = "idle"
    <3>1. ASSUME NEW n \in 1..peers, OnDeltaBroadcast("live", n) PROVE run'["flush"] = run["flush"]
      BY <3>1, BroadcastMoves DEF Chains
    <3>2. ASSUME NEW r \in Chains, CatchUpAnswered(r) PROVE run'["flush"] = run["flush"]
      BY <2>3, <3>2, AnswerMoves DEF Chains
    <3>3. ASSUME NEW r \in Chains, HookReads(r) \/ CopyMade(r) PROVE run'["flush"] = run["flush"]
      BY <2>3, <3>3, HookMoves DEF Chains
    <3>4. ASSUME NEW r \in Chains, run[r].at # "idle", Done(r) PROVE run'["flush"] = run["flush"]
      BY <2>3, <3>4, DoneGives DEF Chains
    <3> QED BY <2>3, <3>1, <3>2, <3>3, <3>4, RunMoves DEF Chains
  <2> QED BY <2>1, <2>2, <2>3
<1>6. CASE PeerChange
  <2>1. peers + 1 \in Q
    BY <1>2, <1>6 DEF PeerChange, Q
  <2>2. Append(buffered, peers + 1) \in Seq(Q) /\ Len(Append(buffered, peers + 1)) = Len(buffered) + 1
        /\ Append(liveq, peers + 1) \in Seq(Q)
    BY <1>3, <2>1, SequenceFacts
  <2>3. Len(buffered) \in Nat
    BY <1>3
  <2>4. CASE QueueBroadcast(peers + 1)
    <3>1. overflowed' \in BOOLEAN
      BY <1>1, <2>4 DEF QueueBroadcast
    <3>2. \/ buffered' = <<>>
          \/ buffered' = Append(buffered, peers + 1) /\ ~(Len(buffered) >= MaxQueued)
      BY <2>4 DEF QueueBroadcast
    <3>3. buffered' \in Seq(Q) /\ Len(buffered') <= MaxQueued
      <4>1. CASE buffered' = <<>>
        BY <1>3, <4>1
      <4>2. CASE buffered' # <<>>
        <5>1. Len(buffered') = Len(buffered) + 1 /\ Len(buffered) < MaxQueued
          BY <2>2, <2>3, <3>2, <4>2
        <5> QED BY <2>2, <2>3, <3>2, <4>2, <5>1
      <4> QED BY <4>1, <4>2
    <3> QED BY <1>1, <1>3, <1>5, <2>4, <3>1, <3>3 DEF QueueBroadcast
  <2>5. CASE EnqueueBroadcast(peers + 1)
    BY <1>1, <1>3, <1>5, <2>2, <2>5 DEF EnqueueBroadcast
  <2> QED BY <1>6, <2>4, <2>5 DEF PeerChange
<1>7. CASE LiveBroadcast
  <2>1. liveq' = Tail(liveq) /\ liveq # <<>> /\ UNCHANGED <<phase, buffered, overflowed>>
    BY <1>7 DEF LiveBroadcast, OnDeltaBroadcast
  <2>2. Tail(liveq) \in Seq(Q)
    BY <1>3, <2>1, SequenceFacts
  <2> QED BY <1>1, <1>3, <1>5, <2>1, <2>2
<1>8. CASE Replay
  <2>1. buffered' = Tail(buffered) /\ buffered # <<>> /\ phase' = "flushing" /\ UNCHANGED <<liveq, overflowed>>
    BY <1>8 DEF Replay, OnDeltaBroadcast
  <2>2. Tail(buffered) \in Seq(Q) /\ Len(Tail(buffered)) = Len(buffered) - 1 /\ Len(buffered) \in Nat
    BY <1>3, <2>1, SequenceFacts
  <2> QED BY <1>1, <1>3, <1>5, <2>1, <2>2
<1>9. CASE OverflowByOthers
  BY <1>1, <1>3, <1>5, <1>9 DEF OverflowByOthers
<1>12. CASE InitialSyncEnds \/ ReplayEnds
  BY <1>1, <1>3, <1>5, <1>12 DEF InitialSyncEnds, ReplayEnds
<1>10. CASE \E r \in Chains : CatchUpFails(r)
  BY <1>1, <1>3, <1>5, <1>10 DEF CatchUpFails
<1>11. CASE UNCHANGED frames
  BY <1>1, <1>3, <1>5, <1>11
<1> QED BY <1>4, <1>6, <1>7, <1>8, <1>9, <1>10, <1>11, <1>12

(* The flags, and what is remembered of the session.                         *)
LEMMA FlagsTyped ==
  ASSUME TypeOK, Next
  PROVE  timer' \in BOOLEAN /\ writing' \in BOOLEAN /\ scanning' \in BOOLEAN /\ touched' \in BOOLEAN
<1>1. timer \in BOOLEAN /\ writing \in BOOLEAN /\ scanning \in BOOLEAN /\ touched \in BOOLEAN
  BY DEF TypeOK
<1>2. UNCHANGED timer \/ timer' \in BOOLEAN
  BY DEF Next, PeerChange, OverflowByOthers, InitialSyncEnds, ReplayEnds, LiveBroadcast, Replay,
     OnDeltaBroadcast, TimerAfterFlush, CatchUpAnswered, CatchUpFails, HookReads, CopyMade,
     ShownIsChecked, FileIsChecked, Type, DebounceFires, AutoSave, ChangePane, OpenNote, CloseNote,
     ExternalEdit, PlainRead, GuardedRead, WindowEnds, ScanStarts, ScanReads
<1>3. UNCHANGED writing \/ writing' \in BOOLEAN
  BY DEF Next, PeerChange, OverflowByOthers, InitialSyncEnds, ReplayEnds, LiveBroadcast, Replay,
     OnDeltaBroadcast, CatchUpAnswered, CatchUpFails, HookReads, CopyMade, ModifyFile,
     ShownIsChecked, FileIsChecked, Type, DebounceFires, AutoSave, ChangePane, OpenNote, CloseNote,
     ExternalEdit, PlainRead, GuardedRead, WindowEnds, ScanStarts, ScanReads
<1>4. UNCHANGED scanning \/ scanning' \in BOOLEAN
  BY DEF Next, PeerChange, OverflowByOthers, InitialSyncEnds, ReplayEnds, LiveBroadcast, Replay,
     OnDeltaBroadcast, CatchUpAnswered, CatchUpFails, HookReads, CopyMade,
     ShownIsChecked, FileIsChecked, Type, DebounceFires, AutoSave, ChangePane, OpenNote, CloseNote,
     ExternalEdit, PlainRead, GuardedRead, WindowEnds, ScanStarts, ScanReads
<1>5. UNCHANGED touched \/ touched' \in BOOLEAN
  BY DEF Next, PeerChange, OverflowByOthers, InitialSyncEnds, ReplayEnds, LiveBroadcast, Replay,
     OnDeltaBroadcast, CatchUpAnswered, CatchUpFails, HookReads, CopyMade, ModifyFile, Modified,
     ShownIsChecked, FileIsChecked, Type, DebounceFires, AutoSave, ChangePane, OpenNote, CloseNote,
     ExternalEdit, PlainRead, GuardedRead, WindowEnds, ScanStarts, ScanReads
<1> QED BY <1>1, <1>2, <1>3, <1>4, <1>5

LEMMA EchoTyped ==
  ASSUME TypeOK, Next
  PROVE  lastRemote' \in Texts \cup {NotSet}
<1>1. lastRemote \in Texts \cup {NotSet}
  BY Fields
<1>2. ASSUME NEW r \in Chains, NEW n \in 1..peers, OnDeltaBroadcast(r, n)
      PROVE lastRemote' = lastRemote \/ lastRemote' \in Texts
  BY <1>2, BroadcastMoves
<1>3. ASSUME NEW r \in Chains, CatchUpAnswered(r) \/ HookReads(r) \/ CopyMade(r)
      PROVE lastRemote' = lastRemote \/ lastRemote' \in Texts
  BY <1>3, AnswerMoves, HookMoves
<1>4. ASSUME NEW r \in Chains, FileIsChecked(r)
      PROVE lastRemote' = lastRemote \/ lastRemote' \in Texts
  BY <1>4, RunTyped DEF FileIsChecked
<1>5. CASE ~(LiveBroadcast \/ Replay)
           /\ ~\E r \in Chains : CatchUpAnswered(r) \/ HookReads(r) \/ CopyMade(r) \/ FileIsChecked(r)
  BY <1>1, <1>5 DEF Next, PeerChange, OverflowByOthers, InitialSyncEnds, ReplayEnds, CatchUpFails, PushFile,
     ShownIsChecked, Type, DebounceFires, AutoSave, ChangePane, OpenNote, CloseNote,
     ExternalEdit, PlainRead, GuardedRead, WindowEnds, ScanStarts, ScanReads
<1> QED BY <1>1, <1>2, <1>3, <1>4, <1>5, BroadcastStep

LEMMA HistoryTyped ==
  ASSUME TypeOK, Next
  PROVE  reads' \subseteq {"guarded", "plain"} /\ lapses' \subseteq Lapses /\ faults' \in 0..MaxFaults
<1>1. reads \subseteq {"guarded", "plain"} /\ lapses \subseteq Lapses /\ faults \in 0..MaxFaults
  BY DEF TypeOK, Lapses
<1>2. reads' \subseteq reads \cup {"guarded", "plain"}
  BY DEF Next, PeerChange, OverflowByOthers, InitialSyncEnds, ReplayEnds, LiveBroadcast, Replay,
     OnDeltaBroadcast, CatchUpAnswered, CatchUpFails, HookReads, CopyMade, ModifyFile, Modified,
     ShownIsChecked, FileIsChecked, Type, DebounceFires, AutoSave, ChangePane, OpenNote, CloseNote,
     ExternalEdit, PlainRead, GuardedRead, WindowEnds, ScanStarts, ScanReads
<1>3. lapses' \subseteq lapses \cup Lapses
  BY DEF Lapses, Next, PeerChange, QueueBroadcast, EnqueueBroadcast, OverflowByOthers, InitialSyncEnds,
     ReplayEnds, LiveBroadcast, Replay, PushFile, Overtaken,
     OnDeltaBroadcast, CatchUpAnswered, CatchUpFails, HookReads, CopyMade, ModifyFile, Modified,
     ShownIsChecked, FileIsChecked, Type, DebounceFires, AutoSave, ChangePane, OpenNote, CloseNote,
     ExternalEdit, PlainRead, GuardedRead, WindowEnds, ScanStarts, ScanReads
<1>4. UNCHANGED faults \/ (faults < MaxFaults /\ faults' = faults + 1)
  BY DEF Next, PeerChange, QueueBroadcast, EnqueueBroadcast, OverflowByOthers, InitialSyncEnds,
     ReplayEnds, LiveBroadcast, Replay,
     OnDeltaBroadcast, CatchUpAnswered, CatchUpFails, HookReads, CopyMade,
     ShownIsChecked, FileIsChecked, Type, DebounceFires, AutoSave, ChangePane, OpenNote, CloseNote,
     ExternalEdit, PlainRead, GuardedRead, WindowEnds, ScanStarts, ScanReads
<1> QED BY <1>1, <1>2, <1>3, <1>4

LEMMA TypesStay ==
  ASSUME TypeOK, [Next]_vars
  PROVE  TypeOK'
<1>1. CASE Next
  BY <1>1, RemoteTyped, DocTyped, NoteTyped, RunsTyped, FramesTyped, FlagsTyped, EchoTyped, HistoryTyped
     DEF TypeOK, Docs, Runs, Lapses, Open
<1>2. CASE UNCHANGED vars
  BY <1>2 DEF TypeOK, vars, Open
<1> QED BY <1>1, <1>2

---------------------------------------------------------------------------
(* Own text.                                                                 *)

Written(d) == d.ops \ d.deleted

(* What is unsafe is before the user's eyes.                                 *)
Shown == Unsafe \subseteq Visible

(* What a chain is about to write has it too - or, while it has not decided  *)
(* what to write, the document has, or the file, which will be copied if it  *)
(* is neither the new text nor the one before.                               *)
CarriedBy(r) ==
  /\ run[r].at = "asked" =>
       IF Open THEN Unsafe \subseteq Written(doc) ELSE Unsafe \cap run[r].before \subseteq Written(doc)
  /\ run[r].at = "hook" =>
       IF Open THEN Unsafe = {} ELSE Unsafe \cap run[r].before \subseteq run[r].content
  /\ run[r].at = "copied" => Unsafe = {}
  /\ run[r].at \in {"shown", "checked"} => Unsafe \subseteq run[r].content

Carried == \A r \in Chains : CarriedBy(r)

LEMMA UnsafeOwn ==
  ASSUME TypeOK
  PROVE  Unsafe \subseteq OwnChanges
<1>1. (MaxPeer + 1)..(MaxPeer + own) \subseteq OwnChanges
  BY Fields, Numbering
<1> QED BY <1>1 DEF Unsafe

(* New own changes are visible; made beside a rewrite, they are not counted. *)
LEMMA UnsafeStep ==
  ASSUME TypeOK, Next
  PROVE  /\ Unsafe' \subseteq Unsafe \cup Visible'
         /\ Outstanding => Unsafe' \subseteq Unsafe
         /\ ~Type /\ ~ExternalEdit => Unsafe' \subseteq Unsafe
<1>1. own \in Nat /\ (front => Open) /\ (Open => editor \in Texts) /\ \A x \in Texts : x # Closed
  BY Fields, Numbering
<1>2. exposed \subseteq exposed' /\ copies \subseteq copies'
  BY CopiesGrow, OwnGrows DEF OpenNote, OwnChange
<1>3. CASE UNCHANGED own
  BY <1>2, <1>3 DEF Unsafe
<1>4. CASE \E c \in OwnChanges : OwnChange(c) /\ (Type \/ ExternalEdit)
  <2>1. PICK c \in OwnChanges : OwnChange(c) /\ (Type \/ ExternalEdit)
    BY <1>4
  <2>2. own' = own + 1 /\ c = MaxPeer + own + 1 /\ exposed' = exposed \cup (IF Outstanding THEN {c} ELSE {})
    BY <2>1 DEF OwnChange
  <2>3. (MaxPeer + 1)..(MaxPeer + own') \subseteq (MaxPeer + 1)..(MaxPeer + own) \cup {c}
    BY <1>1, <2>2
  <2>4. Unsafe' \subseteq Unsafe \cup {c}
    BY <1>2, <2>3 DEF Unsafe
  <2>5. Outstanding => c \notin Unsafe'
    BY <2>2 DEF Unsafe
  <2>6. CASE Type
    <3>1. \E b \in OwnChanges : OwnChange(b) /\ editor' = editor \cup {b}
      BY <2>6 DEF Type
    <3>2. editor' = editor \cup {c}
      BY <2>2, <3>1 DEF OwnChange
    <3>3. front /\ c \in Changes
      BY <2>6, Numbering DEF Type
    <3>4. editor' \in Texts
      BY <1>1, <3>2, <3>3 DEF Texts
    <3>5. c \in Visible'
      BY <1>1, <3>2, <3>4 DEF Visible, Open
    <3> QED BY <2>4, <2>5, <2>6, <3>5
  <2>7. CASE ExternalEdit
    <3>1. \E b \in OwnChanges : OwnChange(b) /\ disk' = disk \cup {b}
      BY <2>7 DEF ExternalEdit
    <3>2. disk' = disk \cup {c}
      BY <2>2, <3>1 DEF OwnChange
    <3>3. c \in Visible'
      BY <2>7, <3>2 DEF ExternalEdit, Visible, Open
    <3> QED BY <2>4, <2>5, <2>7, <3>3
  <2> QED BY <2>1, <2>6, <2>7
<1> QED BY <1>3, <1>4, OwnGrows

(* Nothing visible goes but by a rewrite.                                    *)
LEMMA VisibleStep ==
  ASSUME TypeOK, Next
  PROVE  \/ Visible \subseteq Visible'
         \/ \E r \in Chains : /\ run[r].at \in {"shown", "checked"} /\ Visible' = run[r].content
                              /\ ShownIsChecked(r) \/ FileIsChecked(r)
<1>1. (Open => editor \in Texts) /\ \A x \in Texts : x # Closed
  BY Fields, Numbering
<1>2. CASE OpenNote
  BY <1>2 DEF OpenNote, Visible, Open
<1>3. CASE CloseNote
  BY <1>3 DEF CloseNote, Visible, Open
<1>4. CASE Open /\ editor' \in Texts
  <2>1. Visible = editor /\ Visible' = editor'
    BY <1>1, <1>4 DEF Visible, Open
  <2> QED BY <1>2, <1>3, <2>1, EditorChanges
<1>5. CASE ~Open /\ UNCHANGED editor
  <2>1. Visible = disk /\ Visible' = disk'
    BY <1>5 DEF Visible, Open
  <2> QED BY <1>5, <2>1, DiskChanges DEF ExternalEdit
<1>6. CASE Open /\ UNCHANGED editor
  BY <1>6 DEF Visible, Open
<1> QED BY <1>2, <1>3, <1>4, <1>5, <1>6, EditorChanges

LEMMA ShownStays ==
  ASSUME TypeOK, Shown, Carried, Next
  PROVE  Shown'
<1>1. CASE Visible \subseteq Visible'
  BY <1>1, UnsafeStep DEF Shown
<1>2. CASE \E r \in Chains : run[r].at \in {"shown", "checked"} /\ Visible' = run[r].content
  <2>1. PICK r \in Chains : run[r].at \in {"shown", "checked"} /\ Visible' = run[r].content
    BY <1>2
  <2>2. Unsafe \subseteq run[r].content
    BY <2>1 DEF Carried, CarriedBy
  <2> QED BY <2>1, <2>2, UnsafeStep DEF Shown
<1> QED BY <1>1, <1>2, VisibleStep

(* What is visible and in the document stays in the document.                *)
LEMMA DocKeeps ==
  ASSUME TypeOK, Next, NEW c \in OwnChanges, c \in Visible, c \in Written(doc)
  PROVE  c \in Written(doc')
<1>1. doc \in Docs /\ Visible \in Texts /\ (Open => Visible = editor)
  BY Fields DEF Visible
<1>2. CASE doc' = Pushed(doc, Visible)
  BY <1>1, <1>2, PushGives DEF Written
<1>3. ASSUME NEW r \in Chains, NEW n \in 1..peers, OnDeltaBroadcast(r, n)
      PROVE  c \in Written(doc')
  <2>1. /\ Base \in Docs /\ Joined(n) \in Docs /\ Joined(n).ops = Base.ops \cup {n} /\ Joined(n).deleted = Base.deleted
        /\ doc' = Joined(n) \/ doc' = Flushed(Joined(n))
    BY <1>3, BroadcastGives
  <2>2. \A d \in Docs : c \in Written(d) => c \in Written(Flushed(d))
    BY <1>1, FlushGives DEF Written
  <2>3. c \in Written(Base)
    BY <1>1, <2>2 DEF Base
  <2>4. c \in Written(Joined(n))
    BY <2>1, <2>3 DEF Written
  <2> QED BY <2>1, <2>2, <2>4
<1>4. ASSUME NEW r \in Chains, CatchUpAnswered(r)
      PROVE  c \in Written(doc')
  <2>1. /\ Caught \in Docs /\ Caught.ops = doc.ops \cup 1..peers /\ Caught.deleted = doc.deleted
        /\ \/ doc' = Caught
           \/ Open /\ doc' = Synced(Caught, editor') /\ editor \subseteq editor' /\ editor' \in Texts
    BY <1>4, AnswerGives
  <2>2. c \in Written(Caught)
    BY <2>1 DEF Written
  <2>3. \A x \in Texts : c \in x => c \in Written(Synced(Caught, x))
    BY <2>1, PushGives DEF Written
  <2> QED BY <1>1, <2>1, <2>2, <2>3
<1> QED BY <1>2, <1>3, <1>4, DocChanges

(* A chain that does not move.                                               *)
LEMMA CarriedUnmoved ==
  ASSUME TypeOK, Shown, Carried, Next, NEW r \in Chains, run'[r] = run[r]
  PROVE  CarriedBy(r)'
<1>1. CASE run[r].at = "idle"
  BY <1>1 DEF CarriedBy
<1>2. CASE run[r].at # "idle"
  <2>1. Outstanding
    BY <1>2 DEF Outstanding
  <2>2. Unsafe' \subseteq Unsafe /\ Unsafe \subseteq Visible /\ Unsafe \subseteq OwnChanges
    BY <2>1, UnsafeStep, UnsafeOwn DEF Shown
  <2>3. \A c \in Unsafe' : c \in Written(doc) => c \in Written(doc)'
    BY <2>2, DocKeeps DEF Written
  <2>4. CASE OpenNote
    <3>1. Unsafe' = {}
      BY <2>1, <2>2, <2>4 DEF OpenNote, Visible, Unsafe
    <3> QED BY <3>1 DEF CarriedBy
  <2>5. CASE ~OpenNote
    <3>1. Open' => Open
      BY <2>5, EditorChanges DEF Open, CloseNote
    <3>2. CarriedBy(r)
      BY DEF Carried
    <3> QED BY <2>2, <2>3, <3>1, <3>2 DEF CarriedBy
  <2> QED BY <2>4, <2>5
<1> QED BY <1>1, <1>2

(* A chain that handles a broadcast.                                         *)
LEMMA CarriedBroadcast ==
  ASSUME TypeOK, Shown, Carried, Next, NEW r \in Chains, NEW n \in 1..peers, OnDeltaBroadcast(r, n),
         ~Type, ~ExternalEdit
  PROVE  CarriedBy(r)'
<1>1. /\ Base \in Docs /\ Joined(n) \in Docs /\ Joined(n).ops = Base.ops \cup {n} /\ Joined(n).deleted = Base.deleted
      /\ Text(Base) \in Texts /\ Text(Joined(n)) \in Texts
      /\ \/ doc' = Flushed(Joined(n)) /\ AskServer(r, Text(Base))
         \/ doc' = Joined(n) /\ Open /\ ApplyToEditor(r, Text(Joined(n)) \ Text(Base))
         \/ doc' = Joined(n) /\ Open /\ Rewrite(r, Text(Joined(n)), Text(Base)) /\ UNCHANGED editor
         \/ /\ doc' = Joined(n) /\ ~Open
            /\ run' = [run EXCEPT ![r] = [at |-> "hook", content |-> Text(Joined(n)), before |-> Text(Base)]]
            /\ UNCHANGED editor
  BY BroadcastGives
<1>2. Unsafe' \subseteq Unsafe /\ Unsafe \subseteq Visible /\ Unsafe \subseteq OwnChanges
  BY UnsafeStep, UnsafeOwn DEF Shown
<1>3. doc \in Docs /\ Unsafe \cap Text(Base) \subseteq Text(Joined(n)) /\ Unsafe \cap Text(Base) \subseteq Written(Joined(n))
  BY <1>1, <1>2, OwnText, Fields DEF Written
<1>4. ASSUME Open PROVE Unsafe \subseteq Text(Joined(n)) /\ Unsafe \subseteq Written(Joined(n)) /\ Unsafe \subseteq Written(Flushed(Joined(n)))
  <2>1. Unsafe \subseteq editor
    BY <1>2, <1>4 DEF Visible
  <2>2. Unsafe \subseteq Written(Base)
    BY <1>3, <1>4, <2>1, FlushGives DEF Written, Base
  <2>3. Unsafe \subseteq Written(Joined(n))
    BY <1>1, <2>2 DEF Written
  <2>4. Unsafe \subseteq Text(Joined(n))
    BY <1>1, <1>2, <2>3, OwnText DEF Written
  <2>5. Unsafe \subseteq Written(Flushed(Joined(n)))
    BY <1>1, <1>4, <2>1, FlushGives DEF Written
  <2> QED BY <2>3, <2>4, <2>5
<1>5. ~Open => Flushed(Joined(n)) = Joined(n)
  BY <1>1, FlushGives
<1>6. CASE doc' = Flushed(Joined(n)) /\ AskServer(r, Text(Base))
  <2>1. {} \in Texts /\ "asked" \in Places
    BY Numbering DEF Places
  <2>2. run'[r].at = "asked" /\ run'[r].before = Text(Base) /\ UNCHANGED editor
    BY <1>1, <1>6, <2>1, PlaceGives DEF AskServer
  <2>3. CASE Open
    BY <1>2, <1>4, <1>6, <2>2, <2>3 DEF CarriedBy, Open, Written
  <2>4. CASE ~Open
    BY <1>2, <1>3, <1>5, <1>6, <2>2, <2>4 DEF CarriedBy, Open, Written
  <2> QED BY <2>3, <2>4
<1>7. CASE ApplyToEditor(r, Text(Joined(n)) \ Text(Base))
  BY <1>7, DoneGives DEF ApplyToEditor, CarriedBy, Idle
<1>8. CASE Open /\ Rewrite(r, Text(Joined(n)), Text(Base)) /\ UNCHANGED editor
  <2>1. run'[r].at \in {"shown", "checked"} /\ run'[r].content = Text(Joined(n))
    BY <1>1, <1>8, RewriteGives
  <2> QED BY <1>2, <1>4, <1>8, <2>1 DEF CarriedBy
<1>9. CASE /\ ~Open /\ UNCHANGED editor
           /\ run' = [run EXCEPT ![r] = [at |-> "hook", content |-> Text(Joined(n)), before |-> Text(Base)]]
  <2>1. "hook" \in Places
    BY DEF Places
  <2>2. run'[r].at = "hook" /\ run'[r].content = Text(Joined(n)) /\ run'[r].before = Text(Base)
    BY <1>1, <1>9, <2>1, PlaceGives
  <2> QED BY <1>2, <1>3, <1>9, <2>2 DEF CarriedBy, Open
<1> QED BY <1>1, <1>6, <1>7, <1>8, <1>9

(* A chain that gets its answer.                                             *)
LEMMA CarriedAnswer ==
  ASSUME TypeOK, Shown, Carried, Next, NEW r \in Chains, CatchUpAnswered(r), ~Type, ~ExternalEdit
  PROVE  CarriedBy(r)'
<1>1. /\ Caught \in Docs /\ Caught.ops = doc.ops \cup 1..peers /\ Caught.deleted = doc.deleted /\ Text(Caught) \in Texts
      /\ \/ Done(r)
         \/ Open /\ Rewrite(r, Text(Caught), run[r].before)
         \/ /\ ~Open /\ UNCHANGED editor
            /\ run' = [run EXCEPT ![r] = [at |-> "hook", content |-> Text(Caught), before |-> run[r].before]]
  BY AnswerGives
<1>2. Unsafe' \subseteq Unsafe /\ Unsafe \subseteq OwnChanges
  BY UnsafeStep, UnsafeOwn
<1>3. run[r].at = "asked" /\ run[r].before \in Texts /\ "hook" \in Places
  BY RunTyped DEF CatchUpAnswered, Places
<1>4. Unsafe \cap Written(doc) \subseteq Text(Caught)
  BY <1>1, <1>2, OwnText DEF Written
<1>5. IF Open THEN Unsafe \subseteq Written(doc) ELSE Unsafe \cap run[r].before \subseteq Written(doc)
  BY <1>3 DEF Carried, CarriedBy
<1>6. CASE Done(r)
  BY <1>6, DoneGives DEF CarriedBy, Idle
<1>7. CASE Open /\ Rewrite(r, Text(Caught), run[r].before)
  <2>1. run'[r].at \in {"shown", "checked"} /\ run'[r].content = Text(Caught)
    BY <1>1, <1>3, <1>7, RewriteGives
  <2> QED BY <1>2, <1>4, <1>5, <1>7, <2>1 DEF CarriedBy
<1>8. CASE /\ ~Open /\ UNCHANGED editor
           /\ run' = [run EXCEPT ![r] = [at |-> "hook", content |-> Text(Caught), before |-> run[r].before]]
  <2>1. run'[r].at = "hook" /\ run'[r].content = Text(Caught) /\ run'[r].before = run[r].before
    BY <1>1, <1>3, <1>8, PlaceGives
  <2> QED BY <1>2, <1>4, <1>5, <1>8, <2>1 DEF CarriedBy, Open
<1> QED BY <1>1, <1>6, <1>7, <1>8

(* A chain that has read the file, or copied it.                             *)
LEMMA CarriedHook ==
  ASSUME TypeOK, Shown, Carried, Next, NEW r \in Chains, HookReads(r) \/ CopyMade(r), ~Type, ~ExternalEdit
  PROVE  CarriedBy(r)'
<1>1. Unsafe' \subseteq Unsafe /\ Unsafe \subseteq Visible
  BY UnsafeStep DEF Shown
<1>2. CarriedBy(r)
  BY DEF Carried
<1>3. CASE /\ run'[r].at \in {"shown", "checked"} /\ run'[r].content = run[r].content
           /\ run[r].at \in {"hook", "copied"}
           /\ run[r].at = "hook" => disk \in {run[r].content, run[r].before}
  <2>1. Unsafe \subseteq run[r].content
    BY <1>1, <1>2, <1>3 DEF CarriedBy, Visible
  <2> QED BY <1>1, <1>3, <2>1 DEF CarriedBy
<1>4. CASE run'[r].at = "copied" /\ run[r].at = "hook" /\ copies' = copies \cup disk
  <2>1. Unsafe' = {}
    BY <1>1, <1>2, <1>4 DEF CarriedBy, Visible, Unsafe
  <2> QED BY <1>4, <2>1 DEF CarriedBy
<1> QED BY <1>3, <1>4, HookMoves

LEMMA OwnStill ==
  ASSUME TypeOK, UNCHANGED own
  PROVE  ~Type /\ ~ExternalEdit
<1>1. own \in Nat
  BY Fields
<1>2. \A c : ~OwnChange(c)
  BY <1>1 DEF OwnChange
<1> QED BY <1>2 DEF Type, ExternalEdit

LEMMA CarriedStays ==
  ASSUME TypeOK, Shown, Carried, Next
  PROVE  Carried'
<1> SUFFICES ASSUME NEW q \in Chains PROVE CarriedBy(q)'
  BY DEF Carried
<1>1. CASE UNCHANGED chains
  BY <1>1, CarriedUnmoved
<1>2. ASSUME NEW r \in Chains, NEW n \in 1..peers, OnDeltaBroadcast(r, n), LiveBroadcast \/ Replay
      PROVE  CarriedBy(q)'
  <2>1. ~Type /\ ~ExternalEdit
    BY <1>2, OwnStill DEF OnDeltaBroadcast
  <2>2. CASE q = r
    BY <1>2, <2>1, <2>2, CarriedBroadcast
  <2>3. CASE q # r
    BY <1>2, <2>3, BroadcastMoves, CarriedUnmoved
  <2> QED BY <2>2, <2>3
<1>3. ASSUME NEW r \in Chains, CatchUpAnswered(r) PROVE CarriedBy(q)'
  <2>1. ~Type /\ ~ExternalEdit
    BY <1>3, OwnStill DEF CatchUpAnswered
  <2>2. CASE q = r
    BY <1>3, <2>1, <2>2, CarriedAnswer
  <2>3. CASE q # r
    BY <1>3, <2>3, AnswerMoves, CarriedUnmoved
  <2> QED BY <2>2, <2>3
<1>4. ASSUME NEW r \in Chains, HookReads(r) \/ CopyMade(r) PROVE CarriedBy(q)'
  <2>1. ~Type /\ ~ExternalEdit
    BY <1>4, OwnStill DEF HookReads, CopyMade
  <2>2. CASE q = r
    BY <1>4, <2>1, <2>2, CarriedHook
  <2>3. CASE q # r
    BY <1>4, <2>3, HookMoves, CarriedUnmoved
  <2> QED BY <2>2, <2>3
<1>5. ASSUME NEW r \in Chains, Done(r) PROVE CarriedBy(q)'
  <2>1. CASE q = r
    BY <1>5, <2>1, DoneGives DEF CarriedBy, Idle
  <2>2. CASE q # r
    BY <1>5, <2>2, DoneGives, CarriedUnmoved
  <2> QED BY <2>1, <2>2
<1> QED BY <1>1, <1>2, <1>3, <1>4, <1>5, RunMoves

---------------------------------------------------------------------------
(* What the visible text, the file and the runs know of the changes of       *)
(* others is in the document, and not held back.                             *)
PeersSeen ==
  /\ doc.ops \cap PeerChanges \subseteq 1..peers
  /\ (editor \cup disk) \cap PeerChanges \subseteq Applied(doc)
  /\ \A r \in Chains : run[r].content \cap PeerChanges \subseteq Applied(doc)

(* A longer document holds nothing back that it showed before.               *)
LEMMA AppliedGrows ==
  ASSUME NEW d \in Docs, NEW e \in Docs, d.ops \subseteq e.ops
  PROVE  Applied(d) \subseteq Applied(e)
  BY DEF Applied

(* Own changes are never held back.                                          *)
LEMMA OwnApplied ==
  ASSUME TypeOK, NEW d \in Docs
  PROVE  d.ops \cap OwnChanges \subseteq Applied(d)
<1>1. linked \cap OwnChanges = {}
  BY Fields, Numbering
<1> QED BY <1>1 DEF Applied

(* A document synchronised with a text it knows all about shows that text.   *)
LEMMA SyncedShows ==
  ASSUME TypeOK, NEW d \in Docs, NEW x \in Texts, x \cap PeerChanges \subseteq Applied(d)
  PROVE  Text(Synced(d, x)) = x /\ Text(Pushed(d, x)) = x
<1> DEFINE e == Synced(d, x)
<1>1. /\ e \in Docs
      /\ e.ops = d.ops \cup x /\ e.deleted = (d.deleted \cup Text(d)) \ x
  BY PushGives
<1>2. Pushed(d, x) \in Docs /\ Pushed(d, x).ops = e.ops /\ Pushed(d, x).deleted = e.deleted
  <2>1. Pushed(d, x).ops = d.ops \cup x /\ Pushed(d, x).deleted = (d.deleted \cup Text(d)) \ x
    BY PushGives
  <2> QED BY <1>1, <2>1, PushGives
<1> HIDE DEF e
<1>3. \A y \in Changes : y \in PeerChanges \/ y \in OwnChanges
  BY Numbering
<1>4. x \subseteq Text(e)
  <2> SUFFICES ASSUME NEW y \in x PROVE y \in Text(e)
    OBVIOUS
  <2>1. y \in e.ops /\ y \notin e.deleted /\ y \in Changes
    BY <1>1 DEF Texts
  <2>2. y \in Applied(e)
    <3>1. CASE y \in PeerChanges
      BY <1>1, <3>1, AppliedGrows
    <3>2. CASE y \in OwnChanges
      BY <1>1, <2>1, <3>2, OwnApplied
    <3> QED BY <1>3, <2>1, <3>1, <3>2
  <2> QED BY <2>1, <2>2 DEF Text
<1>5. Text(e) \subseteq x
  <2> SUFFICES ASSUME NEW y \in Text(e), y \notin x PROVE FALSE
    OBVIOUS
  <2>1. y \in e.ops /\ y \notin e.deleted /\ y \in Applied(e)
    BY DEF Text, Applied
  <2>2. y \in d.ops /\ y \notin d.deleted /\ y \notin Text(d)
    BY <1>1, <2>1
  <2>3. y \notin Applied(d)
    BY <2>2 DEF Text
  <2>4. y \in linked /\ \E z \in 1..(y - 1) : z \notin d.ops /\ z \in e.ops
    BY <2>1, <2>2, <2>3 DEF Applied
  <2>5. PICK z \in 1..(y - 1) : z \notin d.ops /\ z \in e.ops
    BY <2>4
  <2>6. z \in x /\ z \in PeerChanges
    BY <1>1, <2>4, <2>5, Fields DEF PeerChanges
  <2> QED BY <2>5, <2>6, TextTyped
<1>6. Text(Pushed(d, x)) = Text(e)
  BY <1>2 DEF Text, Applied
<1> QED BY <1>4, <1>5, <1>6

(* The document never loses an operation.                                    *)
LEMMA DocGrows ==
  ASSUME TypeOK, Next
  PROVE  doc.ops \subseteq doc'.ops
<1>1. doc \in Docs /\ Visible \in Texts
  BY Fields
<1>2. doc.ops \subseteq Pushed(doc, Visible).ops
  BY <1>1, PushGives
<1>3. ASSUME NEW r \in Chains, NEW n \in 1..peers, OnDeltaBroadcast(r, n) PROVE doc.ops \subseteq doc'.ops
  BY <1>3, BroadcastGives
<1>4. ASSUME NEW r \in Chains, CatchUpAnswered(r) PROVE doc.ops \subseteq doc'.ops
  BY <1>4, AnswerGives
<1> QED BY <1>2, <1>3, <1>4, DocChanges

(* Only a change that is new to everybody can be linked.                     *)
LEMMA LinkedStep ==
  ASSUME TypeOK, Next
  PROVE  /\ UNCHANGED remote \/ UNCHANGED <<doc, note, chains>>
         /\ linked \subseteq linked'
         /\ \A y \in linked' : y \in linked \/ (y = peers + 1 /\ y \in PeerChanges)
<1>1. UNCHANGED remote \/ PeerChange
  BY DEF Next, OverflowByOthers, InitialSyncEnds, ReplayEnds, LiveBroadcast, Replay, OnDeltaBroadcast,
     CatchUpAnswered, CatchUpFails, HookReads, CopyMade, ShownIsChecked, FileIsChecked, Type,
     DebounceFires, AutoSave, ChangePane, OpenNote, CloseNote, ExternalEdit, PlainRead, GuardedRead,
     WindowEnds, ScanStarts, ScanReads
<1>2. CASE PeerChange
  <2>1. peers \in Nat
    BY Fields
  <2>2. /\ linked' = linked \cup {peers + 1} \/ linked' = linked
        /\ peers < MaxPeer /\ UNCHANGED <<doc, note, chains>>
    BY <1>2 DEF PeerChange
  <2>3. peers + 1 \in PeerChanges
    BY <2>1, <2>2 DEF PeerChanges
  <2> QED BY <2>2, <2>3
<1> QED BY <1>1, <1>2

(* What is applied stays applied, and so is what a longer document applies.  *)
LEMMA AppliedStays ==
  ASSUME TypeOK, PeersSeen, Next
  PROVE  /\ Applied(doc) \subseteq Applied(doc)'
         /\ UNCHANGED doc => Applied(doc)' = Applied(doc) /\ Text(doc)' = Text(doc)
         /\ ~UNCHANGED doc => UNCHANGED linked
<1>1. peers \in Nat /\ doc.ops \subseteq doc'.ops
  BY Fields, DocGrows
<1>2. \A y \in doc.ops : y \in linked' => y \in linked
  <2>1. peers + 1 \notin 1..peers
    BY <1>1
  <2> QED BY <2>1, LinkedStep DEF PeersSeen
<1>3. Applied(doc) \subseteq Applied(doc)'
  BY <1>1, <1>2 DEF Applied
<1>4. ASSUME UNCHANGED doc PROVE Applied(doc)' = Applied(doc) /\ Text(doc)' = Text(doc)
  <2>1. \A y \in doc.ops : y \in linked => y \in linked'
    BY LinkedStep
  <2> QED BY <1>2, <1>4, <2>1 DEF Applied, Text
<1> QED BY <1>3, <1>4, LinkedStep

LEMMA Entered ==
  ASSUME UNCHANGED linked, NEW d \in Docs, d.ops \subseteq doc'.ops
  PROVE  Applied(d) \subseteq Applied(doc)' /\ Text(d) \subseteq Applied(doc)'
  BY DEF Applied, Text

(* What the operators make of the text.                                      *)
LEMMA BaseShows ==
  ASSUME TypeOK, PeersSeen, NEW r \in Chains, NEW n \in 1..peers, OnDeltaBroadcast(r, n)
  PROVE  /\ Open => Text(Base) = editor /\ Text(Flushed(Joined(n))) = editor
         /\ ~Open => Base = doc /\ Flushed(Joined(n)) = Joined(n)
         /\ Text(Base) \subseteq Text(Joined(n))
<1>1. /\ doc \in Docs /\ Base \in Docs /\ Joined(n) \in Docs /\ doc.ops \subseteq Base.ops
      /\ Joined(n).ops = Base.ops \cup {n} /\ Joined(n).deleted = Base.deleted
  BY BroadcastGives, Fields
<1>2. Text(Base) \subseteq Text(Joined(n))
  BY <1>1, AppliedGrows DEF Text
<1>3. ASSUME Open PROVE Text(Base) = editor /\ Text(Flushed(Joined(n))) = editor
  <2>1. editor \in Texts /\ Base = Pushed(doc, editor) /\ Flushed(Joined(n)) = Pushed(Joined(n), editor)
    BY <1>1, <1>3, FlushGives DEF Base
  <2>2. editor \cap PeerChanges \subseteq Applied(doc)
    BY DEF PeersSeen
  <2>3. editor \cap PeerChanges \subseteq Applied(Joined(n))
    BY <1>1, <2>2, AppliedGrows
  <2> QED BY <1>1, <2>1, <2>2, <2>3, SyncedShows
<1>4. ~Open => Base = doc /\ Flushed(Joined(n)) = Joined(n)
  BY <1>1, FlushGives DEF Base
<1> QED BY <1>2, <1>3, <1>4

LEMMA CaughtShows ==
  ASSUME TypeOK, PeersSeen, NEW r \in Chains, CatchUpAnswered(r), doc' = Synced(Caught, editor'),
         editor' \in Texts, editor' = editor \cup (Text(Caught) \ Text(doc))
  PROVE  Text(Synced(Caught, editor')) = editor'
<1>1. doc \in Docs /\ Caught \in Docs /\ Caught.ops = doc.ops \cup 1..peers
  BY AnswerGives, Fields
<1>2. Applied(doc) \subseteq Applied(Caught) /\ Text(Caught) \subseteq Applied(Caught)
  BY <1>1, AppliedGrows, TextTyped
<1>3. editor' \cap PeerChanges \subseteq Applied(Caught)
  BY <1>2 DEF PeersSeen
<1>4. \A x \in Texts : x \cap PeerChanges \subseteq Applied(Caught) => Text(Synced(Caught, x)) = x
  BY <1>1, SyncedShows
<1> QED BY <1>3, <1>4

LEMMA OpsSeen ==
  ASSUME TypeOK, PeersSeen, Next
  PROVE  doc'.ops \cap PeerChanges \subseteq 1..peers'
<1>1. doc \in Docs /\ Visible \in Texts /\ peers \in Nat
  BY Fields
<1>2. 1..peers \subseteq 1..peers'
  BY <1>1, RemoteTyped
<1>3. Applied(doc) \subseteq doc.ops /\ doc.ops \cap PeerChanges \subseteq 1..peers
  BY DEF Applied, PeersSeen
<1>4. CASE doc' = Pushed(doc, Visible)
  <2>1. doc'.ops = doc.ops \cup Visible
    BY <1>1, <1>4, PushGives
  <2>2. Visible \cap PeerChanges \subseteq Applied(doc)
    BY DEF Visible, PeersSeen
  <2> QED BY <1>2, <1>3, <2>1, <2>2
<1>5. ASSUME NEW r \in Chains, NEW n \in 1..peers, OnDeltaBroadcast(r, n)
      PROVE  doc'.ops \cap PeerChanges \subseteq 1..peers
  <2>1. /\ Base.ops \subseteq doc.ops \cup editor /\ Joined(n) \in Docs /\ Joined(n).ops = Base.ops \cup {n}
        /\ doc' = Joined(n) \/ doc' = Flushed(Joined(n))
    BY <1>1, <1>5, BroadcastGives, FlushGives DEF Base
  <2>2. doc'.ops \subseteq doc.ops \cup editor \cup {n}
    BY <2>1, FlushGives
  <2> QED BY <1>3, <2>2 DEF PeersSeen
<1>6. ASSUME NEW r \in Chains, CatchUpAnswered(r)
      PROVE  doc'.ops \cap PeerChanges \subseteq 1..peers
  <2>1. /\ Caught \in Docs /\ Caught.ops = doc.ops \cup 1..peers
        /\ \/ doc' = Caught
           \/ doc' = Synced(Caught, editor') /\ editor' \in Texts
              /\ editor' = editor \cup (Text(Caught) \ Text(doc))
    BY <1>6, AnswerGives
  <2>2. Text(Caught) \subseteq Caught.ops
    BY <2>1, TextTyped
  <2>3. \A x \in Texts : Synced(Caught, x).ops = Caught.ops \cup x
    BY <2>1, PushGives
  <2>4. doc'.ops \subseteq doc.ops \cup editor \cup 1..peers
    BY <2>1, <2>2, <2>3
  <2> QED BY <1>3, <2>4 DEF PeersSeen
<1> QED BY <1>2, <1>3, <1>4, <1>5, <1>6, DocChanges

LEMMA PeersSeenStays ==
  ASSUME TypeOK, PeersSeen, Next
  PROVE  PeersSeen'
<1>1. /\ Applied(doc) \subseteq Applied(doc)'
      /\ (editor \cup disk) \cap PeerChanges \subseteq Applied(doc)'
      /\ \A r \in Chains : run[r].content \cap PeerChanges \subseteq Applied(doc)'
  BY AppliedStays DEF PeersSeen
<1>2. PeerChanges \cap OwnChanges = {} /\ Closed \cap PeerChanges = {} /\ {} \in Texts
  BY Numbering DEF Closed, PeerChanges
<1>3. ASSUME NEW r \in Chains, NEW n \in 1..peers, OnDeltaBroadcast(r, n)
      PROVE  /\ editor' \cap PeerChanges \subseteq Applied(doc)'
             /\ \A q \in Chains : run'[q].content \cap PeerChanges \subseteq Applied(doc)'
  <2>1. UNCHANGED linked
    BY <1>3 DEF OnDeltaBroadcast
  <2>2. Text(Joined(n)) \subseteq Applied(doc)'
    BY <1>3, <2>1, BroadcastGives, Entered
  <2>3. editor' \subseteq editor \cup Text(Joined(n))
    BY <1>3, BroadcastGives DEF AskServer, ApplyToEditor
  <2>4. run'[r].content \subseteq Text(Joined(n))
    <3>1. "asked" \in Places /\ "hook" \in Places
      BY DEF Places
    <3>2. /\ Text(Base) \in Texts /\ Text(Joined(n)) \in Texts
          /\ \/ AskServer(r, Text(Base))
             \/ Done(r)
             \/ Rewrite(r, Text(Joined(n)), Text(Base))
             \/ run' = [run EXCEPT ![r] = [at |-> "hook", content |-> Text(Joined(n)), before |-> Text(Base)]]
      BY <1>3, BroadcastGives DEF ApplyToEditor
    <3>3. CASE AskServer(r, Text(Base))
      BY <1>2, <3>1, <3>2, <3>3, PlaceGives DEF AskServer
    <3>4. CASE Done(r)
      BY <3>4, DoneGives DEF Idle
    <3>5. CASE Rewrite(r, Text(Joined(n)), Text(Base))
      BY <3>2, <3>5, RewriteGives
    <3>6. CASE run' = [run EXCEPT ![r] = [at |-> "hook", content |-> Text(Joined(n)), before |-> Text(Base)]]
      BY <3>1, <3>2, <3>6, PlaceGives
    <3> QED BY <3>2, <3>3, <3>4, <3>5, <3>6
  <2>5. \A q \in Chains : q # r => run'[q] = run[q]
    BY <1>3, BroadcastMoves
  <2> QED BY <1>1, <2>2, <2>3, <2>4, <2>5
<1>4. ASSUME NEW r \in Chains, CatchUpAnswered(r)
      PROVE  /\ editor' \cap PeerChanges \subseteq Applied(doc)'
             /\ \A q \in Chains : run'[q].content \cap PeerChanges \subseteq Applied(doc)'
  <2>1. UNCHANGED linked
    BY <1>4 DEF CatchUpAnswered
  <2>2. Text(Caught) \subseteq Applied(doc)'
    BY <1>4, <2>1, AnswerGives, Entered
  <2>3. editor' \subseteq editor \cup Text(Caught)
    BY <1>4, AnswerGives
  <2>4. run'[r].content \subseteq Text(Caught)
    <3>1. "hook" \in Places /\ run[r].before \in Texts
      BY RunTyped DEF Places
    <3>2. /\ Text(Caught) \in Texts
          /\ \/ Done(r)
             \/ Rewrite(r, Text(Caught), run[r].before)
             \/ run' = [run EXCEPT ![r] = [at |-> "hook", content |-> Text(Caught), before |-> run[r].before]]
      BY <1>4, AnswerGives
    <3>3. CASE Done(r)
      BY <3>3, DoneGives DEF Idle
    <3>4. CASE Rewrite(r, Text(Caught), run[r].before)
      BY <3>1, <3>2, <3>4, RewriteGives
    <3>5. CASE run' = [run EXCEPT ![r] = [at |-> "hook", content |-> Text(Caught), before |-> run[r].before]]
      BY <3>1, <3>2, <3>5, PlaceGives
    <3> QED BY <3>2, <3>3, <3>4, <3>5
  <2>5. \A q \in Chains : q # r => run'[q] = run[q]
    BY <1>4, AnswerMoves
  <2> QED BY <1>1, <2>2, <2>3, <2>4, <2>5
<1>5. editor' \cap PeerChanges \subseteq Applied(doc)'
  <2>1. UNCHANGED editor \/ Type \/ OpenNote \/ CloseNote \/ LiveBroadcast \/ Replay
        \/ \E r \in Chains : CatchUpAnswered(r) \/ FileIsChecked(r)
    BY DEF Next, PeerChange, OverflowByOthers, InitialSyncEnds, ReplayEnds, CatchUpFails,
       HookReads, CopyMade, ShownIsChecked, DebounceFires, AutoSave, ChangePane,
       ExternalEdit, PlainRead, GuardedRead, WindowEnds, ScanStarts, ScanReads
  <2>2. ASSUME NEW r \in Chains, FileIsChecked(r) PROVE editor' \cap PeerChanges \subseteq Applied(doc)'
    BY <1>1, <2>2 DEF FileIsChecked
  <2>3. CASE Type
    BY <1>1, <1>2, <2>3 DEF Type
  <2>4. CASE OpenNote
    BY <1>1, <2>4 DEF OpenNote
  <2>5. CASE CloseNote
    BY <1>2, <2>5 DEF CloseNote
  <2> QED BY <1>1, <1>3, <1>4, <2>1, <2>2, <2>3, <2>4, <2>5, BroadcastStep
<1>6. disk' \cap PeerChanges \subseteq Applied(doc)'
  BY <1>1, <1>2, DiskChanges DEF ExternalEdit
<1>7. ASSUME NEW q \in Chains PROVE run'[q].content \cap PeerChanges \subseteq Applied(doc)'
  <2>1. CASE UNCHANGED chains
    BY <1>1, <2>1
  <2>2. ASSUME NEW r \in Chains, HookReads(r) \/ CopyMade(r)
        PROVE  run'[q].content = run[q].content
    BY <2>2, HookMoves
  <2>3. ASSUME NEW r \in Chains, Done(r)
        PROVE  run'[q].content = run[q].content \/ run'[q].content = {}
    BY <2>3, DoneGives DEF Idle
  <2> QED BY <1>1, <1>3, <1>4, <2>1, <2>2, <2>3, RunMoves
<1> QED BY <1>5, <1>6, <1>7, OpsSeen DEF PeersSeen

---------------------------------------------------------------------------
(* Where the document may be ahead of what the user sees.                    *)

(* Something happened beside a write, was overtaken or failed.               *)
Astray == {"failed", "beside", "overtaken"} \cap lapses # {}

(* What the chains are about to write, and whether one waits for the server. *)
Pending == {y \in Changes : \E r \in Chains :
              run[r].at \in {"hook", "copied", "checked"} /\ y \in run[r].content}
Asking == \E r \in Chains : run[r].at = "asked"

(* What the document shows is visible or about to be written.                *)
Ahead == ~Asking => Text(doc) \subseteq Visible \cup Pending

(* An open editor shows what the document and the file, or a text that the   *)
(* editor showed, have in common.                                            *)
EditorLeads ==
  Open => /\ disk \cap Text(doc) \subseteq editor
          /\ \A r \in Chains : run[r].at = "shown" => run[r].content \cap Text(doc) \subseteq editor

(* With an open editor, only the answer of the server is written as a whole. *)
WholeWrites ==
  Open => \A r \in Chains : /\ run[r].at \notin {"hook", "copied"}
                            /\ run[r].at = "checked" => catching = r

Settled == ~Astray => Ahead /\ EditorLeads /\ WholeWrites

LEMMA AstrayStays ==
  ASSUME Next
  PROVE  Astray => Astray'
<1>1. lapses \subseteq lapses' \cup {"dropped"}
  BY DEF Next, PeerChange, QueueBroadcast, EnqueueBroadcast, OverflowByOthers, InitialSyncEnds,
     ReplayEnds, LiveBroadcast, Replay, PushFile, OnDeltaBroadcast, CatchUpAnswered, CatchUpFails,
     HookReads, CopyMade, Modified, ShownIsChecked, FileIsChecked, Type, DebounceFires, AutoSave,
     ChangePane, OpenNote, CloseNote, ExternalEdit, PlainRead, GuardedRead, WindowEnds, ScanStarts,
     ScanReads
<1> QED BY <1>1 DEF Astray

(* A note that is opened beside a rewrite goes astray.                       *)
LEMMA OpenedQuietly ==
  ASSUME TypeOK, Next, ~Astray', ~Open, Open'
  PROVE  OpenNote /\ ~Outstanding
<1>1. OpenNote
  BY EditorChanges DEF Open, CloseNote
<1>2. Outstanding => "beside" \in lapses'
  BY <1>1 DEF OpenNote
<1> QED BY <1>1, <1>2 DEF Astray

(* What is new in the text was visible, or a change of others that was held  *)
(* back or missing.                                                          *)
LEMMA TextNews ==
  ASSUME TypeOK, PeersSeen, Next, NEW y \in Text(doc)', y \notin Text(doc)
  PROVE  y \in Visible \/ (y \in PeerChanges /\ y \notin Applied(doc))
<1> SUFFICES ASSUME y \notin Visible PROVE y \in PeerChanges /\ y \notin Applied(doc)
  OBVIOUS
<1>1. doc \in Docs /\ Visible \in Texts /\ (Open => Visible = editor) /\ 1..peers \subseteq PeerChanges
  BY Fields, Numbering DEF Visible
<1>2. ~UNCHANGED doc /\ UNCHANGED linked
  BY AppliedStays
<1>3. ASSUME NEW d, doc' = d PROVE y \in Text(d)
  BY <1>2, <1>3 DEF Text, Applied
<1>4. ASSUME NEW d \in Docs, y \in Text(d), d.ops \subseteq doc.ops \cup PeerChanges,
             doc.deleted \subseteq d.deleted
      PROVE  y \in PeerChanges /\ y \notin Applied(doc)
  <2>1. y \in d.ops /\ y \notin d.deleted
    BY <1>4 DEF Text, Applied
  <2>2. y \notin Applied(doc)
    BY <1>4, <2>1 DEF Text
  <2>3. y \in doc.ops \cap OwnChanges => y \in Applied(doc)
    BY <1>1, OwnApplied
  <2>4. doc.ops \in Texts /\ Changes = PeerChanges \cup OwnChanges
    BY <1>1, TextTyped, Numbering
  <2> QED BY <1>4, <2>1, <2>2, <2>3, <2>4 DEF Texts
<1>5. CASE doc' = Pushed(doc, Visible)
  <2>1. Visible \cap PeerChanges \subseteq Applied(doc)
    BY DEF PeersSeen, Visible
  <2>2. Text(Pushed(doc, Visible)) = Visible
    BY <1>1, <2>1, SyncedShows
  <2> QED BY <1>3, <1>5, <2>2
<1>6. ASSUME NEW r \in Chains, NEW n \in 1..peers, OnDeltaBroadcast(r, n)
      PROVE  y \in PeerChanges /\ y \notin Applied(doc)
  <2>1. /\ Joined(n) \in Docs /\ Joined(n).ops = Base.ops \cup {n} /\ Joined(n).deleted = Base.deleted
        /\ doc' = Joined(n) \/ doc' = Flushed(Joined(n))
    BY <1>6, BroadcastGives
  <2>2. y \in Text(Joined(n))
    BY <1>1, <1>3, <1>6, <2>1, BaseShows
  <2>3. CASE ~Open
    BY <1>1, <1>4, <2>1, <2>2, <2>3, FlushGives DEF Base
  <2>4. CASE Open
    <3>1. Base.ops = doc.ops \cup editor /\ Base.deleted = (doc.deleted \cup Text(doc)) \ editor
      BY <1>1, <2>4, FlushGives DEF Base
    <3>2. y \in doc.ops \cup {n} /\ y \notin doc.deleted
      BY <1>1, <2>1, <2>2, <2>4, <3>1 DEF Text, Applied
    <3>3. y \notin Applied(doc)
      BY <3>2 DEF Text
    <3>4. y \in doc.ops \cap OwnChanges => y \in Applied(doc)
      BY <1>1, OwnApplied
    <3>5. doc.ops \in Texts /\ Changes = PeerChanges \cup OwnChanges
      BY <1>1, TextTyped, Numbering
    <3> QED BY <1>1, <3>2, <3>3, <3>4, <3>5 DEF Texts
  <2> QED BY <2>3, <2>4
<1>7. ASSUME NEW r \in Chains, CatchUpAnswered(r)
      PROVE  y \in PeerChanges /\ y \notin Applied(doc)
  <2>1. /\ Caught \in Docs /\ Caught.ops = doc.ops \cup 1..peers /\ Caught.deleted = doc.deleted
        /\ \/ doc' = Caught
           \/ /\ Open /\ doc' = Synced(Caught, editor') /\ editor' \in Texts
              /\ editor' = editor \cup (Text(Caught) \ Text(doc))
    BY <1>7, AnswerGives
  <2>2. y \in Text(Caught)
    <3>1. CASE doc' = Caught
      BY <1>3, <3>1
    <3>2. CASE /\ Open /\ doc' = Synced(Caught, editor') /\ editor' \in Texts
               /\ editor' = editor \cup (Text(Caught) \ Text(doc))
      <4>1. Text(Synced(Caught, editor')) = editor'
        BY <1>7, <3>2, CaughtShows
      <4>2. y \in Text(Synced(Caught, editor'))
        BY <1>2, <3>2 DEF Text, Applied
      <4> QED BY <1>1, <3>2, <4>1, <4>2
    <3> QED BY <2>1, <3>1, <3>2
  <2> QED BY <1>1, <1>4, <2>1, <2>2
<1> QED BY <1>2, <1>5, <1>6, <1>7, DocChanges

(* A whole write that was not overtaken wrote what the document shows.       *)
LEMMA WholeWrite ==
  ASSUME TypeOK, ~Astray', NEW r \in Chains, ShownIsChecked(r) \/ FileIsChecked(r)
  PROVE  /\ UNCHANGED <<doc, linked>>
         /\ run' \in [Chains -> Runs] /\ run'[r].at = "idle"
         /\ \A q \in Chains : q # r => run'[q] = run[q]
         /\ catching' = IF catching = r THEN "nobody" ELSE catching
         /\ \/ disk = run[r].content /\ UNCHANGED <<editor, disk>>
            \/ /\ Open /\ FileIsChecked(r) /\ editor' = run[r].content /\ UNCHANGED disk
               /\ run[r].content = Text(doc)
            \/ /\ UNCHANGED editor /\ disk' = run[r].content /\ (ShownIsChecked(r) \/ ~Open)
               /\ run[r].content = Text(doc)
<1>1. Done(r) /\ UNCHANGED <<doc, linked>>
  BY DEF ShownIsChecked, FileIsChecked
<1>2. \/ disk = run[r].content /\ UNCHANGED <<editor, disk>>
      \/ /\ Open /\ FileIsChecked(r) /\ editor' = run[r].content /\ UNCHANGED disk
         /\ lapses' = lapses \cup Overtaken(run[r].content)
      \/ /\ UNCHANGED editor /\ disk' = run[r].content /\ (ShownIsChecked(r) \/ ~Open)
         /\ lapses' = lapses \cup Overtaken(run[r].content)
  BY DEF ShownIsChecked, FileIsChecked, ModifyFile
<1>3. lapses' = lapses \cup Overtaken(run[r].content) => run[r].content = Text(doc)
  BY DEF Overtaken, Astray
<1> QED BY <1>1, <1>2, <1>3, DoneGives DEF Idle

(* What a broadcast leaves, by the four ways it can go.                      *)
LEMMA BroadcastLeaves ==
  ASSUME TypeOK, PeersSeen, NEW r \in Chains, NEW n \in 1..peers, OnDeltaBroadcast(r, n)
  PROVE  /\ \A q \in Chains : q # r => run'[q] = run[q]
         /\ UNCHANGED <<linked, disk>> /\ Text(Base) \subseteq Text(Joined(n))
         /\ \/ run'[r].at = "asked" /\ UNCHANGED editor /\ catching' = r
            \/ /\ Open /\ doc' = Joined(n) /\ Text(Base) = editor /\ run'[r].at = "idle"
               /\ editor' = editor \cup (Text(Joined(n)) \ Text(Base))
            \/ /\ Open /\ doc' = Joined(n) /\ Text(Joined(n)) = editor /\ UNCHANGED <<editor, catching>>
               /\ run'[r].at = "shown" /\ run'[r].content = editor
            \/ /\ ~Open /\ doc' = Joined(n) /\ Base = doc /\ UNCHANGED <<editor, catching>>
               /\ run'[r].at = "hook" /\ run'[r].content = Text(Joined(n))
<1>1. /\ Text(Base) \in Texts /\ Text(Joined(n)) \in Texts
      /\ \/ AskServer(r, Text(Base))
         \/ doc' = Joined(n) /\ Open /\ ApplyToEditor(r, Text(Joined(n)) \ Text(Base))
         \/ /\ doc' = Joined(n) /\ Open /\ Text(Joined(n)) \ Text(Base) = {}
            /\ Rewrite(r, Text(Joined(n)), Text(Base)) /\ UNCHANGED <<editor, catching>>
         \/ /\ doc' = Joined(n) /\ ~Open /\ UNCHANGED <<editor, catching>>
            /\ run' = [run EXCEPT ![r] = [at |-> "hook", content |-> Text(Joined(n)), before |-> Text(Base)]]
  BY BroadcastGives
<1>2. /\ UNCHANGED <<linked, disk>> /\ \A q \in Chains : q # r => run'[q] = run[q]
      /\ "asked" \in Places /\ "hook" \in Places /\ {} \in Texts
  BY BroadcastMoves, Numbering DEF OnDeltaBroadcast, Places
<1>3. /\ Open => Text(Base) = editor
      /\ ~Open => Base = doc
      /\ Text(Base) \subseteq Text(Joined(n))
  BY BaseShows
<1>4. CASE AskServer(r, Text(Base))
  BY <1>1, <1>2, <1>3, <1>4, PlaceGives DEF AskServer
<1>5. CASE doc' = Joined(n) /\ Open /\ ApplyToEditor(r, Text(Joined(n)) \ Text(Base))
  BY <1>2, <1>3, <1>5, DoneGives DEF ApplyToEditor, Idle
<1>6. CASE /\ doc' = Joined(n) /\ Open /\ Text(Joined(n)) \ Text(Base) = {}
           /\ Rewrite(r, Text(Joined(n)), Text(Base)) /\ UNCHANGED <<editor, catching>>
  <2>1. Text(Joined(n)) = editor
    BY <1>3, <1>6
  <2> QED BY <1>1, <1>2, <1>3, <1>6, <2>1, RewriteGives
<1>7. CASE /\ doc' = Joined(n) /\ ~Open /\ UNCHANGED <<editor, catching>>
           /\ run' = [run EXCEPT ![r] = [at |-> "hook", content |-> Text(Joined(n)), before |-> Text(Base)]]
  BY <1>1, <1>2, <1>3, <1>7, PlaceGives
<1> QED BY <1>1, <1>4, <1>5, <1>6, <1>7

LEMMA AnswerLeaves ==
  ASSUME TypeOK, PeersSeen, NEW r \in Chains, CatchUpAnswered(r)
  PROVE  /\ \A q \in Chains : q # r => run'[q] = run[q]
         /\ UNCHANGED <<linked, disk>> /\ catching = r
         /\ \/ /\ Open /\ editor' \in Texts /\ editor \subseteq editor' /\ Text(doc)' = editor'
               /\ run'[r].at = "idle"
            \/ /\ Open /\ UNCHANGED <<editor, catching>> /\ run'[r].content = Text(doc)'
               /\ run'[r].at = (IF editor = Text(doc)' THEN "shown" ELSE "checked")
            \/ /\ ~Open /\ UNCHANGED <<editor, catching>> /\ run'[r].content = Text(doc)'
               /\ run'[r].at = "hook"
<1>1. /\ Text(Caught) \in Texts
      /\ \/ /\ Open /\ doc' = Synced(Caught, editor') /\ editor' = editor \cup (Text(Caught) \ Text(doc))
            /\ editor' \in Texts /\ Done(r)
         \/ doc' = Caught /\ Open /\ Rewrite(r, Text(Caught), run[r].before) /\ UNCHANGED <<editor, catching>>
         \/ /\ doc' = Caught /\ ~Open /\ UNCHANGED <<editor, catching>>
            /\ run' = [run EXCEPT ![r] = [at |-> "hook", content |-> Text(Caught), before |-> run[r].before]]
  BY AnswerGives
<1>2. /\ UNCHANGED <<linked, disk>> /\ \A q \in Chains : q # r => run'[q] = run[q]
      /\ run[r].at = "asked" /\ "hook" \in Places /\ run[r].before \in Texts
  BY AnswerMoves, RunTyped DEF CatchUpAnswered, Places
<1>3. catching = r
  BY <1>2 DEF TypeOK
<1>4. doc' = Caught => Text(doc)' = Text(Caught)
  BY <1>2 DEF Text, Applied
<1>5. CASE /\ Open /\ doc' = Synced(Caught, editor') /\ editor' = editor \cup (Text(Caught) \ Text(doc))
           /\ editor' \in Texts /\ Done(r)
  <2>1. Text(Synced(Caught, editor')) = editor'
    BY <1>5, CaughtShows
  <2>2. Text(doc)' = Text(Synced(Caught, editor'))
    BY <1>2, <1>5 DEF Text, Applied
  <2> QED BY <1>2, <1>3, <1>5, <2>1, <2>2, DoneGives DEF Idle
<1>6. CASE doc' = Caught /\ Open /\ Rewrite(r, Text(Caught), run[r].before) /\ UNCHANGED <<editor, catching>>
  BY <1>1, <1>2, <1>3, <1>4, <1>6, RewriteGives
<1>7. CASE /\ doc' = Caught /\ ~Open /\ UNCHANGED <<editor, catching>>
           /\ run' = [run EXCEPT ![r] = [at |-> "hook", content |-> Text(Caught), before |-> run[r].before]]
  BY <1>1, <1>2, <1>3, <1>4, <1>7, PlaceGives
<1> QED BY <1>1, <1>5, <1>6, <1>7

(* An open editor only grows, unless a whole write was not overtaken.        *)
LEMMA EditorStep ==
  ASSUME TypeOK, PeersSeen, Next, ~Astray', Open, Open'
  PROVE  \/ editor \subseteq editor'
         \/ editor' = Text(doc)' /\ UNCHANGED disk
<1>1. ~CloseNote /\ ~OpenNote
  BY DEF OpenNote, CloseNote, Open
<1>2. ASSUME NEW r \in Chains, FileIsChecked(r), editor' = run[r].content, editor' # editor
      PROVE  editor' = Text(doc)' /\ UNCHANGED disk
  <2>1. /\ UNCHANGED <<doc, linked>> /\ UNCHANGED disk
        /\ run[r].content = Text(doc)
    BY <1>2, WholeWrite
  <2> QED BY <1>2, <2>1 DEF Text, Applied
<1> QED BY <1>1, <1>2, EditorChanges

LEMMA EditorLeadsStays ==
  ASSUME TypeOK, PeersSeen, Next, ~Astray', EditorLeads, WholeWrites
  PROVE  EditorLeads'
<1> SUFFICES ASSUME Open' PROVE EditorLeads'
  BY DEF EditorLeads
<1>1. CASE ~Open
  <2>1. OpenNote /\ ~Outstanding
    BY <1>1, OpenedQuietly
  <2>2. editor' = disk' /\ UNCHANGED run
    BY <2>1 DEF OpenNote
  <2> QED BY <2>1, <2>2 DEF EditorLeads, Outstanding
<1>2. CASE Open
  <2>1. disk \cap Text(doc) \subseteq editor /\ Visible = editor
        /\ \A r \in Chains : run[r].at = "shown" => run[r].content \cap Text(doc) \subseteq editor
    BY <1>2 DEF EditorLeads, Visible
  <2>2. \A y \in Text(doc)' : y \in Text(doc) \/ y \in editor \/ (y \in PeerChanges /\ y \notin Applied(doc))
    BY <2>1, TextNews
  <2>3. disk \cap Text(doc)' \subseteq editor
    BY <2>1, <2>2 DEF PeersSeen
  <2>4. \A r \in Chains : run[r].at = "shown" => run[r].content \cap Text(doc)' \subseteq editor
    BY <2>1, <2>2 DEF PeersSeen
  <2>5. CASE editor' = Text(doc)'
    BY <2>5 DEF EditorLeads
  <2>6. CASE editor \subseteq editor'
    <3>1. disk' \cap Text(doc)' \subseteq editor'
      <4>1. CASE UNCHANGED disk
        BY <2>3, <2>6, <4>1
      <4>2. CASE disk' = editor
        BY <2>6, <4>2
      <4>3. ASSUME NEW r \in Chains, ShownIsChecked(r), disk' = run[r].content
            PROVE  disk' \cap Text(doc)' \subseteq editor'
        <5>1. run[r].at = "shown"
          BY <4>3 DEF ShownIsChecked
        <5> QED BY <2>4, <2>6, <4>3, <5>1
      <4> QED BY <1>2, <4>1, <4>2, <4>3, DiskChanges DEF ExternalEdit
    <3>2. ASSUME NEW q \in Chains, run'[q].at = "shown"
          PROVE  run'[q].content \cap Text(doc)' \subseteq editor'
      <4>1. CASE run'[q] = run[q]
        BY <2>4, <2>6, <3>2, <4>1
      <4>2. CASE run'[q].content \in {editor, editor'}
        BY <2>6, <4>2
      <4>3. ASSUME NEW r \in Chains, NEW n \in 1..peers, OnDeltaBroadcast(r, n)
            PROVE  run'[q] = run[q] \/ run'[q].content \in {editor, editor'}
        BY <1>2, <3>2, <4>3, BroadcastLeaves
      <4>4. ASSUME NEW r \in Chains, CatchUpAnswered(r)
            PROVE  run'[q] = run[q] \/ run'[q].content \in {editor, editor'}
        BY <1>2, <3>2, <4>4, AnswerLeaves
      <4>5. ASSUME NEW r \in Chains, HookReads(r) \/ CopyMade(r)
            PROVE  run'[q] = run[q] \/ run'[q].content \in {editor, editor'}
        BY <3>2, <4>5, HookMoves
      <4>6. ASSUME NEW r \in Chains, Done(r)
            PROVE  run'[q] = run[q]
        BY <3>2, <4>6, DoneGives DEF Idle
      <4> QED BY <4>1, <4>2, <4>3, <4>4, <4>5, <4>6, RunMoves
    <3> QED BY <3>1, <3>2 DEF EditorLeads
  <2> QED BY <1>2, <2>5, <2>6, EditorStep
<1> QED BY <1>1, <1>2

LEMMA WholeWritesStays ==
  ASSUME TypeOK, PeersSeen, Next, ~Astray', WholeWrites
  PROVE  WholeWrites'
<1> SUFFICES ASSUME Open', NEW q \in Chains
             PROVE  /\ run'[q].at \notin {"hook", "copied"}
                    /\ run'[q].at = "checked" => catching' = q
  BY DEF WholeWrites
<1>1. CASE ~Open
  <2>1. OpenNote /\ ~Outstanding
    BY <1>1, OpenedQuietly
  <2> QED BY <2>1 DEF OpenNote, Outstanding
<1>2. CASE Open
  <2>1. \A r \in Chains : /\ run[r].at \notin {"hook", "copied"}
                          /\ run[r].at = "checked" => catching = r
    BY <1>2 DEF WholeWrites
  <2>2. CASE UNCHANGED chains
    BY <2>1, <2>2
  <2>3. ASSUME NEW r \in Chains, NEW n \in 1..peers, OnDeltaBroadcast(r, n)
        PROVE  /\ run'[q].at \notin {"hook", "copied"}
               /\ run'[q].at = "checked" => catching' = q
    <3>1. CASE q = r
      BY <1>2, <2>3, <3>1, BroadcastLeaves
    <3>2. CASE q # r
      <4>1. run'[q] = run[q]
        BY <2>3, <3>2, BroadcastMoves
      <4>2. catching = q => catching' = q
        BY <2>3, <3>2, BroadcastMoves DEF Chains
      <4> QED BY <2>1, <4>1, <4>2
    <3> QED BY <3>1, <3>2
  <2>4. ASSUME NEW r \in Chains, CatchUpAnswered(r)
        PROVE  /\ run'[q].at \notin {"hook", "copied"}
               /\ run'[q].at = "checked" => catching' = q
    <3>1. CASE q = r
      BY <1>2, <2>4, <3>1, AnswerLeaves
    <3>2. CASE q # r
      BY <2>1, <2>4, <3>2, AnswerLeaves
    <3> QED BY <3>1, <3>2
  <2>5. ASSUME NEW r \in Chains PROVE ~(HookReads(r) \/ CopyMade(r))
    BY <2>1, HookMoves
  <2>6. ASSUME NEW r \in Chains, Done(r)
        PROVE  /\ run'[q].at \notin {"hook", "copied"}
               /\ run'[q].at = "checked" => catching' = q
    <3>1. CASE q = r
      BY <2>6, <3>1, DoneGives DEF Idle
    <3>2. CASE q # r
      BY <2>1, <2>6, <3>2, DoneGives
    <3> QED BY <3>1, <3>2
  <2> QED BY <2>2, <2>3, <2>4, <2>5, <2>6, RunMoves
<1> QED BY <1>1, <1>2

(* Between them, the visible text and the pending writes show what the       *)
(* document shows.                                                           *)
LEMMA AheadStays ==
  ASSUME TypeOK, PeersSeen, Next, ~Astray', Ahead, EditorLeads, WholeWrites
  PROVE  Ahead'
<1> SUFFICES ASSUME ~Asking', NEW y \in Text(doc)' PROVE y \in Visible' \/ y \in Pending'
  BY DEF Ahead
<1>1. /\ doc \in Docs /\ Visible \in Texts /\ (Open => editor \in Texts) /\ disk \in Texts
      /\ \A x \in Texts : x # Closed
  BY Fields, Numbering
<1>2. ASSUME NEW q \in Chains, run'[q].at \in {"hook", "copied", "checked"}, y \in run'[q].content
      PROVE  y \in Pending'
  <2>1. run'[q].content \in Texts
    BY RunsTyped DEF Runs
  <2>2. y \in Changes
    BY <1>2, <2>1 DEF Texts
  <2> QED BY <1>2, <2>2 DEF Pending
<1>3. UNCHANGED linked => \A d : doc' = d => y \in Text(d)
  BY DEF Text, Applied
<1>4. ASSUME NEW r \in Chains, NEW n \in 1..peers, OnDeltaBroadcast(r, n)
      PROVE  y \in Visible' \/ y \in Pending'
  <2>1. Text(Joined(n)) \in Texts /\ UNCHANGED linked
    BY <1>4, BroadcastGives, BroadcastLeaves
  <2>2. CASE /\ Open /\ doc' = Joined(n) /\ Text(Base) = editor
             /\ editor' = editor \cup (Text(Joined(n)) \ Text(Base))
    <3>1. editor' \in Texts
      BY <1>1, <2>1, <2>2 DEF Texts
    <3>2. y \in editor'
      BY <1>3, <2>1, <2>2
    <3> QED BY <1>1, <3>1, <3>2 DEF Visible, Open
  <2>3. CASE Open /\ doc' = Joined(n) /\ Text(Joined(n)) = editor /\ UNCHANGED editor
    BY <1>3, <2>1, <2>3 DEF Visible, Open
  <2>4. CASE doc' = Joined(n) /\ run'[r].at = "hook" /\ run'[r].content = Text(Joined(n))
    BY <1>2, <1>3, <2>1, <2>4
  <2>5. run'[r].at # "asked"
    BY DEF Asking
  <2> QED BY <1>4, <2>2, <2>3, <2>4, <2>5, BroadcastLeaves
<1>5. ASSUME NEW r \in Chains, CatchUpAnswered(r)
      PROVE  y \in Visible' \/ y \in Pending'
  <2>1. CASE Open /\ editor' \in Texts /\ Text(doc)' = editor'
    BY <1>1, <2>1 DEF Visible, Open
  <2>2. CASE Open /\ UNCHANGED editor /\ editor = Text(doc)'
    BY <2>2 DEF Visible, Open
  <2>3. CASE run'[r].content = Text(doc)' /\ run'[r].at \in {"hook", "checked"}
    BY <1>2, <2>3
  <2> QED BY <1>5, <2>1, <2>2, <2>3, AnswerLeaves
<1>6. ASSUME NEW r \in Chains, \A q \in Chains : q # r => run'[q] = run[q], run[r].at # "asked"
      PROVE  /\ ~Asking
             /\ y \in Pending => y \in Pending' \/ y \in run[r].content
  <2>1. ~Asking
    BY <1>6 DEF Asking
  <2>2. ASSUME y \in Pending PROVE y \in Pending' \/ y \in run[r].content
    BY <1>2, <1>6, <2>2 DEF Pending
  <2> QED BY <2>1, <2>2
<1>7. ASSUME NEW r \in Chains, HookReads(r) \/ CopyMade(r)
      PROVE  y \in Visible' \/ y \in Pending'
  <2>1. /\ \A q \in Chains : q # r => run'[q] = run[q]
        /\ run[r].at \in {"hook", "copied"} /\ run'[r].content = run[r].content
        /\ UNCHANGED <<editor, disk, doc>>
        /\ \/ run'[r].at = (IF editor = run[r].content THEN "shown" ELSE "checked")
           \/ run'[r].at = "copied"
    BY <1>7, HookMoves
  <2>2. y \in Text(doc) /\ Visible' = Visible /\ run[r].content \in Texts
    BY <2>1, AppliedStays, RunTyped DEF Visible, Open
  <2>3. y \in Visible \/ y \in Pending' \/ y \in run[r].content
    BY <1>6, <2>1, <2>2 DEF Ahead
  <2>4. ASSUME y \in run[r].content PROVE y \in Visible \/ y \in Pending'
    BY <1>1, <1>2, <2>1, <2>2, <2>4 DEF Visible, Open
  <2> QED BY <2>2, <2>3, <2>4
<1>8. ASSUME NEW r \in Chains, ShownIsChecked(r) \/ FileIsChecked(r)
      PROVE  y \in Visible' \/ y \in Pending'
  <2>1. /\ UNCHANGED <<doc, linked>> /\ \A q \in Chains : q # r => run'[q] = run[q]
        /\ \/ disk = run[r].content /\ UNCHANGED <<editor, disk>>
           \/ /\ Open /\ FileIsChecked(r) /\ editor' = run[r].content /\ UNCHANGED disk
              /\ run[r].content = Text(doc)
           \/ /\ UNCHANGED editor /\ disk' = run[r].content /\ (ShownIsChecked(r) \/ ~Open)
              /\ run[r].content = Text(doc)
    BY <1>8, WholeWrite
  <2>2. /\ y \in Text(doc) /\ run[r].content \in Texts
        /\ (ShownIsChecked(r) => run[r].at = "shown") /\ run[r].at \in {"shown", "checked"}
    BY <1>3, <1>8, <2>1, RunTyped DEF ShownIsChecked, FileIsChecked
  <2>3. CASE disk = run[r].content /\ UNCHANGED <<editor, disk>>
    <3>1. y \in Visible \/ y \in Pending' \/ y \in disk
      BY <1>6, <2>1, <2>2, <2>3 DEF Ahead
    <3>2. y \in disk => y \in Visible
      BY <2>2 DEF EditorLeads, Visible
    <3> QED BY <2>3, <3>1, <3>2 DEF Visible, Open
  <2>4. CASE Open /\ editor' = run[r].content /\ run[r].content = Text(doc)
    BY <1>1, <2>2, <2>4 DEF Visible, Open
  <2>5. CASE UNCHANGED editor /\ disk' = run[r].content /\ ~Open /\ run[r].content = Text(doc)
    BY <2>2, <2>5 DEF Visible, Open
  <2>6. CASE UNCHANGED editor /\ Open /\ ShownIsChecked(r) /\ run[r].content = Text(doc)
    <3>1. y \in editor
      BY <2>2, <2>6 DEF EditorLeads
    <3> QED BY <2>6, <3>1 DEF Visible, Open
  <2> QED BY <2>1, <2>3, <2>4, <2>5, <2>6
<1>9. CASE /\ UNCHANGED chains /\ ~\E r \in Chains : ShownIsChecked(r) \/ FileIsChecked(r) \/ CatchUpAnswered(r)
           /\ ~\E r \in Chains : \E n \in 1..peers : OnDeltaBroadcast(r, n)
  <2>1. Pending' = Pending /\ ~Asking
    BY <1>9 DEF Pending, Asking
  <2>2. Visible \subseteq Visible'
    BY <1>9, VisibleStep
  <2>3. CASE doc' = doc
    BY <2>1, <2>2, <2>3, AppliedStays DEF Ahead
  <2>4. CASE doc' = Pushed(doc, Visible) /\ UNCHANGED remote
    <3>1. Visible \cap PeerChanges \subseteq Applied(doc)
      BY DEF PeersSeen, Visible
    <3>2. Text(Pushed(doc, Visible)) = Visible
      BY <1>1, <3>1, SyncedShows
    <3> QED BY <1>3, <2>2, <2>4, <3>2
  <2> QED BY <1>9, <2>3, <2>4, DocChanges
<1>10. ASSUME NEW r \in Chains PROVE ~CatchUpFails(r)
  BY DEF CatchUpFails, Astray
<1> QED BY <1>4, <1>5, <1>7, <1>8, <1>9, <1>10, RunMoves

LEMMA SettledStays ==
  ASSUME TypeOK, PeersSeen, Settled, Next
  PROVE  Settled'
<1> SUFFICES ASSUME ~Astray' PROVE Ahead' /\ EditorLeads' /\ WholeWrites'
  BY DEF Settled
<1>1. Ahead /\ EditorLeads /\ WholeWrites
  BY AstrayStays DEF Settled
<1> QED BY <1>1, AheadStays, EditorLeadsStays, WholeWritesStays
---------------------------------------------------------------------------
(* What convergence at rest is made of.                                      *)

(* Something was skipped that no frame to come brings up again.              *)
Lapsed == lapses \ {"dropped"} # {}

Items(q) == {q[i] : i \in 1..Len(q)}
InFlight == Items(buffered) \cup Items(liveq)
Mine == (MaxPeer + 1)..(MaxPeer + own)

(* Own operations of the document were sent.                                 *)
SentAll == "unsent" \notin lapses => doc.ops \cap OwnChanges \subseteq doc.sent

(* The frames of a live chain are the last ones that the server sent.        *)
InOrder == \A i \in 1..Len(liveq) : liveq[i] = peers - Len(liveq) + i

(* Before the first frame is handled nothing runs, and frames are only given *)
(* up before that.                                                           *)
Calm ==
  /\ phase = "syncing" => liveq = <<>>
  /\ phase = "syncing" \/ "dropped" \in lapses =>
       catching = "nobody" /\ \A r \in Chains : run[r].at = "idle"
  /\ "dropped" \in lapses => overflowed
  /\ overflowed => buffered = <<>>

(* Every change of others is in the document, in a frame, or asked for.      *)
Reaches ==
  {"dropped", "failed"} \cap lapses = {} => Asking \/ 1..peers \subseteq doc.ops \cup InFlight

(* No text has an own change that was not made yet.                          *)
OwnSeen ==
  /\ (doc.ops \cup editor \cup disk \cup lastRemote) \cap OwnChanges \subseteq Mine
  /\ \A r \in Chains : run[r].content \cap OwnChanges \subseteq Mine

(* What was written last for another device is in the document as far as it  *)
(* is still visible.                                                         *)
EchoKnown == ~Lapsed => lastRemote \cap Visible \subseteq Text(doc)

(* What is visible and not in the document is waited for: by the debounce    *)
(* timer or by a vault event that reads a file which has it.                 *)
Waited(y) ==
  \/ timer \/ "plain" \in reads
  \/ "guarded" \in reads /\ y \in disk /\ ~(Open /\ Outstanding)
Owed == ~Lapsed => \A y \in Visible \ Text(doc) : Waited(y)

LEMMA ItemFacts ==
  ASSUME NEW T, NEW q \in Seq(T)
  PROVE  /\ Items(<<>>) = {}
         /\ \A t \in T : Items(Append(q, t)) = Items(q) \cup {t}
         /\ q # <<>> => Items(q) = Items(Tail(q)) \cup {Head(q)}
<1>1. ASSUME NEW t \in T PROVE Items(Append(q, t)) = Items(q) \cup {t}
  <2>1. /\ Len(q) \in Nat /\ Len(Append(q, t)) = Len(q) + 1
        /\ \A i \in 1..Len(q) : Append(q, t)[i] = q[i]
        /\ Append(q, t)[Len(q) + 1] = t
    OBVIOUS
  <2> QED BY <2>1 DEF Items
<1>2. ASSUME q # <<>> PROVE Items(q) = Items(Tail(q)) \cup {Head(q)}
  <2>1. /\ Len(q) \in Nat /\ Len(q) > 0 /\ Len(Tail(q)) = Len(q) - 1 /\ Head(q) = q[1]
        /\ \A i \in 1..(Len(q) - 1) : Tail(q)[i] = q[i + 1]
    BY <1>2
  <2>2. Items(q) \subseteq Items(Tail(q)) \cup {Head(q)}
    <3> SUFFICES ASSUME NEW i \in 1..Len(q), i # 1 PROVE \E j \in 1..(Len(q) - 1) : Tail(q)[j] = q[i]
      BY <2>1 DEF Items
    <3>1. i - 1 \in 1..(Len(q) - 1) /\ (i - 1) + 1 = i
      BY <2>1
    <3> QED BY <2>1, <3>1
  <2>3. Items(Tail(q)) \cup {Head(q)} \subseteq Items(q)
    <3>1. \A i \in 1..(Len(q) - 1) : i + 1 \in 1..Len(q)
      BY <2>1
    <3>2. 1 \in 1..Len(q)
      BY <2>1
    <3> QED BY <2>1, <3>1, <3>2 DEF Items
  <2> QED BY <2>2, <2>3
<1> QED BY <1>1, <1>2 DEF Items

(* The items of a queue that a change is put at the end of.                  *)
LEMMA Appended ==
  ASSUME NEW q \in Seq(Nat), NEW c \in Nat
  PROVE  Items(Append(q, c)) = Items(q) \cup {c}
<1>1. \A t \in Nat : Items(Append(q, t)) = Items(q) \cup {t}
  BY ItemFacts
<1> QED BY <1>1

LEMMA LapsesGrow ==
  ASSUME Next
  PROVE  /\ lapses \ {"dropped"} \subseteq lapses'
         /\ Lapsed => Lapsed'
         /\ Astray => Lapsed
<1>1. lapses \subseteq lapses' \cup {"dropped"}
  BY DEF Next, PeerChange, QueueBroadcast, EnqueueBroadcast, OverflowByOthers, InitialSyncEnds,
     ReplayEnds, LiveBroadcast, Replay, PushFile, OnDeltaBroadcast, CatchUpAnswered, CatchUpFails,
     HookReads, CopyMade, Modified, ShownIsChecked, FileIsChecked, Type, DebounceFires, AutoSave,
     ChangePane, OpenNote, CloseNote, ExternalEdit, PlainRead, GuardedRead, WindowEnds, ScanStarts,
     ScanReads
<1> QED BY <1>1 DEF Lapsed, Astray

(* Who moves frames.                                                         *)
LEMMA FramesStep ==
  ASSUME TypeOK, Next
  PROVE  \/ /\ UNCHANGED <<peers, phase, buffered, overflowed, liveq>>
            /\ lapses \subseteq lapses' /\ ("dropped" \in lapses' => "dropped" \in lapses)
         \/ PeerChange \/ OverflowByOthers \/ InitialSyncEnds \/ ReplayEnds
         \/ \E r \in Chains : CatchUpFails(r)
         \/ LiveBroadcast /\ Head(liveq) \in 1..peers /\ OnDeltaBroadcast("live", Head(liveq))
         \/ Replay /\ Head(buffered) \in 1..peers /\ OnDeltaBroadcast("flush", Head(buffered))
<1>1. \A s \in Seq(1..peers) : s # <<>> => Head(s) \in 1..peers
  BY SequenceFacts
<1>2. CASE LiveBroadcast
  BY <1>1, <1>2 DEF LiveBroadcast, TypeOK
<1>3. CASE Replay
  BY <1>1, <1>3 DEF Replay, TypeOK
<1>4. CASE ~(PeerChange \/ OverflowByOthers \/ InitialSyncEnds \/ ReplayEnds \/ LiveBroadcast \/ Replay
             \/ \E r \in Chains : CatchUpFails(r))
  BY <1>4 DEF Next, PushFile, CatchUpAnswered, HookReads, CopyMade, Modified, Overtaken, ShownIsChecked,
     FileIsChecked, Type, DebounceFires, AutoSave, ChangePane, OpenNote, CloseNote, ExternalEdit,
     PlainRead, GuardedRead, WindowEnds, ScanStarts, ScanReads
<1> QED BY <1>2, <1>3, <1>4

(* What a push leaves unsent was unsent before.                              *)
LEMMA PushSends ==
  ASSUME TypeOK, NEW d \in Docs, NEW x \in Texts, d.ops \cap OwnChanges \subseteq d.sent
  PROVE  Pushed(d, x).ops \cap OwnChanges \subseteq Pushed(d, x).sent
<1> DEFINE e == Synced(d, x)
<1>1. e \in Docs /\ e.ops = d.ops \cup x /\ e.deleted = (d.deleted \cup Text(d)) \ x /\ e.sent = d.sent
  BY PushGives DEF Synced, Docs
<1>2. Pushed(d, x).ops = e.ops /\ Pushed(d, x).sent = e.sent \cup ((Text(e) \ Text(d)) \cap OwnChanges)
  BY <1>1 DEF Pushed, Docs
<1> HIDE DEF e
<1>3. ASSUME NEW c \in OwnChanges, c \in e.ops, c \notin d.ops PROVE c \in Text(e) \ Text(d)
  BY <1>1, <1>3, OwnText, TextTyped
<1> QED BY <1>1, <1>2, <1>3

LEMMA SentAllStays ==
  ASSUME TypeOK, PeersSeen, SentAll, Next
  PROVE  SentAll'
<1> SUFFICES ASSUME "unsent" \notin lapses' PROVE doc'.ops \cap OwnChanges \subseteq doc'.sent
  BY DEF SentAll
<1>1. /\ doc.ops \cap OwnChanges \subseteq doc.sent /\ doc \in Docs /\ Visible \in Texts
      /\ (Open => editor \in Texts) /\ 1..peers \cap OwnChanges = {} /\ 1..peers \in Texts
  <2>1. "unsent" \notin lapses
    BY LapsesGrow
  <2> QED BY <2>1, Fields, Numbering DEF SentAll
<1>2. CASE doc' = Pushed(doc, Visible)
  BY <1>1, <1>2, PushSends
<1>3. ASSUME NEW d \in Docs, d.ops \cap OwnChanges \subseteq d.sent, NEW x \in Texts, x \cap OwnChanges = {}
      PROVE  Import(d, x) \in Docs /\ Import(d, x).ops \cap OwnChanges \subseteq Import(d, x).sent
  BY <1>3, ImportGives DEF Import, Docs
<1>4. ASSUME NEW r \in Chains, NEW n \in 1..peers, OnDeltaBroadcast(r, n)
      PROVE  doc'.ops \cap OwnChanges \subseteq doc'.sent
  <2>1. Base \in Docs /\ Base.ops \cap OwnChanges \subseteq Base.sent
    BY <1>1, <1>4, PushSends, BroadcastGives DEF Base, Flushed
  <2>2. {n} \in Texts /\ {n} \cap OwnChanges = {}
    BY <1>1 DEF Texts
  <2>3. Joined(n) \in Docs /\ Joined(n).ops \cap OwnChanges \subseteq Joined(n).sent
    BY <1>3, <2>1, <2>2 DEF Joined
  <2>4. /\ Flushed(Joined(n)).ops \cap OwnChanges \subseteq Flushed(Joined(n)).sent
    BY <1>1, <2>3, PushSends DEF Flushed
  <2>5. doc' = Joined(n) \/ doc' = Flushed(Joined(n))
    BY <1>4, BroadcastGives
  <2> QED BY <2>3, <2>4, <2>5
<1>5. ASSUME NEW r \in Chains, CatchUpAnswered(r)
      PROVE  doc'.ops \cap OwnChanges \subseteq doc'.sent
  <2>1. Caught \in Docs /\ Caught.ops \cap OwnChanges \subseteq Caught.sent
    BY <1>1, <1>3 DEF Caught
  <2>2. CASE doc' = Caught
    BY <2>1, <2>2
  <2>3. CASE doc' # Caught
    <3>1. /\ doc' = Synced(Caught, editor') /\ editor' = editor \cup (Text(Caught) \ Text(doc))
          /\ editor' \in Texts
      BY <1>5, <2>3, AnswerGives
    <3>2. UNCHANGED linked /\ lapses' = lapses \cup (IF Text(doc') \ Text(Caught) # {} THEN {"unsent"} ELSE {})
      BY <1>5, <2>3 DEF CatchUpAnswered, Caught
    <3>3. Text(doc') \ Text(Caught) = {}
      BY <3>2
    <3>4. Text(doc') = editor'
      BY <1>5, <3>1, CaughtShows
    <3>5. doc'.ops = Caught.ops \cup editor' /\ doc'.sent = Caught.sent
      <4>1. \A x \in Texts : Synced(Caught, x).ops = Caught.ops \cup x /\ Synced(Caught, x).sent = Caught.sent
        BY <2>1, PushGives DEF Synced, Docs
      <4> QED BY <3>1, <4>1
    <3>6. editor' \subseteq Caught.ops
      BY <2>1, <3>3, <3>4, TextTyped
    <3> QED BY <2>1, <3>5, <3>6
  <2> QED BY <2>2, <2>3
<1>6. CASE doc' = doc
  BY <1>1, <1>6
<1> QED BY <1>2, <1>4, <1>5, <1>6, DocChanges

LEMMA InOrderStays ==
  ASSUME TypeOK, Calm, InOrder, Next
  PROVE  InOrder'
<1>1. peers \in Nat /\ liveq \in Seq(1..peers) /\ Len(liveq) \in Nat
  BY Fields DEF TypeOK
<1>2. CASE PeerChange
  <2>1. peers' = peers + 1 /\ (((UNCHANGED liveq) /\ phase = "syncing") \/ liveq' = Append(liveq, peers + 1))
    BY <1>2 DEF PeerChange, QueueBroadcast, EnqueueBroadcast
  <2>2. CASE (UNCHANGED liveq) /\ phase = "syncing"
    BY <2>2 DEF Calm, InOrder
  <2>3. CASE liveq' = Append(liveq, peers + 1)
    <3>1. /\ Len(liveq') = Len(liveq) + 1 /\ liveq'[Len(liveq) + 1] = peers + 1
          /\ \A i \in 1..Len(liveq) : liveq'[i] = liveq[i]
      <4>1. liveq \in Seq(Nat) /\ peers + 1 \in Nat
        BY <1>1
      <4> QED BY <2>3, <4>1
    <3> SUFFICES ASSUME NEW i \in 1..(Len(liveq) + 1)
                 PROVE  liveq'[i] = peers' - Len(liveq') + i
      BY <3>1 DEF InOrder
    <3>2. CASE i = Len(liveq) + 1
      BY <1>1, <2>1, <3>1, <3>2
    <3>3. CASE i \in 1..Len(liveq)
      <4>1. liveq[i] = peers - Len(liveq) + i
        BY <3>3 DEF InOrder
      <4> QED BY <1>1, <2>1, <3>1, <3>3, <4>1
    <3> QED BY <1>1, <3>2, <3>3
  <2> QED BY <2>1, <2>2, <2>3
<1>3. CASE LiveBroadcast
  <2>1. liveq # <<>> /\ liveq' = Tail(liveq) /\ peers' = peers
    BY <1>3 DEF LiveBroadcast, OnDeltaBroadcast
  <2>2. /\ Len(liveq) > 0 /\ Len(liveq') = Len(liveq) - 1
        /\ \A i \in 1..(Len(liveq) - 1) : liveq'[i] = liveq[i + 1]
    BY <1>1, <2>1
  <2> SUFFICES ASSUME NEW i \in 1..(Len(liveq) - 1)
               PROVE  liveq'[i] = peers' - Len(liveq') + i
    BY <2>2 DEF InOrder
  <2>3. i + 1 \in 1..Len(liveq)
    BY <1>1, <2>2
  <2>4. liveq[i + 1] = peers - Len(liveq) + (i + 1)
    BY <2>3 DEF InOrder
  <2> QED BY <1>1, <2>1, <2>2, <2>4
<1>4. CASE UNCHANGED <<peers, liveq>>
  BY <1>4 DEF InOrder
<1> QED BY <1>2, <1>3, <1>4, FramesStep DEF OverflowByOthers, InitialSyncEnds, ReplayEnds, CatchUpFails,
            Replay, OnDeltaBroadcast

LEMMA CalmStays ==
  ASSUME TypeOK, Calm, Next
  PROVE  Calm'
<1> DEFINE Kept ==
  /\ phase' = "syncing" => phase = "syncing" /\ liveq' = liveq
  /\ "dropped" \in lapses' => ("dropped" \in lapses \/ phase = "syncing") /\ overflowed'
  /\ overflowed' => buffered' = <<>>
<1>1. Kept
  <2>1. /\ phase = "syncing" => liveq = <<>>
        /\ "dropped" \in lapses => overflowed
        /\ overflowed => buffered = <<>>
    BY DEF Calm
  <2>2. CASE PeerChange
    <3> DEFINE full == overflowed \/ Len(buffered) >= MaxQueued
    <3>1. CASE QueueBroadcast(peers + 1) /\ full
      <4>1. (overflowed' <=> full) /\ buffered' = <<>> /\ UNCHANGED <<phase, liveq>> /\ phase = "syncing"
        BY <3>1 DEF QueueBroadcast
      <4> QED BY <3>1, <4>1
    <3>2. CASE QueueBroadcast(peers + 1) /\ ~full
      <4>1. (overflowed' <=> full) /\ lapses' = lapses \cup {} /\ UNCHANGED <<phase, liveq>> /\ phase = "syncing"
        BY <3>2 DEF QueueBroadcast
      <4> QED BY <2>1, <3>2, <4>1
    <3>3. CASE EnqueueBroadcast(peers + 1)
      BY <2>1, <3>3 DEF EnqueueBroadcast
    <3> QED BY <2>2, <3>1, <3>2, <3>3 DEF PeerChange
  <2>3. CASE OverflowByOthers \/ InitialSyncEnds \/ ReplayEnds
    BY <2>1, <2>3 DEF OverflowByOthers, InitialSyncEnds, ReplayEnds
  <2>4. ASSUME NEW r \in Chains, CatchUpFails(r) PROVE Kept
    BY <2>1, <2>4 DEF CatchUpFails
  <2>5. CASE LiveBroadcast /\ OnDeltaBroadcast("live", Head(liveq))
    BY <2>1, <2>5 DEF LiveBroadcast, OnDeltaBroadcast
  <2>6. CASE Replay /\ OnDeltaBroadcast("flush", Head(buffered))
    BY <2>1, <2>6 DEF Replay, OnDeltaBroadcast
  <2>7. CASE /\ UNCHANGED <<peers, phase, buffered, overflowed, liveq>>
             /\ lapses \subseteq lapses' /\ ("dropped" \in lapses' => "dropped" \in lapses)
    BY <2>1, <2>7
  <2> QED BY <2>2, <2>3, <2>4, <2>5, <2>6, <2>7, FramesStep
<1>2. phase' = "syncing" => liveq' = <<>>
  BY <1>1 DEF Calm
<1>3. ASSUME phase' = "syncing" \/ "dropped" \in lapses'
      PROVE  catching' = "nobody" /\ \A r \in Chains : run'[r].at = "idle"
  <2>1. phase = "syncing" \/ "dropped" \in lapses
    BY <1>1, <1>3
  <2>2. catching = "nobody" /\ \A r \in Chains : run[r].at = "idle"
    BY <2>1 DEF Calm
  <2>3. \A r \in Chains : ~CatchUpAnswered(r) /\ ~HookReads(r) /\ ~CopyMade(r)
    BY <2>2 DEF CatchUpAnswered, HookReads, CopyMade
  <2>4. ASSUME NEW r \in Chains, NEW n \in 1..peers, OnDeltaBroadcast(r, n), LiveBroadcast \/ Replay PROVE FALSE
    <3>1. "dropped" \notin lapses'
      BY <2>4 DEF OnDeltaBroadcast
    <3>2. phase' # "syncing"
      BY <2>4 DEF LiveBroadcast, Replay, Calm
    <3> QED BY <1>3, <3>1, <3>2
  <2>5. UNCHANGED chains
    BY <2>2, <2>3, <2>4, RunMoves
  <2> QED BY <2>2, <2>5
<1> QED BY <1>1, <1>2, <1>3 DEF Calm

(* Frames that were given up are missed by the next one that arrives: it     *)
(* asks for them, unless it shows that there are none.                       *)
LEMMA BroadcastReaches ==
  ASSUME TypeOK, Calm, InOrder, Reaches, Next, "failed" \notin lapses,
         NEW r \in Chains, NEW n \in 1..peers, OnDeltaBroadcast(r, n),
         \/ r = "live" /\ LiveBroadcast /\ n = Head(liveq)
         \/ r = "flush" /\ Replay /\ n = Head(buffered)
  PROVE  Asking' \/ 1..peers \subseteq doc'.ops \cup InFlight'
<1>1. /\ liveq \in Seq(1..peers) /\ buffered \in Seq(1..peers) /\ peers \in Nat /\ run[r].at = "idle"
  BY Fields DEF TypeOK, LiveBroadcast, Replay
<1>2. InFlight \subseteq InFlight' \cup {n}
  <2>1. liveq # <<>> => Items(liveq) = Items(Tail(liveq)) \cup {Head(liveq)}
    BY <1>1, ItemFacts
  <2>2. buffered # <<>> => Items(buffered) = Items(Tail(buffered)) \cup {Head(buffered)}
    BY <1>1, ItemFacts
  <2>3. \/ n = Head(liveq) /\ liveq # <<>> /\ liveq' = Tail(liveq) /\ UNCHANGED buffered
        \/ n = Head(buffered) /\ buffered # <<>> /\ buffered' = Tail(buffered) /\ UNCHANGED liveq
    BY DEF LiveBroadcast, Replay
  <2> QED BY <2>1, <2>2, <2>3 DEF InFlight, Items
<1>3. /\ doc.ops \subseteq doc'.ops /\ n \in doc'.ops /\ Joined(n).ops \subseteq doc'.ops /\ Joined(n) \in Docs
  BY BroadcastGives
<1>4. CASE Asking
  <2>1. PICK q \in Chains : run[q].at = "asked"
    BY <1>4 DEF Asking
  <2>2. q # r /\ run'[q] = run[q]
    BY <1>1, <2>1, BroadcastMoves
  <2> QED BY <2>1, <2>2 DEF Asking
<1>5. CASE ~Asking /\ "dropped" \notin lapses
  <2>1. {"dropped", "failed"} \cap lapses = {}
    BY <1>5
  <2>2. 1..peers \subseteq doc.ops \cup InFlight
    BY <1>5, <2>1 DEF Reaches
  <2> QED BY <1>2, <1>3, <2>2
<1>6. CASE "dropped" \in lapses
  <2>1. catching = "nobody" /\ buffered = <<>>
    BY <1>6 DEF Calm
  <2>2. r = "live" /\ liveq # <<>> /\ n = Head(liveq) /\ liveq' = Tail(liveq)
    BY <2>1 DEF Replay, LiveBroadcast
  <2>3. CASE Covers(Joined(n), n)
    <3>1. 1..n \subseteq doc'.ops
      BY <1>3, <2>3, TextTyped DEF Covers
    <3>2. Len(liveq) \in Nat /\ Len(liveq) > 0 /\ n = liveq[1] /\ 1 \in 1..Len(liveq)
      BY <1>1, <2>2
    <3>3. n = peers - Len(liveq) + 1
      BY <3>2 DEF InOrder
    <3>4. ASSUME NEW c \in 1..peers, c \notin 1..n PROVE c \in Items(liveq)
      <4> DEFINE i == c - peers + Len(liveq)
      <4>1. i \in 1..Len(liveq) /\ peers - Len(liveq) + i = c
        BY <1>1, <3>2, <3>3, <3>4
      <4>2. liveq[i] = c
        BY <4>1 DEF InOrder
      <4> QED BY <4>1, <4>2 DEF Items
    <3> QED BY <1>2, <1>3, <3>1, <3>4 DEF InFlight
  <2>4. CASE ~Covers(Joined(n), n)
    <3>1. AskServer(r, Text(Base))
      BY <2>1, <2>4 DEF OnDeltaBroadcast, Joined, Base
    <3>2. run'[r].at = "asked"
      <4>1. Text(Base) \in Texts /\ "asked" \in Places /\ {} \in Texts
        BY BroadcastGives, Numbering DEF Places
      <4> QED BY <3>1, <4>1, PlaceGives DEF AskServer
    <3> QED BY <3>2 DEF Asking
  <2> QED BY <2>3, <2>4
<1> QED BY <1>4, <1>5, <1>6

LEMMA ReachesStays ==
  ASSUME TypeOK, Calm, InOrder, Reaches, Next
  PROVE  Reaches'
<1> SUFFICES ASSUME {"dropped", "failed"} \cap lapses' = {}
             PROVE  Asking' \/ 1..peers' \subseteq doc'.ops \cup InFlight'
  BY DEF Reaches
<1>1. "failed" \notin lapses
  BY LapsesGrow
<1>2. /\ liveq \in Seq(1..peers) /\ buffered \in Seq(1..peers) /\ peers \in Nat
  BY Fields DEF TypeOK
<1>3. CASE LiveBroadcast \/ Replay
  <2>1. peers' = peers
    BY <1>3 DEF LiveBroadcast, Replay, OnDeltaBroadcast
  <2>2. \A q \in Seq(1..peers) : q # <<>> => Head(q) \in 1..peers
    BY SequenceFacts
  <2>3. CASE LiveBroadcast
    <3>1. OnDeltaBroadcast("live", Head(liveq)) /\ Head(liveq) \in 1..peers /\ "live" \in Chains
      BY <1>2, <2>2, <2>3 DEF LiveBroadcast, Chains
    <3> QED BY <1>1, <2>1, <2>3, <3>1, BroadcastReaches
  <2>4. CASE Replay
    <3>1. OnDeltaBroadcast("flush", Head(buffered)) /\ Head(buffered) \in 1..peers /\ "flush" \in Chains
      BY <1>2, <2>2, <2>4 DEF Replay, Chains
    <3> QED BY <1>1, <2>1, <2>4, <3>1, BroadcastReaches
  <2> QED BY <1>3, <2>3, <2>4
<1>4. CASE ~LiveBroadcast /\ ~Replay
  <2>1. "dropped" \notin lapses
    <3>1. lapses \subseteq lapses'
      BY <1>4, FramesStep DEF PeerChange, QueueBroadcast, EnqueueBroadcast, OverflowByOthers,
         InitialSyncEnds, ReplayEnds, CatchUpFails
    <3> QED BY <3>1
  <2>2. {"dropped", "failed"} \cap lapses = {}
    BY <1>1, <2>1
  <2>3. Asking \/ 1..peers \subseteq doc.ops \cup InFlight
    BY <2>2 DEF Reaches
  <2>4. CASE PeerChange
    <3>1. peers' = peers + 1 /\ UNCHANGED <<doc, run>> /\ peers + 1 \in Nat
      BY <1>2, <2>4 DEF PeerChange
    <3>2. \/ buffered' = Append(buffered, peers + 1) /\ UNCHANGED liveq
          \/ liveq' = Append(liveq, peers + 1) /\ UNCHANGED buffered
      BY <2>4 DEF PeerChange, QueueBroadcast, EnqueueBroadcast
    <3>3. liveq \in Seq(Nat) /\ buffered \in Seq(Nat)
      BY <1>2
    <3>4. InFlight' = InFlight \cup {peers + 1}
      <4>1. Items(Append(liveq, peers + 1)) = Items(liveq) \cup {peers + 1}
        BY <3>1, <3>3, Appended
      <4>2. Items(Append(buffered, peers + 1)) = Items(buffered) \cup {peers + 1}
        BY <3>1, <3>3, Appended
      <4>3. \/ Items(buffered') = Items(buffered) \cup {peers + 1} /\ Items(liveq') = Items(liveq)
            \/ Items(liveq') = Items(liveq) \cup {peers + 1} /\ Items(buffered') = Items(buffered)
        BY <3>2, <4>1, <4>2, Zenon
      <4> QED BY <4>3 DEF InFlight
    <3>5. \A c \in 1..peers' : c \in 1..peers \/ c = peers + 1
      BY <1>2, <3>1
    <3> QED BY <2>3, <3>1, <3>4, <3>5 DEF Asking
  <2>5. CASE OverflowByOthers
    <3>1. UNCHANGED <<liveq, buffered>> /\ UNCHANGED <<peers, doc, run>>
      BY <2>5 DEF OverflowByOthers
    <3> QED BY <2>3, <3>1 DEF Asking, InFlight, Items
  <2>6. ASSUME NEW r \in Chains PROVE ~CatchUpFails(r)
    BY DEF CatchUpFails
  <2>7. CASE UNCHANGED <<peers, buffered, liveq>>
    <3>1. doc.ops \subseteq doc'.ops /\ InFlight' = InFlight
      BY <2>7, DocGrows DEF InFlight, Items
    <3>2. ASSUME NEW r \in Chains, CatchUpAnswered(r) PROVE 1..peers \subseteq doc'.ops
      BY <3>2, AnswerGives
    <3>3. ASSUME Asking, \A r \in Chains : ~CatchUpAnswered(r) PROVE Asking'
      <4>1. PICK q \in Chains : run[q].at = "asked"
        BY <3>3 DEF Asking
      <4>2. run'[q] = run[q]
        <5>1. ASSUME NEW r \in Chains, HookReads(r) \/ CopyMade(r) PROVE run'[q] = run[q]
          BY <4>1, <5>1, HookMoves
        <5>2. ASSUME NEW r \in Chains, Done(r), ShownIsChecked(r) \/ FileIsChecked(r) PROVE run'[q] = run[q]
          <6>1. q # r
            BY <4>1, <5>2 DEF ShownIsChecked, FileIsChecked
          <6> QED BY <5>2, <6>1, DoneGives
        <5> QED BY <1>4, <2>6, <3>3, <5>1, <5>2, RunMoves
      <4> QED BY <4>1, <4>2 DEF Asking
    <3> QED BY <2>3, <2>7, <3>1, <3>2, <3>3
  <2> QED BY <1>4, <2>4, <2>5, <2>6, <2>7, FramesStep DEF InitialSyncEnds, ReplayEnds
<1> QED BY <1>3, <1>4

LEMMA OwnSeenStays ==
  ASSUME TypeOK, OwnSeen, Next
  PROVE  OwnSeen'
<1> DEFINE Old == doc.ops \cup editor \cup disk \cup lastRemote
           Known(x) == x \cap OwnChanges \subseteq Mine'
<1>1. /\ doc \in Docs /\ Visible \in Texts /\ PeerChanges \cap OwnChanges = {} /\ 1..peers \subseteq PeerChanges
      /\ Closed \cap OwnChanges = {} /\ NotSet \cap OwnChanges = {} /\ {} \in Texts /\ 1..peers \in Texts
      /\ (Open => editor \in Texts)
  BY Fields, Numbering DEF Closed, NotSet, OwnChanges
<1>2. Mine \subseteq Mine' /\ \A c \in OwnChanges : OwnChange(c) => c \in Mine'
  <2>1. own \in Nat /\ MaxPeer \in Nat
    BY Fields
  <2>2. \A c \in OwnChanges : OwnChange(c) => own' = own + 1 /\ c = MaxPeer + own + 1
    BY DEF OwnChange
  <2> QED BY <2>1, <2>2, OwnGrows DEF Mine
<1>3. Known(doc.ops) /\ Known(editor) /\ Known(disk) /\ Known(lastRemote) /\ Known(Visible)
      /\ \A r \in Chains : Known(run[r].content)
  BY <1>2 DEF OwnSeen, Visible
<1>4. ASSUME NEW r \in Chains, NEW n \in 1..peers, OnDeltaBroadcast(r, n)
      PROVE  /\ Known(doc'.ops) /\ Known(editor') /\ Known(lastRemote')
             /\ \A q \in Chains : Known(run'[q].content)
  <2>1. /\ Base \in Docs /\ Joined(n) \in Docs /\ Joined(n).ops = Base.ops \cup {n}
        /\ Text(Joined(n)) \in Texts /\ Text(Base) \in Texts
        /\ doc' = Joined(n) \/ doc' = Flushed(Joined(n))
    BY <1>4, BroadcastGives
  <2>2. Known(Joined(n).ops)
    <3>1. Base.ops \subseteq doc.ops \cup Visible
      BY <1>1, FlushGives DEF Base, Visible
    <3> QED BY <1>1, <1>3, <2>1, <3>1
  <2>3. Known(Flushed(Joined(n)).ops)
    <3>1. Flushed(Joined(n)).ops \subseteq Joined(n).ops \cup Visible
      BY <1>1, <2>1, FlushGives DEF Visible
    <3> QED BY <1>3, <2>2, <3>1
  <2>4. Known(Text(Joined(n)))
    BY <2>1, <2>2, TextTyped
  <2>5. "asked" \in Places /\ "hook" \in Places
    BY DEF Places
  <2>6. /\ \A q \in Chains : q # r => run'[q] = run[q]
        /\ \/ AskServer(r, Text(Base))
           \/ ApplyToEditor(r, Text(Joined(n)) \ Text(Base))
           \/ Rewrite(r, Text(Joined(n)), Text(Base)) /\ UNCHANGED editor
           \/ /\ run' = [run EXCEPT ![r] = [at |-> "hook", content |-> Text(Joined(n)), before |-> Text(Base)]]
              /\ UNCHANGED <<editor, lastRemote>>
    BY <1>4, BroadcastGives, BroadcastMoves
  <2>7. CASE AskServer(r, Text(Base))
    <3>1. UNCHANGED <<editor, lastRemote>> /\ run'[r].content = {}
      BY <1>1, <2>1, <2>5, <2>7, PlaceGives DEF AskServer
    <3> QED BY <1>3, <2>1, <2>2, <2>3, <2>6, <3>1
  <2>8. CASE ApplyToEditor(r, Text(Joined(n)) \ Text(Base))
    <3>1. /\ editor' = editor \cup (Text(Joined(n)) \ Text(Base)) /\ lastRemote' = editor' /\ run'[r].content = {}
      BY <2>8, DoneGives DEF ApplyToEditor, Idle
    <3> QED BY <1>3, <2>1, <2>2, <2>3, <2>4, <2>6, <3>1
  <2>9. CASE Rewrite(r, Text(Joined(n)), Text(Base)) /\ UNCHANGED editor
    <3>1. run'[r].content = Text(Joined(n)) /\ (lastRemote' = Text(Joined(n)) \/ lastRemote' = lastRemote)
      BY <2>1, <2>9, RewriteGives
    <3> QED BY <1>3, <2>1, <2>2, <2>3, <2>4, <2>6, <2>9, <3>1
  <2>10. CASE /\ run' = [run EXCEPT ![r] = [at |-> "hook", content |-> Text(Joined(n)), before |-> Text(Base)]]
              /\ UNCHANGED <<editor, lastRemote>>
    <3>1. run'[r].content = Text(Joined(n))
      BY <2>1, <2>5, <2>10, PlaceGives
    <3> QED BY <1>3, <2>1, <2>2, <2>3, <2>4, <2>6, <2>10, <3>1
  <2> QED BY <2>6, <2>7, <2>8, <2>9, <2>10
<1>5. ASSUME NEW r \in Chains, CatchUpAnswered(r)
      PROVE  /\ Known(doc'.ops) /\ Known(editor') /\ Known(lastRemote')
             /\ \A q \in Chains : Known(run'[q].content)
  <2>1. /\ Caught \in Docs /\ Caught.ops = doc.ops \cup 1..peers /\ Text(Caught) \in Texts
        /\ \A q \in Chains : q # r => run'[q] = run[q]
        /\ run[r].before \in Texts /\ "hook" \in Places
    BY <1>5, AnswerGives, AnswerMoves, RunTyped DEF Places
  <2>2. Known(Caught.ops) /\ Known(Text(Caught))
    BY <1>1, <1>3, <2>1, TextTyped
  <2>3. CASE /\ doc' = Synced(Caught, editor') /\ editor' = editor \cup (Text(Caught) \ Text(doc))
             /\ editor' \in Texts /\ lastRemote' = editor' /\ Done(r)
    <3>1. doc'.ops = Caught.ops \cup editor' /\ run'[r].content = {}
      <4>1. \A x \in Texts : Synced(Caught, x).ops = Caught.ops \cup x
        BY <2>1, PushGives
      <4> QED BY <2>3, <4>1, DoneGives DEF Idle
    <3>2. Known(editor')
      BY <1>3, <2>2, <2>3
    <3> QED BY <1>3, <2>1, <2>2, <2>3, <3>1, <3>2
  <2>4. CASE doc' = Caught /\ Rewrite(r, Text(Caught), run[r].before) /\ UNCHANGED editor
    <3>1. run'[r].content = Text(Caught) /\ (lastRemote' = Text(Caught) \/ lastRemote' = lastRemote)
      BY <2>1, <2>4, RewriteGives
    <3> QED BY <1>3, <2>1, <2>2, <2>4, <3>1
  <2>5. CASE /\ doc' = Caught /\ UNCHANGED <<editor, lastRemote>>
             /\ run' = [run EXCEPT ![r] = [at |-> "hook", content |-> Text(Caught), before |-> run[r].before]]
    <3>1. run'[r].content = Text(Caught)
      BY <2>1, <2>5, PlaceGives
    <3> QED BY <1>3, <2>1, <2>2, <2>5, <3>1
  <2> QED BY <1>5, <2>3, <2>4, <2>5, AnswerGives
<1>6. Known(doc'.ops)
  <2>1. CASE doc' = Pushed(doc, Visible)
    <3>1. doc'.ops = doc.ops \cup Visible
      BY <1>1, <2>1, PushGives
    <3> QED BY <1>3, <3>1
  <2> QED BY <1>3, <1>4, <1>5, <2>1, DocChanges
<1>7. Known(editor')
  <2>1. UNCHANGED editor \/ Type \/ OpenNote \/ CloseNote \/ LiveBroadcast \/ Replay
        \/ \E r \in Chains : CatchUpAnswered(r) \/ FileIsChecked(r)
    BY DEF Next, PeerChange, OverflowByOthers, InitialSyncEnds, ReplayEnds, CatchUpFails,
       HookReads, CopyMade, ShownIsChecked, DebounceFires, AutoSave, ChangePane,
       ExternalEdit, PlainRead, GuardedRead, WindowEnds, ScanStarts, ScanReads
  <2>2. ASSUME NEW r \in Chains, FileIsChecked(r) PROVE Known(editor')
    BY <1>3, <2>2 DEF FileIsChecked
  <2>3. CASE Type
    BY <1>2, <1>3, <2>3 DEF Type
  <2>4. CASE OpenNote
    BY <1>3, <2>4 DEF OpenNote
  <2>5. CASE CloseNote
    BY <1>1, <2>5 DEF CloseNote
  <2> QED BY <1>3, <1>4, <1>5, <2>1, <2>2, <2>3, <2>4, <2>5, BroadcastStep
<1>8. Known(disk')
  <2>1. ExternalEdit => \E c \in OwnChanges : OwnChange(c) /\ disk' = disk \cup {c}
    BY DEF ExternalEdit
  <2> QED BY <1>2, <1>3, <2>1, DiskChanges
<1>9. Known(lastRemote')
  <2>1. \/ UNCHANGED lastRemote \/ lastRemote' = NotSet \/ LiveBroadcast \/ Replay
        \/ \E r \in Chains : CatchUpAnswered(r) \/ HookReads(r) \/ CopyMade(r) \/ FileIsChecked(r)
    BY DEF Next, PeerChange, OverflowByOthers, InitialSyncEnds, ReplayEnds, CatchUpFails, PushFile,
       ShownIsChecked, DebounceFires, AutoSave, ChangePane, Type, OpenNote, CloseNote,
       ExternalEdit, PlainRead, GuardedRead, WindowEnds, ScanStarts, ScanReads
  <2>2. ASSUME NEW r \in Chains, HookReads(r) \/ CopyMade(r) \/ FileIsChecked(r)
        PROVE  lastRemote' = lastRemote \/ lastRemote' = run[r].content
    BY <2>2 DEF HookReads, CopyMade, FileIsChecked, Rewrite
  <2> QED BY <1>1, <1>3, <1>4, <1>5, <2>1, <2>2, BroadcastStep
<1>10. ASSUME NEW q \in Chains PROVE Known(run'[q].content)
  <2>1. CASE UNCHANGED chains
    BY <1>3, <2>1
  <2>2. ASSUME NEW r \in Chains, HookReads(r) \/ CopyMade(r)
        PROVE  run'[q].content = run[q].content
    BY <2>2, HookMoves
  <2>3. ASSUME NEW r \in Chains, Done(r)
        PROVE  run'[q].content = run[q].content \/ run'[q].content = {}
    BY <2>3, DoneGives DEF Idle
  <2> QED BY <1>3, <1>4, <1>5, <2>1, <2>2, <2>3, RunMoves
<1> HIDE DEF Known
<1>11. /\ Known(doc'.ops) /\ Known(editor') /\ Known(disk') /\ Known(lastRemote')
       /\ \A r \in Chains : Known(run'[r].content)
  BY <1>6, <1>7, <1>8, <1>9, <1>10
<1> QED BY <1>11 DEF Known, OwnSeen

(* What is visible and in the document stays in the document: a push and a   *)
(* broadcast put the visible text there as it is, and so does an answer.     *)
LEMMA TextKeeps ==
  ASSUME TypeOK, PeersSeen, Next
  PROVE  /\ Visible \cap Text(doc) \subseteq Text(doc)'
         /\ doc' = Pushed(doc, Visible) /\ UNCHANGED linked => Text(doc)' = Visible
         /\ \A r \in Chains : \A n \in 1..peers : Open /\ OnDeltaBroadcast(r, n) => Visible \subseteq Text(doc)'
<1>1. doc \in Docs /\ Visible \in Texts /\ (Open => Visible = editor)
  BY Fields DEF Visible
<1>2. ASSUME NEW d, doc' = d, UNCHANGED linked PROVE Text(doc)' = Text(d)
  BY <1>2 DEF Text, Applied
<1>3. ASSUME doc' = Pushed(doc, Visible), UNCHANGED linked PROVE Text(doc)' = Visible
  <2>1. Visible \cap PeerChanges \subseteq Applied(doc)
    BY DEF PeersSeen, Visible
  <2> QED BY <1>1, <1>2, <1>3, <2>1, SyncedShows
<1>4. ASSUME NEW r \in Chains, NEW n \in 1..peers, OnDeltaBroadcast(r, n)
      PROVE  /\ Visible \cap Text(doc) \subseteq Text(doc)'
             /\ Open => Visible \subseteq Text(doc)'
  <2>1. UNCHANGED linked /\ (doc' = Joined(n) \/ doc' = Flushed(Joined(n)))
    BY <1>4, BroadcastGives DEF OnDeltaBroadcast
  <2>2. Text(doc)' = Text(Joined(n)) \/ Text(doc)' = Text(Flushed(Joined(n)))
    BY <1>2, <2>1
  <2> QED BY <1>1, <1>4, <2>2, BaseShows
<1>5. ASSUME NEW r \in Chains, CatchUpAnswered(r) PROVE Visible \cap Text(doc) \subseteq Text(doc)'
  <2>1. CASE doc' = Caught
    <3>1. Caught \in Docs /\ doc.ops \subseteq Caught.ops /\ Caught.deleted = doc.deleted /\ UNCHANGED linked
      BY <1>5, AnswerGives DEF CatchUpAnswered
    <3> QED BY <1>1, <1>2, <2>1, <3>1, AppliedGrows DEF Text
  <2>2. CASE doc' # Caught
    <3>1. Open /\ doc' = Synced(Caught, editor') /\ editor' = editor \cup (Text(Caught) \ Text(doc))
          /\ editor' \in Texts /\ UNCHANGED linked
      BY <1>5, <2>2, AnswerGives DEF CatchUpAnswered
    <3>2. Text(Synced(Caught, editor')) = editor'
      BY <1>5, <3>1, CaughtShows
    <3>3. Text(doc)' = editor'
      BY <3>1, <3>2 DEF Text, Applied
    <3> QED BY <1>1, <3>1, <3>3
  <2> QED BY <2>1, <2>2
<1>6. ASSUME UNCHANGED doc PROVE Visible \cap Text(doc) \subseteq Text(doc)'
  BY <1>6, AppliedStays
<1>7. ASSUME doc' = Pushed(doc, Visible), UNCHANGED remote PROVE Visible \cap Text(doc) \subseteq Text(doc)'
  BY <1>3, <1>7
<1>8. Visible \cap Text(doc) \subseteq Text(doc)'
  BY <1>4, <1>5, <1>6, <1>7, DocChanges
<1> QED BY <1>3, <1>4, <1>8

(* What a push of the visible text does, or leaves as it is because it was   *)
(* written for another device.                                               *)
LEMMA PushFileShows ==
  ASSUME TypeOK, PeersSeen, EchoKnown, Next, ~Lapsed, UNCHANGED linked,
         NEW read, PushFile(read), ~Open => read = disk
  PROVE  Visible \subseteq Text(doc)'
<1>1. doc' = IF lastRemote = Visible THEN doc ELSE Pushed(doc, Visible)
  BY DEF PushFile, Visible
<1>2. CASE doc' = Pushed(doc, Visible)
  BY <1>2, TextKeeps
<1>3. CASE lastRemote = Visible /\ UNCHANGED doc
  <2>1. Text(doc)' = Text(doc)
    BY <1>3, AppliedStays
  <2> QED BY <1>3, <2>1 DEF EchoKnown
<1> QED BY <1>1, <1>2, <1>3

(* What gets visible is in the document, or was just written here.           *)
LEMMA VisibleNews ==
  ASSUME TypeOK, PeersSeen, Next, ~Astray', NEW y \in Visible', y \notin Visible
  PROVE  \/ y \in Text(doc)'
         \/ y \in OwnChanges /\ y \notin Mine /\ (Type \/ ExternalEdit)
<1>1. /\ (Open => editor \in Texts /\ Visible = editor) /\ (~Open => Visible = disk)
      /\ (Open' => Visible' = editor') /\ (~Open' => Visible' = disk')
  BY Fields DEF Visible
<1>12. ~OpenNote /\ ~CloseNote => (Open' <=> Open)
  BY <1>1, EditorChanges, Numbering DEF Open
<1>2. ASSUME NEW c \in OwnChanges, OwnChange(c) PROVE c \notin Mine
  <2>1. c = MaxPeer + own + 1 /\ own \in Nat /\ MaxPeer \in Nat
    BY <1>2, Fields DEF OwnChange
  <2> QED BY <2>1 DEF Mine
<1>3. ASSUME NEW r \in Chains, ShownIsChecked(r) \/ FileIsChecked(r) PROVE y \in Text(doc)'
  <2>1. /\ UNCHANGED <<doc, linked>>
        /\ \/ UNCHANGED <<editor, disk>>
           \/ Open /\ editor' = Text(doc) /\ UNCHANGED disk
           \/ UNCHANGED editor /\ disk' = Text(doc)
    BY <1>3, WholeWrite
  <2>2. Text(doc)' = Text(doc)
    BY <2>1 DEF Text, Applied
  <2>3. Open' <=> Open
    <3>1. Text(doc) \in Texts
      BY TextTyped, Fields
    <3> QED BY <2>1, <3>1, Numbering DEF Open
  <2> QED BY <1>1, <2>1, <2>2, <2>3
<1>4. ASSUME NEW r \in Chains, NEW n \in 1..peers, OnDeltaBroadcast(r, n) PROVE y \in Text(doc)'
  <2>1. /\ UNCHANGED <<linked, disk>>
        /\ \/ UNCHANGED editor
           \/ /\ Open /\ doc' = Joined(n)
              /\ editor' = editor \cup (Text(Joined(n)) \ Text(Base))
    BY <1>4, BroadcastLeaves
  <2>2. ~UNCHANGED editor
    BY <1>1, <2>1 DEF Open
  <2>3. Text(doc)' = Text(Joined(n))
    BY <2>1, <2>2 DEF Text, Applied
  <2>4. Open'
    <3>1. Text(Joined(n)) \in Texts /\ editor \in Texts
      BY <1>1, <1>4, <2>1, <2>2, BroadcastGives
    <3>2. editor' \in Texts
      BY <2>1, <2>2, <3>1 DEF Texts
    <3> QED BY <3>2, Numbering DEF Open
  <2> QED BY <1>1, <2>1, <2>2, <2>3, <2>4
<1>5. ASSUME NEW r \in Chains, CatchUpAnswered(r) PROVE y \in Text(doc)'
  <2>1. CASE UNCHANGED editor
    <3>1. UNCHANGED disk
      BY <1>5, AnswerLeaves
    <3> QED BY <1>1, <2>1, <3>1 DEF Open
  <2>2. CASE ~UNCHANGED editor
    <3>1. editor' \in Texts /\ Text(doc)' = editor'
      BY <1>5, <2>2, AnswerLeaves
    <3>2. Open'
      BY <3>1, Numbering DEF Open
    <3> QED BY <1>1, <3>1, <3>2
  <2> QED BY <2>1, <2>2
<1>6. CASE Type
  <2>1. PICK c \in OwnChanges : OwnChange(c) /\ editor' = editor \cup {c}
    BY <1>6 DEF Type
  <2>2. front /\ UNCHANGED disk /\ ~OpenNote /\ ~CloseNote
    BY <1>6 DEF Type, OpenNote, CloseNote, OwnChange
  <2>3. Open /\ Open'
    BY <1>12, <2>2, Fields
  <2> QED BY <1>1, <1>2, <1>6, <2>1, <2>3
<1>7. CASE ExternalEdit
  BY <1>1, <1>2, <1>7 DEF ExternalEdit, Open
<1>8. CASE OpenNote \/ CloseNote
  BY <1>1, <1>8 DEF OpenNote, CloseNote, Open
<1>9. CASE AutoSave
  BY <1>1, <1>9 DEF AutoSave, Open
<1>10. UNCHANGED <<editor, disk>> \/ Type \/ ExternalEdit \/ OpenNote \/ CloseNote \/ AutoSave \/ LiveBroadcast
       \/ Replay \/ \E r \in Chains : CatchUpAnswered(r) \/ ShownIsChecked(r) \/ FileIsChecked(r)
  BY DEF Next, PeerChange, OverflowByOthers, InitialSyncEnds, ReplayEnds, CatchUpFails,
     HookReads, CopyMade, DebounceFires, ChangePane, PlainRead, GuardedRead, WindowEnds, ScanStarts, ScanReads
<1>11. CASE UNCHANGED <<editor, disk>>
  BY <1>1, <1>11 DEF Open
<1> QED BY <1>3, <1>4, <1>5, <1>6, <1>7, <1>8, <1>9, <1>10, <1>11, BroadcastStep

(* What is written for another device is what the document shows.            *)
LEMMA RemoteStep ==
  ASSUME TypeOK, PeersSeen, WholeWrites, Next, ~Astray'
  PROVE  UNCHANGED lastRemote \/ lastRemote' = NotSet \/ lastRemote' \subseteq Text(doc)'
<1>1. /\ (Open => editor \in Texts) /\ \A x \in Texts : x # Closed
      /\ \A r \in Chains : run[r].content \in Texts /\ run[r].before \in Texts
  BY Fields, Numbering, RunTyped
<1>2. ASSUME NEW r \in Chains, NEW n \in 1..peers, OnDeltaBroadcast(r, n)
      PROVE  UNCHANGED lastRemote \/ lastRemote' \subseteq Text(doc)'
  <2>1. /\ UNCHANGED linked /\ Text(Base) \in Texts /\ Text(Joined(n)) \in Texts
        /\ Open => Text(Base) = editor /\ Text(Base) \subseteq Text(Joined(n))
    BY <1>2, BroadcastGives, BaseShows DEF OnDeltaBroadcast
  <2>2. \/ UNCHANGED lastRemote
        \/ doc' = Joined(n) /\ Open /\ lastRemote' = editor \cup (Text(Joined(n)) \ Text(Base))
        \/ doc' = Joined(n) /\ lastRemote' = Text(Joined(n))
    BY <1>2, BroadcastGives DEF AskServer, ApplyToEditor, Rewrite
  <2>3. doc' = Joined(n) => Text(doc)' = Text(Joined(n))
    BY <2>1 DEF Text, Applied
  <2> QED BY <2>1, <2>2, <2>3
<1>3. ASSUME NEW r \in Chains, CatchUpAnswered(r)
      PROVE  UNCHANGED lastRemote \/ lastRemote' \subseteq Text(doc)'
  <2>1. UNCHANGED linked
    BY <1>3, AnswerLeaves
  <2>2. CASE doc' = Caught
    <3>1. Text(doc)' = Text(Caught)
      BY <2>1, <2>2 DEF Text, Applied
    <3>2. CASE UNCHANGED lastRemote \/ lastRemote' = Text(Caught)
      BY <3>1, <3>2
    <3>3. CASE /\ Open /\ doc' = Synced(Caught, editor') /\ editor' = editor \cup (Text(Caught) \ Text(doc))
               /\ editor' \in Texts /\ lastRemote' = editor'
      <4>1. Text(Synced(Caught, editor')) = editor'
        BY <1>3, <3>3, CaughtShows
      <4>2. Text(doc)' = Text(Synced(Caught, editor'))
        BY <2>1, <3>3 DEF Text, Applied
      <4> QED BY <3>3, <4>1, <4>2
    <3> QED BY <1>3, <3>2, <3>3, AnswerGives DEF Rewrite
  <2>3. CASE doc' # Caught
    <3>1. /\ Open /\ doc' = Synced(Caught, editor') /\ editor' = editor \cup (Text(Caught) \ Text(doc))
          /\ editor' \in Texts /\ lastRemote' = editor'
      BY <1>3, <2>3, AnswerGives
    <3>2. Text(Synced(Caught, editor')) = editor'
      BY <1>3, <3>1, CaughtShows
    <3>3. Text(doc)' = Text(Synced(Caught, editor'))
      BY <2>1, <3>1 DEF Text, Applied
    <3> QED BY <3>1, <3>2, <3>3
  <2> QED BY <2>2, <2>3
<1>4. ASSUME NEW r \in Chains, HookReads(r) \/ CopyMade(r) PROVE UNCHANGED lastRemote
  <2>1. ~Open
    BY <1>4 DEF WholeWrites, HookReads, CopyMade
  <2>2. editor # run[r].content
    BY <1>1, <2>1 DEF Open
  <2> QED BY <1>4, <2>2 DEF HookReads, CopyMade, Rewrite
<1>5. ASSUME NEW r \in Chains, FileIsChecked(r)
      PROVE  UNCHANGED lastRemote \/ lastRemote' \subseteq Text(doc)'
  <2>1. /\ UNCHANGED <<doc, linked>>
        /\ UNCHANGED lastRemote \/ (lastRemote' = run[r].content /\ lapses' = lapses \cup Overtaken(run[r].content))
    BY <1>5 DEF FileIsChecked
  <2>2. lapses' = lapses \cup Overtaken(run[r].content) => run[r].content = Text(doc)
    BY DEF Overtaken, Astray
  <2>3. Text(doc)' = Text(doc)
    BY <2>1 DEF Text, Applied
  <2> QED BY <2>1, <2>2, <2>3
<1>6. \/ UNCHANGED lastRemote \/ lastRemote' = NotSet \/ LiveBroadcast \/ Replay
      \/ \E r \in Chains : CatchUpAnswered(r) \/ HookReads(r) \/ CopyMade(r) \/ FileIsChecked(r)
  BY DEF Next, PeerChange, OverflowByOthers, InitialSyncEnds, ReplayEnds, CatchUpFails, PushFile,
     ShownIsChecked, DebounceFires, AutoSave, ChangePane, Type, OpenNote, CloseNote,
     ExternalEdit, PlainRead, GuardedRead, WindowEnds, ScanStarts, ScanReads
<1> QED BY <1>2, <1>3, <1>4, <1>5, <1>6, BroadcastStep

LEMMA EchoKnownStays ==
  ASSUME TypeOK, PeersSeen, Settled, OwnSeen, EchoKnown, Next
  PROVE  EchoKnown'
<1> SUFFICES ASSUME ~Lapsed', NEW y \in lastRemote', y \in Visible' PROVE y \in Text(doc)'
  BY DEF EchoKnown
<1>1. ~Lapsed /\ ~Astray' /\ ~Astray
  BY LapsesGrow DEF Lapsed, Astray
<1>2. WholeWrites
  BY <1>1 DEF Settled
<1>3. CASE lastRemote' \subseteq Text(doc)'
  BY <1>3
<1>4. CASE lastRemote' = NotSet
  <2>1. Visible' \in Texts
    BY NoteTyped DEF Visible, Open
  <2> QED BY <1>4, <2>1, Numbering DEF NotSet, Texts, Changes, PeerChanges, OwnChanges
<1>5. CASE UNCHANGED lastRemote
  <2>1. CASE y \in Visible
    <3>1. y \in Text(doc)
      BY <1>1, <1>5, <2>1 DEF EchoKnown
    <3> QED BY <2>1, <3>1, TextKeeps
  <2>2. CASE y \notin Visible
    <3>1. y \in OwnChanges => y \in Mine
      BY <1>5 DEF OwnSeen
    <3> QED BY <1>1, <2>2, <3>1, VisibleNews
  <2> QED BY <2>1, <2>2
<1> QED BY <1>1, <1>2, <1>3, <1>4, <1>5, RemoteStep

(* What is written here is noticed, unless it lapses.                        *)
LEMMA NewIsOwed ==
  ASSUME TypeOK, Next, ~Lapsed', Type \/ ExternalEdit, NEW y \in Visible', y \notin Visible
  PROVE  Waited(y)'
<1>1. CASE Type
  <2>1. ~writing
    BY <1>1 DEF Type, Lapsed
  <2>2. timer'
    BY <1>1, <2>1 DEF Type
  <2> QED BY <2>2 DEF Waited
<1>2. CASE ExternalEdit
  <2>1. ~Open /\ UNCHANGED editor /\ Modified(writing, FALSE)
    BY <1>2 DEF ExternalEdit
  <2>2. ~Open' /\ y \in disk'
    BY <2>1 DEF Visible, Open
  <2>3. "suppressed" \notin lapses'
    BY DEF Lapsed
  <2>4. "plain" \in reads' \/ "guarded" \in reads'
    BY <2>1, <2>3 DEF Modified
  <2> QED BY <2>2, <2>4 DEF Waited
<1> QED BY <1>1, <1>2

LEMMA OwedStays ==
  ASSUME TypeOK, PeersSeen, Settled, OwnSeen, EchoKnown, Owed, Next
  PROVE  Owed'
<1> SUFFICES ASSUME ~Lapsed', NEW y \in Visible', y \notin Text(doc)' PROVE Waited(y)'
  BY DEF Owed
<1>1. ~Lapsed /\ ~Astray' /\ ~Astray
  BY LapsesGrow DEF Lapsed, Astray
<1>2. WholeWrites /\ (Open => Visible = editor) /\ (~Open => Visible = disk)
      /\ (Open' => Visible' = editor') /\ (~Open' => Visible' = disk')
  BY <1>1 DEF Settled, Visible
<1>3. CASE y \notin Visible
  BY <1>1, <1>3, NewIsOwed, VisibleNews
<1>4. CASE y \in Visible
  <2>1. y \notin Text(doc) /\ Waited(y)
    BY <1>1, <1>4, TextKeeps DEF Owed
  <2>2. y \notin lastRemote
    BY <1>1, <1>4, <2>1 DEF EchoKnown
  <2>3. ASSUME NEW read, PushFile(read), ~Open => read = disk, UNCHANGED linked PROVE FALSE
    BY <1>1, <1>4, <2>3, PushFileShows
  <2>4. ASSUME NEW r \in Chains, NEW n \in 1..peers, OnDeltaBroadcast(r, n) PROVE ~Open
    BY <1>4, <2>4, TextKeeps
  <2>5. CASE timer
    <3>1. CASE DebounceFires
      <4>1. ~Open /\ UNCHANGED <<editor, disk, reads, run>>
        BY <2>3, <3>1 DEF DebounceFires
      <4>2. reads = {} /\ disk # Text(doc) => "closed" \in lapses'
        BY <3>1, <4>1 DEF DebounceFires
      <4>3. y \in disk /\ reads # {} /\ "closed" \notin lapses'
        BY <1>2, <1>4, <2>1, <4>1, <4>2 DEF Lapsed
      <4>4. "plain" \in reads \/ "guarded" \in reads
        BY <4>3, Fields
      <4> QED BY <4>1, <4>3, <4>4 DEF Waited, Open
    <3>2. CASE ~DebounceFires
      <4>1. UNCHANGED timer \/ Type \/ \E r \in Chains : \E n \in 1..peers : OnDeltaBroadcast(r, n)
        BY <3>2, BroadcastStep DEF Next, PeerChange, OverflowByOthers, InitialSyncEnds, ReplayEnds, CatchUpFails,
           CatchUpAnswered, HookReads, CopyMade, FileIsChecked, ShownIsChecked, AutoSave, ChangePane, OpenNote,
           CloseNote, ExternalEdit, PlainRead, GuardedRead, WindowEnds, ScanStarts, ScanReads
      <4>2. timer'
        BY <2>4, <2>5, <4>1 DEF Type, OnDeltaBroadcast, TimerAfterFlush
      <4> QED BY <4>2 DEF Waited
    <3> QED BY <3>1, <3>2
  <2>6. CASE "plain" \in reads
    <3>1. ~PlainRead
      BY <2>3 DEF PlainRead
    <3>2. "plain" \in reads'
      BY <2>6, <3>1 DEF Next, PeerChange, OverflowByOthers, InitialSyncEnds, ReplayEnds, LiveBroadcast, Replay,
         OnDeltaBroadcast, CatchUpFails, CatchUpAnswered, HookReads, CopyMade, ModifyFile, Modified, FileIsChecked,
         ShownIsChecked, Type, DebounceFires, AutoSave, ChangePane, OpenNote, CloseNote, ExternalEdit, GuardedRead,
         WindowEnds, ScanStarts, ScanReads
    <3> QED BY <3>2 DEF Waited
  <2>7. CASE "guarded" \in reads /\ y \in disk /\ ~(Open /\ Outstanding)
    <3>1. ~GuardedRead
      <4>1. SUFFICES ASSUME GuardedRead PROVE FALSE
        OBVIOUS
      <4>2. ~(lastRemote # disk /\ Accepts /\ ~Open)
        BY <2>3, <4>1 DEF GuardedRead
      <4>3. lastRemote # disk
        BY <2>2, <2>7
      <4>4. "opened" \in lapses' \/ "suppressed" \in lapses'
        BY <4>1, <4>2, <4>3 DEF GuardedRead
      <4> QED BY <4>4 DEF Lapsed
    <3>2. "guarded" \in reads'
      BY <2>7, <3>1 DEF Next, PeerChange, OverflowByOthers, InitialSyncEnds, ReplayEnds, LiveBroadcast, Replay,
         OnDeltaBroadcast, CatchUpFails, CatchUpAnswered, HookReads, CopyMade, ModifyFile, Modified, FileIsChecked,
         ShownIsChecked, Type, DebounceFires, AutoSave, ChangePane, OpenNote, CloseNote, ExternalEdit, PlainRead,
         WindowEnds, ScanStarts, ScanReads
    <3>3. y \in disk'
      <4>1. CASE ExternalEdit
        BY <2>7, <4>1 DEF ExternalEdit
      <4>2. CASE Open /\ disk' = editor
        BY <1>2, <1>4, <4>2
      <4>3. ASSUME NEW r \in Chains, run[r].at \in {"shown", "checked"}, ~UNCHANGED disk,
                   ShownIsChecked(r) \/ FileIsChecked(r)
            PROVE  FALSE
        <5>1. ~Open /\ UNCHANGED editor
          BY <1>1, <2>7, <4>3, WholeWrite DEF Outstanding
        <5>2. disk' = Text(doc) /\ UNCHANGED <<doc, linked>>
          BY <1>1, <4>3, WholeWrite
        <5>3. Text(doc)' = disk'
          BY <5>2 DEF Text, Applied
        <5> QED BY <1>2, <5>1, <5>3 DEF Open
      <4> QED BY <2>7, <4>1, <4>2, <4>3, DiskChanges
    <3>4. ~(Open' /\ Outstanding')
      <4>1. CASE ~Open
        BY <1>1, <4>1, OpenedQuietly DEF OpenNote, Outstanding
      <4>2. CASE Open
        <5>1. ~Outstanding
          BY <2>7, <4>2
        <5>2. ASSUME NEW r \in Chains PROVE run[r].at = "idle"
          BY <5>1 DEF Outstanding
        <5>3. UNCHANGED chains
          BY <2>4, <4>2, <5>2, RunMoves DEF CatchUpAnswered, HookReads, CopyMade
        <5> QED BY <5>1, <5>3 DEF Outstanding
      <4> QED BY <4>1, <4>2
    <3> QED BY <3>2, <3>3, <3>4 DEF Waited
  <2> QED BY <2>1, <2>5, <2>6, <2>7 DEF Waited
<1> QED BY <1>3, <1>4

---------------------------------------------------------------------------
(* The inductive invariant.                                                  *)
Converging == SentAll /\ InOrder /\ Calm /\ Reaches /\ OwnSeen /\ EchoKnown /\ Owed
IInv == TypeOK /\ Shown /\ Carried /\ PeersSeen /\ Settled /\ Converging

LEMMA InitInv ==
  ASSUME Init
  PROVE  IInv
<1>1. PICK n \in {0, 1} \cap 0..MaxQueued \cap 0..MaxPeer :
        /\ peers = n /\ linked = {}
        /\ doc = [ops |-> 1..n, deleted |-> {}, sent |-> {}]
        /\ editor \in {Closed, 1..n} /\ front = Open /\ disk = 1..n /\ copies = {} /\ own = 0
        /\ phase = "syncing" /\ buffered = [i \in 1..n |-> i] /\ overflowed = FALSE /\ liveq = <<>>
        /\ run = [r \in Chains |-> Idle] /\ catching = "nobody"
        /\ timer = FALSE /\ writing = FALSE /\ lastRemote = IF n = 0 THEN NotSet ELSE 1..n
        /\ reads = {} /\ scanning = FALSE /\ touched = TRUE
        /\ exposed = {} /\ lapses = {} /\ faults = 0
  BY DEF Init
<1>2. /\ n \in 0..MaxPeer /\ n \in 0..MaxQueued /\ n \in Nat /\ 1..n \in Texts /\ {} \in Texts
      /\ 0 \in 0..MaxOwn /\ 0 \in 0..MaxFaults /\ 1..n \subseteq PeerChanges /\ 1..n # Closed
  BY <1>1, Numbering
<1>3. Idle \in Runs /\ "nobody" \in Chains \cup {"nobody"}
  BY <1>2 DEF Idle, Runs, Places
<1>4. buffered \in Seq(1..peers) /\ Len(buffered) <= MaxQueued
  <2>1. CASE n = 0
    <3>1. 1..n = {}
      BY <2>1
    <3>2. buffered = <<>>
      BY <1>1, <3>1
    <3> QED BY <1>2, <3>2
  <2>2. CASE n = 1
    BY <1>1, <1>2, <2>2
  <2> QED BY <1>1, <2>1, <2>2
<1>5. TypeOK
  <2>1. /\ peers \in 0..MaxPeer /\ linked \subseteq 1..peers
        /\ doc \in [ops : Texts, deleted : Texts, sent : SUBSET OwnChanges] /\ doc.sent \subseteq doc.ops
        /\ editor \in Texts \cup {Closed} /\ disk \in Texts /\ copies \in Texts
        /\ front \in BOOLEAN /\ (front => Open) /\ own \in 0..MaxOwn
    BY <1>1, <1>2 DEF Open
  <2>2. /\ phase \in {"syncing", "flushing", "live"} /\ (phase = "live" => buffered = <<>>)
        /\ overflowed \in BOOLEAN /\ liveq \in Seq(1..peers)
    <3>1. phase = "syncing" /\ overflowed = FALSE /\ liveq = <<>>
      BY <1>1
    <3>2. \A T : <<>> \in Seq(T)
      OBVIOUS
    <3> QED BY <3>1, <3>2
  <2>3. /\ run \in [Chains -> [at : Places, content : Texts, before : Texts]]
        /\ (phase # "flushing" => run["flush"].at = "idle")
        /\ catching \in Chains \cup {"nobody"}
        /\ \A r \in Chains : run[r].at = "asked" => catching = r
    <3>1. \A r \in Chains : run[r].at = "idle"
      BY <1>1 DEF Idle
    <3>2. run["flush"].at = "idle"
      BY <3>1 DEF Chains
    <3>3. run \in [Chains -> Runs]
      BY <1>1, <1>3
    <3> QED BY <1>1, <1>3, <3>1, <3>2, <3>3 DEF Runs
  <2>4. /\ {timer, writing, scanning, touched} \subseteq BOOLEAN
        /\ lastRemote \in Texts \cup {NotSet} /\ reads \subseteq {"guarded", "plain"}
        /\ exposed \subseteq OwnChanges /\ faults \in 0..MaxFaults /\ lapses = {}
    BY <1>1, <1>2
  <2> QED BY <1>4, <2>1, <2>2, <2>3, <2>4 DEF TypeOK
<1>6. Unsafe = {} /\ \A r \in Chains : run[r].at = "idle" /\ run[r].content = {}
  BY <1>1 DEF Unsafe, Idle
<1>7. Shown /\ Carried
  BY <1>6 DEF Shown, Carried, CarriedBy
<1>8. doc.ops = 1..n /\ Applied(doc) = 1..n /\ Text(doc) = 1..n /\ disk = 1..n /\ (Open => editor = 1..n)
  BY <1>1 DEF Applied, Text, Open
<1>9. PeersSeen
  <2>1. Closed \cap PeerChanges = {}
    BY DEF Closed, PeerChanges
  <2> QED BY <1>1, <1>6, <1>8, <2>1 DEF PeersSeen, Open
<1>10. Settled
  BY <1>6, <1>8 DEF Settled, Ahead, EditorLeads, WholeWrites, Visible
<1>11. Converging
  <2>1. SentAll
    <3>1. 1..n \cap OwnChanges = {}
      BY <1>2, Numbering
    <3> QED BY <1>1, <3>1 DEF SentAll
  <2>2. InOrder /\ Calm
    <3>1. /\ liveq = <<>> /\ catching = "nobody" /\ lapses = {} /\ (overflowed <=> FALSE)
          /\ \A r \in Chains : run[r].at = "idle"
      BY <1>1, <1>6
    <3>2. Len(liveq) = 0
      BY <3>1
    <3> QED BY <3>1, <3>2 DEF InOrder, Calm
  <2>3. Reaches
    BY <1>1, <1>8 DEF Reaches
  <2>4. /\ 1..n \cap OwnChanges = {} /\ Closed \cap OwnChanges = {} /\ NotSet \cap OwnChanges = {}
        /\ Visible = 1..n /\ (lastRemote = NotSet \/ lastRemote = 1..n) /\ NotSet \cap 1..n = {}
    BY <1>1, <1>2, <1>8, Numbering DEF Closed, NotSet, OwnChanges, Visible, Open
  <2>5. OwnSeen
    BY <1>1, <1>6, <1>8, <2>4 DEF OwnSeen
  <2>6. EchoKnown /\ Owed
    BY <1>8, <2>4 DEF EchoKnown, Owed
  <2> QED BY <2>1, <2>2, <2>3, <2>5, <2>6 DEF Converging
<1> QED BY <1>5, <1>7, <1>9, <1>10, <1>11 DEF IInv

LEMMA StepInv ==
  ASSUME IInv, [Next]_vars
  PROVE  IInv'
<1>1. CASE Next
  <2>1. TypeOK /\ Shown /\ Carried /\ PeersSeen /\ Settled
    BY DEF IInv
  <2>2. TypeOK' /\ Shown' /\ Carried' /\ PeersSeen' /\ Settled'
    BY <1>1, <2>1, TypesStay, ShownStays, CarriedStays, PeersSeenStays, SettledStays
  <2>3. SentAll /\ InOrder /\ Calm /\ Reaches /\ OwnSeen /\ EchoKnown /\ Owed
    BY DEF IInv, Converging
  <2>4. SentAll' /\ InOrder' /\ Calm' /\ Reaches'
    BY <1>1, <2>1, <2>3, SentAllStays, InOrderStays, CalmStays, ReachesStays
  <2>5. OwnSeen' /\ EchoKnown' /\ Owed'
    BY <1>1, <2>1, <2>3, OwnSeenStays, EchoKnownStays, OwedStays
  <2> QED BY <2>2, <2>4, <2>5 DEF IInv, Converging
<1>2. CASE UNCHANGED vars
  <2>1. TypeOK'
    BY <1>2, TypesStay DEF IInv
  <2>2. Shown' /\ Carried'
    BY <1>2 DEF IInv, vars, Shown, Carried, CarriedBy, Unsafe, Visible, Written, Open
  <2>3. PeersSeen'
    BY <1>2 DEF IInv, vars, PeersSeen, Applied
  <2>4. Settled'
    BY <1>2 DEF IInv, vars, Settled, Astray, Ahead, Asking, Pending, EditorLeads, WholeWrites, Visible,
       Text, Applied, Open
  <2>5. SentAll' /\ InOrder' /\ Calm' /\ Reaches'
    BY <1>2 DEF IInv, Converging, vars, SentAll, InOrder, Calm, Reaches, Asking, InFlight, Items
  <2>6. OwnSeen' /\ EchoKnown' /\ Owed'
    BY <1>2 DEF IInv, Converging, vars, OwnSeen, Mine, EchoKnown, Owed, Waited, Lapsed, Visible, Text, Applied,
       Open, Outstanding
  <2> QED BY <2>1, <2>2, <2>3, <2>4, <2>5, <2>6 DEF IInv, Converging
<1> QED BY <1>1, <1>2

LEMMA Invariant == Spec => []IInv
<1>1. Init => IInv
  BY InitInv
<1>2. IInv /\ [Next]_vars => IInv'
  BY StepInv
<1> QED BY <1>1, <1>2, PTL DEF Spec

---------------------------------------------------------------------------
(* Every variable stays within its type.                                     *)
THEOREM TypeCorrect == Spec => []TypeOK
<1>1. IInv => TypeOK
  BY DEF IInv
<1> QED BY <1>1, Invariant, PTL

(* Own text that was not written beside a rewrite never gets lost: it is in  *)
(* the editor, in the file, in a conflict copy or in the document, through   *)
(* every interleaving of the two broadcast chains with typing, panes, other  *)
(* programs and failed requests (writeToVault, preserveUnseenDiskText,       *)
(* flushPendingEdits).                                                       *)
THEOREM OwnTextSurvives == Spec => []OwnTextIsKept
<1>1. ASSUME IInv PROVE OwnTextIsKept
  <2> SUFFICES ASSUME NEW c \in (MaxPeer + 1)..(MaxPeer + own), c \notin exposed, c \notin copies
               PROVE  c \in (IF Open THEN editor ELSE {}) \cup disk
    BY DEF OwnTextIsKept
  <2>1. c \in Unsafe
    BY DEF Unsafe
  <2> QED BY <1>1, <2>1 DEF IInv, Shown, Visible
<1> QED BY <1>1, Invariant, PTL

(* Text that nobody deleted leaves the document only while the server is     *)
(* asked for a missing change, or after a change was stranded between the    *)
(* document and the editor: a push beside a write, a whole write that was    *)
(* overtaken, a request that failed (onDeltaBroadcast, writeToVault,         *)
(* pushFileDeltaAsync).                                                      *)
THEOREM RevertsConfined == Spec => RevertsOnlyBesideAWrite
<1> DEFINE Excused == catching' # "nobody" \/ catching # "nobody" \/ {"failed", "beside", "overtaken"} \cap lapses' # {}
<1>1. ASSUME IInv, Next, ~Excused
      PROVE  doc'.deleted \subseteq doc.deleted
  <2>1. ~Astray' /\ catching = "nobody" /\ catching' = "nobody"
    BY <1>1 DEF Astray
  <2>2. TypeOK /\ PeersSeen /\ Ahead /\ EditorLeads /\ WholeWrites
    BY <1>1, <2>1, AstrayStays DEF IInv, Settled
  <2>3. doc \in Docs /\ Visible \in Texts /\ "nobody" \notin Chains
    BY <2>2, Fields DEF Chains
  <2>4. ~Asking
    BY <2>1, <2>2, <2>3 DEF Asking, TypeOK
  <2>5. Pending = {} => Text(doc) \subseteq Visible
    BY <2>2, <2>4 DEF Ahead
  <2>6. CASE doc' = Pushed(doc, Visible) /\ (Outstanding => "beside" \in lapses')
    <3>1. ~Outstanding
      BY <2>1, <2>6 DEF Astray
    <3>2. Pending = {}
      BY <3>1 DEF Pending, Outstanding
    <3>3. doc'.deleted = (doc.deleted \cup Text(doc)) \ Visible
      BY <2>3, <2>6, PushGives
    <3> QED BY <2>5, <3>2, <3>3
  <2>7. ASSUME NEW r \in Chains, NEW n \in 1..peers, OnDeltaBroadcast(r, n)
        PROVE  doc'.deleted \subseteq doc.deleted
    <3>1. doc' = Joined(n) /\ Joined(n).deleted = Base.deleted
      <4>1. doc' = Joined(n) \/ catching' = r
        BY <2>2, <2>7, BroadcastLeaves
      <4>2. Joined(n).deleted = Base.deleted
        BY <2>2, <2>7, BroadcastGives
      <4> QED BY <2>1, <2>3, <4>1, <4>2
    <3>2. CASE ~Open
      BY <2>2, <2>3, <3>1, <3>2, FlushGives DEF Base
    <3>3. CASE Open
      <4>1. Pending = {}
        BY <2>1, <2>2, <2>3, <3>3 DEF Pending, WholeWrites
      <4>2. Base.deleted = (doc.deleted \cup Text(doc)) \ editor
        BY <2>2, <2>3, <3>3, FlushGives DEF Base
      <4> QED BY <2>5, <3>1, <3>3, <4>1, <4>2 DEF Visible
    <3> QED BY <3>2, <3>3
  <2>8. ASSUME NEW r \in Chains PROVE ~CatchUpAnswered(r)
    BY <2>1, <2>2, <2>3, AnswerLeaves
  <2> QED BY <1>1, <2>2, <2>6, <2>7, <2>8, DocChanges
<1>2. ASSUME UNCHANGED vars PROVE doc'.deleted \subseteq doc.deleted
  BY <1>2 DEF vars
<1>3. IInv /\ [Next]_vars =>
        [\/ doc'.deleted \subseteq doc.deleted
         \/ catching' # "nobody" \/ catching # "nobody"
         \/ {"failed", "beside", "overtaken"} \cap lapses' # {} ]_vars
  BY <1>1, <1>2
<1> QED BY <1>3, Invariant, PTL DEF Spec, RevertsOnlyBesideAWrite

(* When nothing is under way and nothing lapsed, the note has converged: the *)
(* file and the editor show what the document shows, every own operation was *)
(* sent, and every change of another device that reached the server is in    *)
(* the document. What is visible and not pushed is waited for by a timer or  *)
(* by a vault event; what the document has and the user does not see is      *)
(* about to be written; what is missing is in a frame or asked for           *)
(* (onDeltaBroadcast, the debounce and modify handlers, pushFileDeltaAsync). *)
THEOREM NotesConverge == Spec => []ConvergesAtRest
<1>1. ASSUME IInv, AtRest, lapses = {}
      PROVE  disk = Text(doc) /\ doc.ops \cap OwnChanges = doc.sent /\ 1..peers \subseteq doc.ops
  <2>1. /\ doc \in Docs /\ ~Lapsed /\ ~Astray /\ \A r \in Chains : run[r].at = "idle"
    BY <1>1, Fields DEF IInv, Lapsed, Astray, AtRest
  <2>2. disk = Visible
    BY <1>1 DEF AtRest, Visible
  <2>3. Visible \subseteq Text(doc)
    <3>1. \A y \in Visible \ Text(doc) : Waited(y)
      BY <1>1, <2>1 DEF IInv, Converging, Owed
    <3>2. \A y : ~Waited(y)
      BY <1>1 DEF AtRest, Waited
    <3> QED BY <3>1, <3>2
  <2>4. Text(doc) \subseteq Visible
    <3>1. ~Asking /\ Pending = {}
      BY <2>1 DEF Asking, Pending
    <3> QED BY <1>1, <2>1, <3>1 DEF IInv, Settled, Ahead
  <2>5. doc.ops \cap OwnChanges = doc.sent
    BY <1>1, <2>1 DEF IInv, Converging, SentAll, Docs
  <2>6. 1..peers \subseteq doc.ops
    <3>1. ~Asking /\ InFlight = {}
      <4>1. Items(<<>>) = {}
        BY DEF Items
      <4> QED BY <1>1, <2>1, <4>1 DEF AtRest, Asking, InFlight, Items
    <3> QED BY <1>1, <3>1 DEF IInv, Converging, Reaches
  <2> QED BY <2>2, <2>3, <2>4, <2>5, <2>6
<1>2. IInv => ConvergesAtRest
  BY <1>1 DEF ConvergesAtRest
<1> QED BY <1>2, Invariant, PTL
=============================================================================
