----------------------------- MODULE NoteMerge -----------------------------
(* One note of one client while its socket is open: the editor, the file,    *)
(* the CRDT document between them, and the changes of other devices that     *)
(* arrive for it (src/sync-engine.ts onDeltaBroadcast, src/push-handler.ts,  *)
(* src/editor-integration.ts, src/file-watcher.ts, the vault events of       *)
(* src/main.ts). The model starts in an initial sync that is done with this  *)
(* note and still busy with others: frames are buffered, then replayed while *)
(* new ones already arrive.                                                  *)
(*                                                                           *)
(* A text is the set of the insertions it shows. Nobody in this model ever   *)
(* deletes text, so a deletion in the document is one that no user asked     *)
(* for. Where in the text an insertion stands is left out.                   *)
(*                                                                           *)
(* Code between two waits for I/O, for the network or for a timer is one     *)
(* step: the document is loaded, and an await on it lets no event in. A      *)
(* frame arrives when the server sends it: the socket keeps their order, so  *)
(* a later arrival shows this client nothing that a later change would not.  *)
EXTENDS Naturals, Sequences

CONSTANTS
  MaxPeer,    \* bound: changes of other devices
  MaxOwn,     \* bound: changes made on this device
  MaxQueued,  \* MAX_QUEUED_BROADCASTS
  MaxFaults,  \* bound: requests that fail
  Around      \* what happens besides typing in the one focused editor

ASSUME NoteMergeAssumption ==
  /\ MaxPeer \in Nat /\ MaxOwn \in Nat /\ MaxQueued \in Nat /\ MaxFaults \in Nat
  /\ Around \subseteq {"panes", "external", "scan"}

VARIABLES
  peers,      \* server: how many changes of others it has
  linked,     \* those of them whose author knew all the earlier ones
  doc,        \* the CRDT document: operations, deletions, and which own ones were sent
  editor,     \* what an open editor shows, Closed otherwise
  front,      \* the open editor is the active one
  disk,
  copies,     \* text saved in conflict copies
  own,        \* how many changes this device has made
  phase,      \* of the initial sync
  buffered, overflowed,  \* queuedBroadcasts, broadcastQueueOverflowed
  liveq,      \* frames chained in broadcastQueue
  run,        \* the broadcast that each of the two chains works on
  catching,   \* whose request holds the note in catchUpInProgress
  timer,      \* the debounce timer of the note is set
  writing,    \* writingFromRemote names the note
  lastRemote, \* lastRemoteWrite
  reads,      \* vault events that wait for vault.read
  scanning, touched,  \* the focus scan; the file changed since the last one
  exposed,    \* history: own changes made while a rewrite of the note was under way
  lapses,     \* history: what was skipped in this session
  faults

remote == <<peers, linked>>
note == <<editor, front, disk, copies, own>>
frames == <<phase, buffered, overflowed, liveq>>
chains == <<run, catching>>
local == <<timer, reads, scanning>>
marks == <<writing, lastRemote, touched>>
history == <<exposed, lapses, faults>>
vars == <<remote, doc, note, frames, chains, local, marks, history>>

Closed == {0}
NotSet == {0}
Open == editor # Closed
Accepts == phase = "live"  \* acceptVaultChangeEvents
PeerChanges == 1..MaxPeer
OwnChanges == (MaxPeer + 1)..(MaxPeer + MaxOwn)
Changes == PeerChanges \cup OwnChanges
Texts == SUBSET Changes
Chains == {"live", "flush"}
Places == {"idle", "asked", "hook", "copied", "shown", "checked"}
Idle == [at |-> "idle", content |-> {}, before |-> {}]

TypeOK ==
  /\ peers \in 0..MaxPeer /\ linked \subseteq 1..peers
  /\ doc \in [ops : Texts, deleted : Texts, sent : SUBSET OwnChanges]
  /\ doc.sent \subseteq doc.ops
  /\ editor \in Texts \cup {Closed} /\ disk \in Texts /\ copies \in Texts
  /\ front \in BOOLEAN /\ (front => Open)
  /\ own \in 0..MaxOwn
  /\ phase \in {"syncing", "flushing", "live"}
  /\ buffered \in Seq(1..peers) /\ Len(buffered) <= MaxQueued
  /\ (phase = "live" => buffered = <<>>) /\ overflowed \in BOOLEAN
  /\ liveq \in Seq(1..peers)
  /\ run \in [Chains -> [at : Places, content : Texts, before : Texts]]
  /\ (phase # "flushing" => run["flush"].at = "idle")
  /\ catching \in Chains \cup {"nobody"}
  /\ \A r \in Chains : run[r].at = "asked" => catching = r
  /\ {timer, writing, scanning, touched} \subseteq BOOLEAN
  /\ lastRemote \in Texts \cup {NotSet}
  /\ reads \subseteq {"guarded", "plain"}
  /\ exposed \subseteq OwnChanges
  /\ lapses \subseteq {"muted", "unsent", "closed", "opened", "suppressed", "dropped", "failed", "beside",
                      "overtaken"}
  /\ faults \in 0..MaxFaults

(* The sync has seen all that the server had: nothing, or one change whose   *)
(* frame is buffered as well.                                                *)
Init ==
  \E n \in {0, 1} \cap 0..MaxQueued \cap 0..MaxPeer :
    /\ peers = n /\ linked = {}
    /\ doc = [ops |-> 1..n, deleted |-> {}, sent |-> {}]
    /\ editor \in {Closed, 1..n} /\ front = Open /\ disk = 1..n /\ copies = {} /\ own = 0
    /\ (Closed = editor => Around # {})
    /\ phase = "syncing" /\ buffered = [i \in 1..n |-> i] /\ overflowed = FALSE /\ liveq = <<>>
    /\ run = [r \in Chains |-> Idle] /\ catching = "nobody"
    /\ timer = FALSE /\ writing = FALSE /\ lastRemote = IF n = 0 THEN NotSet ELSE 1..n
    /\ reads = {} /\ scanning = FALSE /\ touched = TRUE
    /\ exposed = {} /\ lapses = {} /\ faults = 0

---------------------------------------------------------------------------
(* The document. An operation whose author knew others that are missing here *)
(* is held back by Loro: it is neither in the text nor in the version.       *)
Applied(d) == {c \in d.ops : c \in linked => 1..(c - 1) \subseteq d.ops}
Text(d) == Applied(d) \ d.deleted
Import(d, cs) == [d EXCEPT !.ops = @ \cup cs]
(* Mutant: having the change that came counts as having all before it. *)
CoversLast(d, upto) == upto \in Applied(d)
Covers(d, upto) == 1..upto \subseteq Applied(d)

(* sync_from_disk: what the content lacks is deleted, what it adds inserted. *)
Synced(d, content) ==
  [d EXCEPT !.ops = @ \cup content, !.deleted = (@ \cup Text(d)) \ content]

(* The delta since the version before that edit goes to the server. *)
Pushed(d, content) ==
  LET e == Synced(d, content) IN [e EXCEPT !.sent = @ \cup ((Text(e) \ Text(d)) \cap OwnChanges)]

(* flushPendingEdits: without an editor nothing is read, and the timer stays. *)
Flushed(d) == IF Open THEN Pushed(d, editor) ELSE d
TimerAfterFlush == timer /\ ~Open

(* The changes on their way from a broadcast to the editor or the file. *)
Outstanding == \E r \in Chains : run[r].at # "idle"

(* Mutant: what was read goes in, whatever an editor shows by now. *)
PushFileStale(read) ==
  /\ lastRemote' = NotSet
  /\ doc' = IF lastRemote = read THEN doc ELSE Pushed(doc, read)
  /\ lapses' = lapses \cup (IF Outstanding /\ doc' # doc THEN {"beside"} ELSE {})

(* pushFileDeltaAsync: an open editor goes before the content that was read, *)
(* and what was just written for another device is not pushed back.          *)
PushFile(read) ==
  LET content == IF Open THEN editor ELSE read
  IN  /\ lastRemote' = NotSet
      /\ doc' = IF lastRemote = content THEN doc ELSE Pushed(doc, content)
      /\ lapses' = lapses \cup (IF Outstanding /\ doc' # doc THEN {"beside"} ELSE {})

(* The file changed: the modify handler. *)
Modified(nowWriting, nowOpen) ==
  /\ touched' = TRUE
  /\ reads' = reads \cup (IF nowWriting THEN {"guarded"}
                          ELSE IF Accepts /\ ~nowOpen THEN {"plain"} ELSE {})
  /\ lapses' = lapses \cup (IF ~nowWriting /\ ~Accepts /\ ~nowOpen THEN {"suppressed"} ELSE {})

---------------------------------------------------------------------------
(* The other devices and the server. *)

(* Mutant: the limit is off by one. *)
QueueBroadcastOneMore(n) ==
  /\ phase = "syncing"
  /\ LET full == overflowed \/ Len(buffered) > MaxQueued
     IN  /\ overflowed' = full
         /\ buffered' = IF full THEN <<>> ELSE Append(buffered, n)
         /\ lapses' = lapses \cup (IF full THEN {"dropped"} ELSE {})
  /\ UNCHANGED <<phase, liveq, exposed, faults>>

(* queueBroadcast: at its limit the whole queue is given up, and every frame *)
(* after it until the sync ends.                                             *)
QueueBroadcast(n) ==
  /\ phase = "syncing"
  /\ LET full == overflowed \/ Len(buffered) >= MaxQueued
     IN  /\ overflowed' = full
         /\ buffered' = IF full THEN <<>> ELSE Append(buffered, n)
         /\ lapses' = lapses \cup (IF full THEN {"dropped"} ELSE {})
  /\ UNCHANGED <<phase, liveq, exposed, faults>>

EnqueueBroadcast(n) ==
  /\ phase # "syncing"
  /\ liveq' = Append(liveq, n)
  /\ UNCHANGED <<phase, buffered, overflowed, history>>

(* The frames of other notes fill the same queue. *)
OverflowByOthers ==
  /\ phase = "syncing" /\ ~overflowed
  /\ overflowed' = TRUE /\ buffered' = <<>>
  /\ lapses' = lapses \cup (IF buffered # <<>> THEN {"dropped"} ELSE {})
  /\ UNCHANGED <<remote, doc, note, phase, liveq, chains, local, marks, exposed, faults>>

PeerChange ==
  /\ peers < MaxPeer
  /\ peers' = peers + 1
  /\ \/ linked' = linked \cup {peers + 1}
     \/ peers > 0 /\ UNCHANGED linked
  /\ QueueBroadcast(peers + 1) \/ EnqueueBroadcast(peers + 1)
  /\ UNCHANGED <<doc, note, chains, local, marks>>

(* The replay is done: from now on vault events are accepted. *)
ReplayEnds ==
  /\ phase = "flushing" /\ buffered = <<>> /\ run["flush"].at = "idle"
  /\ phase' = "live"
  /\ UNCHANGED <<remote, doc, note, buffered, overflowed, liveq, chains, local, marks, history>>

---------------------------------------------------------------------------
(* onDeltaBroadcast, up to its first wait: keystrokes that the document does *)
(* not have yet go in first, then the change. What it does next depends on   *)
(* whether the document now has all that the server had.                     *)
(*   A gap: ask the server (unless another broadcast of the note asks).      *)
(*   No gap, and an open editor that the change alters: alter it there.      *)
(*   Else: write the whole text.                                             *)

Done(r) ==
  /\ run' = [run EXCEPT ![r] = Idle]
  /\ catching' = IF catching = r THEN "nobody" ELSE catching

(* writeToVault. Without an editor the text of the file is looked at first.  *)
(* An editor that shows the text already leaves the file to be compared; any *)
(* other is rewritten after the file was read.                               *)
Rewrite(r, text, before) ==
  /\ run' = [run EXCEPT ![r] = [at |-> IF editor = text THEN "shown" ELSE "checked",
                                content |-> text, before |-> before]]
  /\ lastRemote' = IF editor = text THEN text ELSE lastRemote

WriteToVault(r, text, before) ==
  IF Open THEN Rewrite(r, text, before)
  ELSE /\ run' = [run EXCEPT ![r] = [at |-> "hook", content |-> text, before |-> before]]
       /\ UNCHANGED lastRemote

AskServer(r, before) ==
  /\ catching' = r
  /\ run' = [run EXCEPT ![r] = [at |-> "asked", content |-> {}, before |-> before]]
  /\ UNCHANGED <<editor, lastRemote>>

(* applyDiffToEditor; the keystrokes folded in afterwards are none, because  *)
(* no event came in since the first flush.                                   *)
ApplyToEditor(r, diff) ==
  /\ editor' = editor \cup diff
  /\ lastRemote' = editor \cup diff
  /\ Done(r)

OnDeltaBroadcast(r, n) ==
  LET flushed == Flushed(doc)
      before == Text(flushed)
      imported == Import(flushed, {n})
      diff == Text(imported) \ before
      gap == ~Covers(imported, n)
  IN  /\ timer' = TimerAfterFlush
      /\ \/ /\ gap /\ catching = "nobody"
            /\ doc' = Flushed(imported)
            /\ AskServer(r, before)
         \/ /\ gap => catching # "nobody"
            /\ doc' = imported
            /\ IF Open /\ diff # {} THEN ApplyToEditor(r, diff)
               ELSE /\ WriteToVault(r, Text(imported), before)
                    /\ UNCHANGED <<editor, catching>>
      /\ lapses' = lapses \ {"dropped"}
      /\ UNCHANGED <<remote, front, disk, copies, own, overflowed, reads,
                     scanning, writing, touched, exposed, faults>>

LiveBroadcast ==
  /\ run["live"].at = "idle" /\ liveq # <<>>
  /\ OnDeltaBroadcast("live", Head(liveq))
  /\ liveq' = Tail(liveq)
  /\ UNCHANGED <<phase, buffered>>

(* The initial sync ends. Its queue was given up (a second overflow starts   *)
(* no further sync), or is replayed: the first frame at once, each next one  *)
(* when the one before was stored.                                           *)
InitialSyncEnds ==
  /\ phase = "syncing" /\ buffered = <<>>
  /\ phase' = "live"
  /\ UNCHANGED <<remote, doc, note, buffered, overflowed, liveq, chains, local, marks, history>>

Replay ==
  /\ run["flush"].at = "idle" /\ buffered # <<>>
  /\ OnDeltaBroadcast("flush", Head(buffered))
  /\ buffered' = Tail(buffered)
  /\ phase' = "flushing"
  /\ UNCHANGED liveq

(* The answer of the server. The active editor gets the difference, and what *)
(* it shows then goes into the document - not to the server. Any other note  *)
(* is written as a whole.                                                    *)
CatchUpAnswered(r) ==
  LET imported == Import(doc, 1..peers)
      diff == Text(imported) \ Text(doc)
      shown == editor \cup diff
  IN  /\ run[r].at = "asked"
      /\ IF front /\ diff # {}
         THEN /\ editor' = shown
              /\ doc' = Synced(imported, shown)
              /\ lapses' = lapses \cup (IF Text(doc') \ Text(imported) # {} THEN {"unsent"} ELSE {})
              /\ lastRemote' = shown
              /\ Done(r)
         ELSE /\ doc' = imported
              /\ WriteToVault(r, Text(imported), run[r].before)
              /\ UNCHANGED <<editor, catching, lapses>>
      /\ UNCHANGED <<remote, front, disk, copies, own, frames, local, writing, touched,
                     exposed, faults>>

(* The request fails: what was imported is in the document, and nowhere else. *)
(* A replay that fails ends the whole replay: vault events stay refused.      *)
CatchUpFails(r) ==
  /\ run[r].at = "asked" /\ faults < MaxFaults
  /\ faults' = faults + 1
  /\ lapses' = lapses \cup {"failed"}
  /\ Done(r)
  /\ buffered' = IF r = "flush" THEN <<>> ELSE buffered
  /\ UNCHANGED <<remote, doc, note, phase, overflowed, liveq, local, marks, exposed>>

---------------------------------------------------------------------------
(* writeToVault after each of its waits. *)

(* Mutant: the text of the file is compared with the new text only. *)
HookReadsOnly(r) ==
  /\ run[r].at = "hook"
  /\ Rewrite(r, run[r].content, run[r].before)
  /\ UNCHANGED <<remote, doc, note, frames, catching, local, writing, touched, history>>

(* preserveUnseenDiskText: text that is neither the new one nor the one the  *)
(* document had is copied first.                                             *)
HookReads(r) ==
  /\ run[r].at = "hook"
  /\ IF disk \in {run[r].content, run[r].before}
     THEN /\ Rewrite(r, run[r].content, run[r].before)
          /\ UNCHANGED copies
     ELSE /\ copies' = copies \cup disk
          /\ run' = [run EXCEPT ![r].at = "copied"]
          /\ UNCHANGED lastRemote
  /\ UNCHANGED <<remote, doc, editor, front, disk, own, frames, catching, local,
                 writing, touched, history>>

CopyMade(r) ==
  /\ run[r].at = "copied"
  /\ Rewrite(r, run[r].content, run[r].before)
  /\ UNCHANGED <<remote, doc, note, frames, catching, local, writing, touched, history>>

ModifyFile(text) ==
  /\ disk' = text /\ writing' = TRUE /\ touched' = TRUE
  /\ reads' = reads \cup {"guarded"}

Overtaken(text) == IF text # Text(doc) THEN {"overtaken"} ELSE {}

(* The editor showed the text: bring the file to it if it differs. *)
ShownIsChecked(r) ==
  /\ run[r].at = "shown"
  /\ IF disk = run[r].content THEN UNCHANGED <<disk, writing, touched, reads, lapses>>
     ELSE /\ ModifyFile(run[r].content)
          /\ lapses' = lapses \cup Overtaken(run[r].content)
  /\ Done(r)
  /\ UNCHANGED <<remote, doc, editor, front, copies, own, frames, timer, scanning,
                 lastRemote, exposed, faults>>

(* It did not: rewrite the editor, or the file when none is open. *)
FileIsChecked(r) ==
  /\ run[r].at = "checked"
  /\ IF disk = run[r].content
     THEN UNCHANGED <<editor, disk, writing, touched, reads, lapses, lastRemote>>
     ELSE /\ lastRemote' = run[r].content
          /\ lapses' = lapses \cup Overtaken(run[r].content)
          /\ IF Open
             THEN /\ editor' = run[r].content
                  /\ UNCHANGED <<disk, writing, touched, reads>>
             ELSE ModifyFile(run[r].content) /\ UNCHANGED editor
  /\ Done(r)
  /\ UNCHANGED <<remote, doc, front, copies, own, frames, timer, scanning, exposed, faults>>

---------------------------------------------------------------------------
(* The user, and other programs. *)

OwnChange(c) ==
  /\ own < MaxOwn /\ c = MaxPeer + own + 1
  /\ own' = own + 1
  /\ exposed' = exposed \cup (IF Outstanding THEN {c} ELSE {})

(* A keystroke: in the window of a remote write it sets no timer. *)
Type ==
  /\ front
  /\ \E c \in OwnChanges : OwnChange(c) /\ editor' = editor \cup {c}
  /\ timer' = (timer \/ ~writing)
  /\ lapses' = lapses \cup (IF writing THEN {"muted"} ELSE {})
  /\ UNCHANGED <<remote, doc, front, disk, copies, frames, chains, reads, scanning,
                 marks, faults>>

(* The debounce timer fires; of a note that was closed it reads nothing. *)
DebounceFires ==
  /\ timer
  /\ timer' = FALSE
  /\ IF Open THEN PushFile(editor)
     ELSE /\ lapses' = lapses \cup (IF reads = {} /\ disk # Text(doc) THEN {"closed"} ELSE {})
          /\ UNCHANGED <<doc, lastRemote>>
  /\ UNCHANGED <<remote, note, frames, chains, reads, scanning, writing, touched,
                 exposed, faults>>

AutoSave ==
  /\ Open /\ disk # editor
  /\ disk' = editor
  /\ Modified(writing, TRUE)
  /\ UNCHANGED <<remote, doc, editor, front, copies, own, frames, chains, timer,
                 scanning, writing, lastRemote, exposed, faults>>

(* Another pane becomes the active one, or this one again. *)
ChangePane ==
  /\ "panes" \in Around /\ Open
  /\ front' = ~front
  /\ UNCHANGED <<remote, doc, editor, disk, copies, own, frames, chains, local, marks, history>>

OpenNote ==
  /\ "panes" \in Around /\ ~Open
  /\ editor' = disk /\ front' = TRUE
  /\ IF Outstanding
     THEN /\ lapses' = lapses \cup {"beside"}
          /\ exposed' = exposed \cup (disk \cap OwnChanges)
     ELSE UNCHANGED <<lapses, exposed>>
  /\ UNCHANGED <<remote, doc, disk, copies, own, frames, chains, local, marks, faults>>

CloseNote ==
  /\ "panes" \in Around /\ Open
  /\ editor' = Closed /\ front' = FALSE
  /\ disk' = editor
  /\ IF disk = editor THEN UNCHANGED <<reads, touched, lapses>> ELSE Modified(writing, FALSE)
  /\ UNCHANGED <<remote, doc, copies, own, frames, chains, timer, scanning, writing,
                 lastRemote, exposed, faults>>

(* Another program writes the file of a note that is not open. *)
ExternalEdit ==
  /\ "external" \in Around /\ ~Open
  /\ \E c \in OwnChanges : OwnChange(c) /\ disk' = disk \cup {c}
  /\ Modified(writing, FALSE)
  /\ UNCHANGED <<remote, doc, editor, front, copies, frames, chains, timer, scanning,
                 writing, lastRemote, faults>>

(* The modify handler after its read. Inside the window of a remote write it *)
(* read first, to tell the echo of that write from another edit.             *)
PlainRead ==
  /\ "plain" \in reads
  /\ reads' = reads \ {"plain"}
  /\ PushFile(disk)
  /\ UNCHANGED <<remote, note, frames, chains, timer, scanning, writing, touched,
                 exposed, faults>>

GuardedRead ==
  /\ "guarded" \in reads
  /\ reads' = reads \ {"guarded"}
  /\ IF lastRemote # disk /\ Accepts /\ ~Open THEN PushFile(disk)
     ELSE /\ lapses' = lapses \cup (IF lastRemote = disk THEN {} ELSE IF Accepts THEN {"opened"}
                                    ELSE {"suppressed"})
          /\ UNCHANGED <<doc, lastRemote>>
  /\ UNCHANGED <<remote, note, frames, chains, timer, scanning, writing, touched,
                 exposed, faults>>

WindowEnds ==
  /\ writing
  /\ writing' = FALSE
  /\ UNCHANGED <<remote, doc, note, frames, chains, local, lastRemote, touched, history>>

(* The focus scan: skips a file whose stat did not change, else reads it. *)
ScanStarts ==
  /\ "scan" \in Around /\ ~scanning /\ touched
  /\ scanning' = TRUE /\ touched' = FALSE
  /\ UNCHANGED <<remote, doc, note, frames, chains, timer, reads, writing, lastRemote, history>>

ScanReads ==
  /\ scanning
  /\ scanning' = FALSE
  /\ IF disk # Text(doc) THEN PushFile(disk) ELSE UNCHANGED <<doc, lastRemote, lapses>>
  /\ UNCHANGED <<remote, note, frames, chains, timer, reads, writing, touched,
                 exposed, faults>>

Next ==
  \/ PeerChange
  \/ OverflowByOthers
  \/ InitialSyncEnds
  \/ ReplayEnds
  \/ LiveBroadcast
  \/ Replay
  \/ \E r \in Chains : CatchUpAnswered(r)
  \/ \E r \in Chains : CatchUpFails(r)
  \/ \E r \in Chains : HookReads(r)
  \/ \E r \in Chains : CopyMade(r)
  \/ \E r \in Chains : ShownIsChecked(r)
  \/ \E r \in Chains : FileIsChecked(r)
  \/ Type
  \/ DebounceFires
  \/ AutoSave
  \/ ChangePane
  \/ OpenNote
  \/ CloseNote
  \/ ExternalEdit
  \/ PlainRead
  \/ GuardedRead
  \/ WindowEnds
  \/ ScanStarts
  \/ ScanReads

Spec == Init /\ [][Next]_vars

---------------------------------------------------------------------------
(* What was written on this device is somewhere: in the editor, the file, a  *)
(* copy or the document - unless it was written beside a rewrite.            *)
OwnTextIsKept ==
  \A c \in (MaxPeer + 1)..(MaxPeer + own) :
    c \in exposed \cup (IF Open THEN editor ELSE {}) \cup disk \cup copies \cup Text(doc)

(* Text that nobody deleted leaves the document only while a change is on    *)
(* its way from there to the editor or the file, or was stranded there.      *)
RevertsOnlyBesideAWrite ==
  [][ \/ doc'.deleted \subseteq doc.deleted
      \/ catching' # "nobody" \/ catching # "nobody"
      \/ {"failed", "beside", "overtaken"} \cap lapses' # {} ]_vars

AtRest ==
  /\ buffered = <<>> /\ liveq = <<>> /\ phase = "live"
  /\ \A r \in Chains : run[r].at = "idle"
  /\ ~timer /\ reads = {} /\ ~writing /\ ~scanning
  /\ Open => disk = editor

ConvergesAtRest ==
  AtRest /\ lapses = {} =>
    /\ disk = Text(doc)
    /\ doc.ops \cap OwnChanges = doc.sent
    /\ 1..peers \subseteq doc.ops

(* "Ordinary shared-history edits merge through Loro"                         *)
(* (docs/architecture.md:171): nothing leaves a note that nobody deleted.     *)
NothingReverted == doc.deleted = {}

(* "Typing while another device edits the same note no longer rewinds the    *)
(* editor" (CHANGELOG.md:227): what was typed is still there.                 *)
TypingIsNotRewound ==
  \A c \in (MaxPeer + 1)..(MaxPeer + own) :
    c \in (IF Open THEN editor ELSE {}) \cup disk \cup copies \cup Text(doc)

(* "a burst of edits is sent after two seconds at the latest"                 *)
(* (CHANGELOG.md:248): when all is at rest, what was typed was sent.          *)
BurstsAreSent == AtRest => (MaxPeer + 1)..(MaxPeer + own) \subseteq doc.sent

=============================================================================
