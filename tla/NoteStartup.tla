---------------------------- MODULE NoteStartup ----------------------------
(* One note over restarts and reconnections: which of its changes the initial *)
(* sync may leave alone, because a cache says that nothing happened, and what *)
(* it does with the rest (src/sync-initial.ts, src/startup-dirty-tracker.ts,  *)
(* the version-vector cache of src/sync-engine.ts and src/state-storage.ts).  *)
(*                                                                            *)
(* A version of the note is the set of its insertions and the set of those    *)
(* that were deleted; a version vector names a version, and the hash of a     *)
(* content is the content. The user never deletes text, so a text that lacks  *)
(* some of the document is an old one; what follows once the document took it *)
(* over (the lapse "reverted") is not asked. Change 1 is there before the     *)
(* model starts.                                                              *)
(*                                                                            *)
(* A write of the note, of its .loro file or of the cache is one step with    *)
(* the decision it follows, and a broadcast is handled in one with the        *)
(* catch-up it asks for; NoteMerge has these steps in detail. A frame arrives *)
(* when the server sends it, one of this device when the server gets to it.   *)
(*                                                                            *)
(* The initial sync does not follow its connection: it fails when an answer   *)
(* that it waits for is rejected (onclose), and else runs on without one.     *)
EXTENDS Naturals, Sequences

CONSTANTS
  MaxPeer,    \* bound: changes of other devices
  MaxOwn,     \* bound: changes made on this device
  MaxDrops,   \* bound: connections that are lost
  MaxStarts,  \* bound: starts after the first
  MaxFaults,  \* bound: requests that fail
  Hidden      \* changes to the file that raise no accepted event happen too

ASSUME NoteStartupAssumption ==
  /\ MaxPeer \in Nat \ {0} /\ MaxOwn \in Nat /\ MaxDrops \in Nat
  /\ MaxStarts \in Nat /\ MaxFaults \in Nat /\ Hidden \in BOOLEAN

VARIABLES
  peers,      \* changes of other devices so far
  srv,        \* the server's version
  up,         \* frames on their way to the server
  phase,      \* closed (no process), offline, online
  accepts,    \* acceptVaultChangeEvents
  doc, loro,  \* the CRDT document, and its file
  fresh,      \* its history is its own: begun here from a text
  editor,     \* of the active note, Closed otherwise
  disk, copies,
  own,
  timer,      \* the debounce timer
  lastRemote, \* lastRemoteWrite
  unacked,    \* sentUnacked
  edited,     \* startupEditedPaths
  dirty,      \* StartupDirtyTracker: written through to localStorage
  cache, cacheDirty, stored,  \* vvCache, vvCacheDirty, vv-cache.json
  lastVV,     \* lastServerVV
  sync,       \* the initial sync that runs
  buffered,   \* queuedBroadcasts of the sync that runs
  replaying,  \* a sync that is over replays what it buffered
  replay,     \* what is left of that
  typed,      \* history: changes that raised an accepted event
  unheard,    \* history: frames of this connection may have passed unheard
  lapses,     \* history
  drops, starts, faults

server == <<peers, srv>>
text == <<editor, disk, copies, lastRemote>>
persisted == <<loro, fresh, dirty, stored>>
caches == <<cache, cacheDirty, lastVV>>
push == <<timer, unacked, edited>>
queues == <<buffered, replaying, replay, unheard>>
counters == <<drops, starts, faults>>
vars == <<server, up, phase, accepts, doc, text, own, push, persisted, caches, sync, queues,
          typed, lapses, counters>>

Closed == {0}
NotSet == {0}
Nothing == [ops |-> {}, deleted |-> {}]
NoCache == [vv |-> Nothing, hash |-> NotSet]
NoSync == [at |-> "idle", dirty |-> FALSE, cached |-> NoCache, listed |-> Nothing, read |-> NotSet,
           hash |-> NotSet, sent |-> Nothing, changed |-> FALSE, edited |-> FALSE, first |-> FALSE,
           lost |-> FALSE]
Open == editor # Closed
Online == phase = "online"
Running == sync.at # "idle"
PeerChanges == 1..MaxPeer
OwnChanges == (MaxPeer + 1)..(MaxPeer + MaxOwn)
Texts == SUBSET (PeerChanges \cup OwnChanges)
Versions == [ops : Texts, deleted : Texts]
CacheEntries == [vv : Versions, hash : Texts \cup {NotSet}]
Frames == [kind : {"list", "ask", "push", "exempt"}, add : Versions, needs : SUBSET OwnChanges]
Queued == [change : PeerChanges, vv : Versions]
List == [kind |-> "list", add |-> Nothing, needs |-> {}]
Ask == [kind |-> "ask", add |-> Nothing, needs |-> {}]

Text(d) == d.ops \ d.deleted
Join(a, b) == [ops |-> a.ops \cup b.ops, deleted |-> a.deleted \cup b.deleted]
Beyond(a, b) == [ops |-> a.ops \ b.ops, deleted |-> a.deleted \ b.deleted]
Covers(a, b) == Beyond(b, a) = Nothing

TypeOK ==
  /\ peers \in PeerChanges /\ srv \in Versions
  /\ up \in Seq(Frames) /\ (up # <<>> => Online)
  /\ phase \in {"closed", "offline", "online"} /\ accepts \in BOOLEAN
  /\ doc \in Versions /\ loro \in Versions /\ fresh \in BOOLEAN /\ editor \in Texts \cup {Closed}
  /\ (phase = "closed" => ~Open /\ ~Running /\ ~replaying)
  /\ disk \in Texts /\ copies \in Texts /\ own \in 0..MaxOwn
  /\ {timer, unacked, edited, dirty, cacheDirty} \subseteq BOOLEAN
  /\ lastRemote \in Texts \cup {NotSet}
  /\ cache \in CacheEntries /\ stored \in CacheEntries /\ lastVV \in Versions
  /\ sync \in [at : {"idle", "listing", "planned", "asked", "adopting", "again", "ending", "saved"},
               dirty : BOOLEAN, cached : CacheEntries, listed : Versions, read : Texts \cup {NotSet},
               hash : Texts \cup {NotSet}, sent : Versions, changed : BOOLEAN, edited : BOOLEAN,
               first : BOOLEAN, lost : BOOLEAN]
  /\ (Running /\ phase = "offline" => sync.lost /\ sync.at \in {"planned", "ending", "saved"})
  /\ buffered \in Seq(Queued) /\ (buffered # <<>> => Running)
  /\ replaying \in BOOLEAN /\ replay \in Seq(Queued) /\ (replay # <<>> => replaying)
  /\ unheard \in BOOLEAN
  /\ typed \subseteq OwnChanges
  /\ lapses \subseteq {"exempt", "bound", "unmarked", "unsent", "failed", "unsaved", "rewound",
                       "doubled", "reverted", "overlapped"}
  /\ drops \in 0..MaxDrops /\ starts \in 0..MaxStarts /\ faults \in 0..MaxFaults

(* The note is known and cached; its state may have been lost, with the cache *)
(* (the state directory) or without (one .loro file).                         *)
Init ==
  /\ peers = 1 /\ srv = [ops |-> {1}, deleted |-> {}] /\ up = <<>>
  /\ phase = "closed" /\ accepts = FALSE
  /\ \/ loro = srv /\ stored = [vv |-> srv, hash |-> {1}]
     \/ loro = Nothing /\ stored = NoCache
  /\ doc = loro /\ editor = Closed /\ disk = {1} /\ copies = {} /\ lastRemote = NotSet
  /\ fresh = FALSE /\ own = 0 /\ timer = FALSE /\ unacked = FALSE /\ edited = FALSE /\ dirty = FALSE
  /\ cache = NoCache /\ cacheDirty = FALSE /\ lastVV = Nothing
  /\ sync = NoSync /\ buffered = <<>> /\ replaying = FALSE /\ replay = <<>> /\ unheard = FALSE
  /\ typed = {} /\ lapses = {}
  /\ drops = 0 /\ starts = 0 /\ faults = 0

---------------------------------------------------------------------------
(* sync_from_disk. *)
Synced(d, content) ==
  [ops |-> d.ops \cup content, deleted |-> d.deleted \cup (Text(d) \ content)]

PushOf(kind, from, to) ==
  [kind |-> kind, add |-> Beyond(to, from), needs |-> from.ops \cap OwnChanges]

(* Mutant: the state of the socket is not asked for. *)
SentAlways(from, to) == IF to # from THEN Append(up, PushOf("push", from, to)) ELSE up
Sent(from, to) == IF Online /\ to # from THEN Append(up, PushOf("push", from, to)) ELSE up

(* A text enters a document without history: that history is a new one. If it *)
(* goes to the server, or meets the server's here, the text is there twice.   *)
Begins(from, to) == fresh \/ (from.ops = {} /\ to.ops # {})
Doubled(from, to) == IF Online /\ Begins(from, to) THEN {"doubled"} ELSE {}

Reverted(d, content) == IF Text(d) \subseteq content THEN {} ELSE {"reverted"}

(* pushFileDeltaAsync. *)
PushFile(read) ==
  LET content == IF Open THEN editor ELSE read
      synced == IF lastRemote = content THEN doc ELSE Synced(doc, content)
  IN  /\ lastRemote' = NotSet
      /\ doc' = synced /\ fresh' = Begins(doc, synced)
      /\ loro' = (IF synced # doc THEN synced ELSE loro)
      /\ up' = Sent(doc, synced)
      /\ unacked' = (unacked \/ (Online /\ synced # doc))
      /\ lapses' = lapses \cup (IF synced = doc THEN {}
                              ELSE Doubled(doc, synced) \cup Reverted(doc, content))

(* StartupDirtyTracker writes each change through to localStorage, which      *)
(* outlives the process; vv-cache.json is written whole, and a torn one is    *)
(* loaded as none.                                                            *)
MarkDirty == dirty' = TRUE
ReplaceMarks(marked) == dirty' = marked
StoreVVCache == stored' = cache' /\ cacheDirty' = FALSE
LoadVVCache == cache' = stored /\ cacheDirty' = FALSE
Torn == IF cacheDirty THEN {cache, NoCache} ELSE {}

(* rememberVVCache. *)
Remember(vv, content) == cache' = [vv |-> vv, hash |-> content] /\ cacheDirty' = TRUE

(* writeServerText and writeToVault. A text of a closed note that is neither  *)
(* the new one nor the one that the sync has dealt with is copied first.      *)
(* Mutant: what stands in the file by now is not looked at. *)
UnaccountedNever(content, accounted) == {}
Unaccounted(content, accounted) == IF ~Open /\ disk \notin {content, accounted} THEN disk ELSE {}

WriteText(content, accounted, saved) ==
  /\ copies' = copies \cup saved \cup Unaccounted(content, accounted)
  /\ editor' = IF Open /\ disk # content THEN content ELSE editor
  /\ disk' = IF Open /\ editor # content THEN disk ELSE content
  /\ lastRemote' = IF disk = content /\ editor # content THEN lastRemote ELSE content

(* setValue took text from an open editor that is kept nowhere else. *)
Rewound == IF Open /\ ~(editor \subseteq editor' \cup copies') THEN {"rewound"} ELSE {}

---------------------------------------------------------------------------
(* The other devices. A broadcast: keystrokes first, then the change, which   *)
(* reaches the editor or the file, the .loro file and the cache.              *)
Flushed == IF Open THEN Synced(doc, editor) ELSE doc
Merged(n) == Join(Flushed, [ops |-> {n}, deleted |-> {}])

Flushes ==
  /\ unacked' = (unacked \/ (Online /\ Flushed # doc))
  /\ timer' = (timer /\ ~Open)

FlushLapses ==
  Doubled(doc, Flushed) \cup (IF Flushed = doc THEN {} ELSE Reverted(doc, editor))
BoundLapse(vv, d) == IF Covers(vv, d) THEN {} ELSE {"bound"}

Hear(n, vv) ==
  LET merged == Merged(n)
      diff == Text(merged) \ Text(Flushed)
  IN  /\ Covers(merged, vv)
      /\ Flushes
      /\ up' = Sent(doc, Flushed)
      /\ doc' = merged /\ loro' = merged /\ fresh' = FALSE
      /\ IF Open /\ diff # {}
         THEN /\ editor' = editor \cup diff /\ lastRemote' = editor'
              /\ UNCHANGED <<disk, copies>>
         ELSE WriteText(Text(merged), Text(Flushed), {})
      /\ Remember(vv, Text(merged))
      /\ lastVV' = vv
      /\ lapses' = lapses \cup FlushLapses \cup Rewound \cup BoundLapse(vv, merged)
      /\ UNCHANGED <<own, edited, dirty, stored, typed>>

(* A gap: something came before that was not heard. An open editor, which     *)
(* does not show the change yet, is flushed once more, and the rest is asked  *)
(* for, behind what is on its way.                                            *)
Reflushed(n) == IF Open THEN Synced(Merged(n), editor) ELSE Merged(n)
ReflushFrames(n) ==
  LET first == Sent(doc, Flushed)
  IN  IF Online /\ Reflushed(n) # Merged(n)
      THEN Append(first, PushOf("push", Merged(n), Reflushed(n))) ELSE first
ReflushLapses(n) ==
  FlushLapses \cup (IF Open THEN Reverted(Merged(n), editor) ELSE {})

CatchUp(n, vv) ==
  LET caught == Join(Reflushed(n), srv')
  IN  /\ ~Covers(Merged(n), vv) /\ Online /\ up = <<>>
      /\ Flushes
      /\ up' = ReflushFrames(n)
      /\ doc' = caught /\ loro' = caught /\ fresh' = FALSE
      /\ IF Open /\ Text(caught) # Text(Reflushed(n))
         THEN /\ editor' = Text(caught) /\ lastRemote' = editor'
              /\ UNCHANGED <<disk, copies>>
         ELSE WriteText(Text(caught), Text(Flushed), {})
      /\ Remember(srv', Text(caught))
      /\ lastVV' = srv'
      /\ lapses' = lapses \cup ReflushLapses(n) \cup Rewound \cup BoundLapse(srv', caught)
      /\ UNCHANGED <<own, edited, dirty, stored, typed>>

(* Its request fails: the document has the change, the file does not. *)
CatchUpFails(n, vv) ==
  /\ ~Covers(Merged(n), vv)
  /\ IF Online THEN faults < MaxFaults /\ faults' = faults + 1 ELSE UNCHANGED faults
  /\ Flushes
  /\ up' = ReflushFrames(n)
  /\ doc' = Reflushed(n) /\ fresh' = FALSE
  /\ lastVV' = vv
  /\ lapses' = lapses \cup ReflushLapses(n)
  /\ UNCHANGED <<text, own, edited, loro, dirty, stored, cache, cacheDirty, typed>>

Broadcast(n, vv) == (Hear(n, vv) \/ CatchUp(n, vv)) /\ UNCHANGED faults

(* While a sync runs, a change is buffered; otherwise it is heard at once, a  *)
(* replay or not. A change to a note with a history of its own                *)
(* (resolveDisjointHistory) is left out: it waits until the note was          *)
(* synchronised.                                                              *)
PeerChange ==
  /\ peers < MaxPeer
  /\ peers' = peers + 1
  /\ srv' = Join(srv, [ops |-> {peers + 1}, deleted |-> {}])
  /\ \/ /\ Online /\ ~Running /\ ~fresh
        /\ \/ Broadcast(peers + 1, srv') /\ UNCHANGED unheard
           \/ CatchUpFails(peers + 1, srv') /\ unheard' = TRUE
        /\ UNCHANGED <<buffered, replaying, replay>>
     \/ /\ Online /\ Running
        /\ buffered' = Append(buffered, [change |-> peers', vv |-> srv'])
        /\ UNCHANGED <<up, doc, text, own, push, persisted, caches, replaying, replay, unheard,
                       typed, lapses, faults>>
     \/ /\ ~Online
        /\ UNCHANGED <<up, doc, text, own, push, persisted, caches, queues, typed, lapses, faults>>
  /\ UNCHANGED <<phase, accepts, sync, drops, starts>>

---------------------------------------------------------------------------
(* The process. *)

(* start: what the last process stored is loaded; the tracker is reloaded. *)
Start ==
  /\ phase = "closed"
  /\ phase' = "offline" /\ accepts' = FALSE
  /\ doc' = loro /\ LoadVVCache /\ lastVV' = Nothing
  /\ lastRemote' = NotSet /\ timer' = FALSE /\ unacked' = FALSE /\ edited' = FALSE
  /\ UNCHANGED <<server, up, editor, disk, copies, own, persisted, sync, queues, typed,
                 lapses, counters>>

(* The push of an initial sync is not traced by sentUnacked. *)
ExemptLost == IF \E i \in DOMAIN up : up[i].kind = "exempt" THEN {"exempt"} ELSE {}

(* A sync that fails drops what it learned. *)
SyncFails == sync' = NoSync /\ buffered' = <<>> /\ edited' = FALSE

(* onclose rejects what is waited for. A sync that waits for nothing of this  *)
(* note goes on, but without the socket that it began with.                   *)
Waits == sync.at \in {"listing", "asked", "adopting", "again"}

Drop ==
  /\ Online /\ drops < MaxDrops
  /\ drops' = drops + 1
  /\ phase' = "offline" /\ up' = <<>>
  /\ IF Waits THEN SyncFails
     ELSE /\ sync' = IF Running THEN [sync EXCEPT !.lost = TRUE] ELSE sync
          /\ UNCHANGED <<buffered, edited>>
  /\ lapses' = lapses \cup ExemptLost
  /\ UNCHANGED <<server, accepts, doc, text, own, timer, unacked, persisted, caches, replaying,
                 replay, unheard, typed, starts, faults>>

(* A request for another note fails, at once without a connection. A sync     *)
(* that lost its socket takes that for its end; a replay does in any case,    *)
(* and leaves the rest of its queue.                                          *)
OtherFails == IF Online THEN faults < MaxFaults /\ faults' = faults + 1 ELSE UNCHANGED faults

Abort ==
  /\ sync.lost /\ sync.at \in {"planned", "ending"}
  /\ OtherFails
  /\ SyncFails
  /\ UNCHANGED <<server, up, phase, accepts, doc, text, own, timer, unacked, persisted, caches,
                 replaying, replay, unheard, typed, lapses, drops, starts>>

ReplayFails ==
  /\ replaying
  /\ OtherFails
  /\ replaying' = FALSE /\ replay' = <<>>
  /\ unheard' = (unheard \/ replay # <<>>)
  /\ UNCHANGED <<server, up, phase, accepts, doc, text, own, push, persisted, caches, sync, buffered,
                 typed, lapses, drops, starts>>

(* stop with everything saved, or a crash: the cache may just have been       *)
(* written, or torn by it, and an editor may not have been saved.             *)
Ended ==
  /\ starts < MaxStarts
  /\ starts' = starts + 1
  /\ phase' = "closed" /\ up' = <<>>
  /\ sync' = NoSync /\ buffered' = <<>> /\ replaying' = FALSE /\ replay' = <<>>
  /\ editor' = Closed /\ accepts' = FALSE
  /\ timer' = FALSE /\ unacked' = FALSE /\ edited' = FALSE /\ lastRemote' = NotSet

Quit ==
  /\ phase # "closed"
  /\ Ended
  /\ disk' = IF Open THEN editor ELSE disk
  /\ stored' = cache /\ cacheDirty' = FALSE
  /\ lapses' = lapses \cup ExemptLost
  /\ UNCHANGED <<server, doc, loro, fresh, copies, own, dirty, cache, lastVV, unheard, typed,
                 drops, faults>>

Crash ==
  /\ phase # "closed"
  /\ Ended
  /\ stored' \in {stored} \cup Torn
  /\ cacheDirty' = FALSE
  /\ lapses' = lapses \cup ExemptLost \cup (IF Open /\ editor # disk THEN {"unsaved"} ELSE {})
  /\ typed' = IF Open THEN typed \cap (disk \cup Text(loro) \cup srv.ops) ELSE typed
  /\ UNCHANGED <<server, doc, loro, fresh, disk, copies, own, dirty, cache, lastVV, unheard,
                 drops, faults>>

(* flushVVCache, at the latest five seconds after the first change. *)
FlushVVCache ==
  /\ phase # "closed" /\ cacheDirty
  /\ stored' = cache /\ cacheDirty' = FALSE
  /\ UNCHANGED <<server, up, phase, accepts, doc, text, own, push, loro, fresh, dirty, cache, lastVV,
                 sync, queues, typed, lapses, counters>>

---------------------------------------------------------------------------
(* The initial sync. *)

(* auth_ok: initialSync, which begins with a copy of the cache and of the     *)
(* tracker - unless one runs, though of an older connection.                  *)
Connect ==
  /\ phase = "offline"
  /\ phase' = "online"
  /\ IF Running
     THEN unheard' = TRUE /\ UNCHANGED <<sync, up, buffered>>
     ELSE /\ sync' = [NoSync EXCEPT !.at = "listing", !.dirty = dirty, !.cached = cache]
          /\ up' = <<List>> /\ buffered' = <<>> /\ unheard' = FALSE
  /\ lapses' = lapses \cup (IF replaying THEN {"overlapped"} ELSE {})
  /\ UNCHANGED <<server, accepts, doc, text, own, push, persisted, caches, replaying, replay, typed,
                 counters>>

(* The server applies a push when it has the changes before it. *)
ServePush ==
  /\ up # <<>> /\ Head(up).kind \in {"push", "exempt"}
  /\ srv' = IF Head(up).needs \subseteq srv.ops THEN Join(srv, Head(up).add) ELSE srv
  /\ up' = Tail(up)
  /\ UNCHANGED <<peers, phase, accepts, doc, text, own, push, persisted, caches, sync, queues,
                 typed, lapses, counters>>

(* syncOverlappingDoc up to its request. Without a document there is nothing  *)
(* to compare with: the server's is adopted.                                  *)
Local(read) == IF Open THEN editor ELSE read

Compare(local) ==
  /\ doc' = IF doc.ops # {} /\ local # Text(doc) THEN Synced(doc, local) ELSE doc
  /\ lapses' = lapses \cup (IF doc.ops = {} THEN {} ELSE Reverted(doc, local))

Request(s, local, frames) ==
  /\ Compare(local)
  /\ sync' = IF doc.ops = {} THEN [s EXCEPT !.at = "adopting", !.read = local]
             ELSE [s EXCEPT !.at = "asked", !.read = local, !.sent = doc',
                            !.changed = (local # Text(doc)), !.edited = edited]
  /\ up' = Append(frames, Ask)

(* The list arrives. The active note is synchronised at once, as the first;   *)
(* of the others those that the cache does not prove unchanged are read.      *)

(* Mutant: the cached version vector is not compared with the listed one. *)
UnchangedByHash(s) == s.cached # NoCache
Unchanged(s) == s.cached # NoCache /\ s.listed = s.cached.vv

Listed ==
  /\ up # <<>> /\ Head(up).kind = "list"
  /\ LET s == [sync EXCEPT !.listed = srv, !.first = Open]
     IN  IF Open THEN Request(s, editor, Tail(up))
         ELSE /\ sync' = [s EXCEPT !.at = "planned",
                                   !.read = IF Unchanged(s) /\ ~s.dirty THEN NotSet ELSE disk]
              /\ up' = Tail(up)
              /\ UNCHANGED <<doc, lapses>>
  /\ UNCHANGED <<server, phase, accepts, text, own, push, persisted, caches, queues, typed,
                 counters>>

Clean(s) == Unchanged(s) /\ ~s.dirty /\ ~unacked /\ ~timer
Effective == IF sync.read # NotSet THEN sync.read ELSE IF Open THEN editor ELSE disk

Skips ==
  /\ lastVV' = sync.listed
  /\ UNCHANGED <<server, up, phase, accepts, doc, text, own, push, persisted, cache, cacheDirty,
                 queues, typed, lapses, counters>>

CleanSkip ==
  /\ sync.at = "planned" /\ Clean(sync)
  /\ sync' = [sync EXCEPT !.at = "ending", !.hash = sync.cached.hash]
  /\ Skips

HashSkip ==
  /\ sync.at = "planned" /\ Unchanged(sync) /\ ~Clean(sync)
  /\ Effective = sync.cached.hash
  /\ sync' = [sync EXCEPT !.at = "ending", !.hash = Effective, !.dirty = FALSE]
  /\ Skips

FullSync ==
  /\ sync.at = "planned"
  /\ ~Unchanged(sync) \/ (~Clean(sync) /\ Effective # sync.cached.hash)
  /\ IF Online
     THEN /\ Request([sync EXCEPT !.hash = IF Unchanged(sync) THEN Effective ELSE @],
                     Local(Effective), up)
          /\ UNCHANGED <<buffered, edited>>
     ELSE Compare(Local(Effective)) /\ SyncFails /\ UNCHANGED up
  /\ UNCHANGED <<server, phase, accepts, text, own, timer, unacked, persisted, caches, replaying,
                 replay, unheard, typed, counters>>

(* After the note: persist, the hash of its final content, the mark. *)
NoteDone(d, keepDirty) ==
  /\ doc' = d /\ loro' = d /\ fresh' = FALSE
  /\ sync' = [sync EXCEPT !.at = "ending", !.hash = Text(d), !.dirty = keepDirty]
  /\ lastVV' = srv

Answers(at) == sync.at = at /\ up # <<>> /\ Head(up).kind = "ask"

(* Phase 2, no document here: the server's is adopted; a local text that      *)
(* differs is saved as a conflict copy.                                       *)
Adopt ==
  /\ Answers("adopting")
  /\ up' = Tail(up)
  /\ IF sync.read = Text(srv) THEN UNCHANGED text
     ELSE WriteText(Text(srv), sync.read, sync.read)
  /\ NoteDone(Join(doc, srv), FALSE)
  /\ lapses' = lapses \cup Rewound \cup (IF doc.ops # {} THEN {"doubled"} ELSE {})
  /\ UNCHANGED <<server, phase, accepts, own, push, dirty, stored, cache, cacheDirty, queues,
                 typed, counters>>

(* The answer brings something. To a history of its own, all is new.          *)
Newer == fresh \/ ~Covers(sync.sent, srv)

(* Both sides changed, and not by typing: the local text becomes a copy, the  *)
(* document is dropped and asked for again.                                   *)
Conflicts ==
  Newer /\ sync.changed /\ ~sync.edited /\ (fresh \/ Text(Join(loro, srv)) # sync.read)

ConflictCopied ==
  /\ Answers("asked") /\ Conflicts
  /\ copies' = copies \cup sync.read
  /\ doc' = Nothing /\ loro' = Nothing /\ fresh' = FALSE
  /\ sync' = [sync EXCEPT !.at = "again"]
  /\ up' = Append(Tail(up), Ask)
  /\ UNCHANGED <<server, phase, accepts, editor, disk, lastRemote, own, push, dirty, stored, caches,
                 queues, typed, lapses, counters>>

Readopt ==
  /\ Answers("again")
  /\ up' = Tail(up)
  /\ WriteText(Text(srv), sync.read, {})
  /\ NoteDone(Join(doc, srv), FALSE)
  /\ lapses' = lapses \cup Rewound \cup (IF doc.ops # {} THEN {"doubled"} ELSE {})
  /\ UNCHANGED <<server, phase, accepts, own, push, dirty, stored, cache, cacheDirty, queues,
                 typed, counters>>

(* Phase 3: unrelated histories are not merged. *)
Disjoint ==
  /\ Answers("asked") /\ ~Conflicts /\ fresh
  /\ up' = Tail(up)
  /\ IF sync.read = Text(srv) THEN UNCHANGED text
     ELSE WriteText(Text(srv), sync.read, sync.read)
  /\ NoteDone(srv, FALSE)
  /\ lapses' = lapses \cup Rewound
  /\ UNCHANGED <<server, phase, accepts, own, push, dirty, stored, cache, cacheDirty, queues,
                 typed, counters>>

(* The merge. The active note gives its keystrokes first and gets the         *)
(* difference; what it shows then goes into the document, not to the server.  *)
(* What the server lacks is pushed, without a trace in sentUnacked.           *)
Merge ==
  LET flushed == IF Open /\ Newer THEN Synced(doc, editor) ELSE doc
      merged == Join(flushed, srv)
      diff == Text(merged) \ Text(flushed)
      pushed == IF flushed = doc THEN Tail(up) ELSE Append(Tail(up), PushOf("push", doc, flushed))
      shown == (editor \ (Text(flushed) \ Text(merged))) \cup diff
  IN  /\ Answers("asked") /\ ~Conflicts /\ ~fresh
      /\ unacked' = (unacked \/ flushed # doc)
      /\ timer' = (timer /\ ~(Open /\ Newer))
      /\ up' = IF Covers(srv, merged) THEN pushed ELSE Append(pushed, PushOf("exempt", srv, merged))
      /\ \/ /\ Open /\ editor = Text(merged) /\ sync.edited
            /\ UNCHANGED text /\ NoteDone(merged, TRUE)
         \/ /\ Open /\ editor # Text(merged) /\ Newer
            /\ editor' = shown /\ lastRemote' = shown /\ UNCHANGED <<disk, copies>>
            /\ NoteDone(Synced(merged, shown), TRUE)
         \/ /\ Open /\ editor # Text(merged) /\ ~Newer
            /\ UNCHANGED text /\ NoteDone(merged, FALSE)
         \/ /\ IF Open THEN editor = Text(merged) /\ ~sync.edited ELSE sync.read # Text(merged)
            /\ WriteText(Text(merged), sync.read, {}) /\ NoteDone(merged, FALSE)
         \/ /\ ~Open /\ sync.read = Text(merged)
            /\ UNCHANGED text /\ NoteDone(merged, FALSE)
      /\ lapses' = lapses \cup Rewound \cup (IF doc' # merged THEN {"unsent"} ELSE {})
                        \cup (IF flushed = doc THEN {} ELSE Reverted(doc, editor))
      /\ UNCHANGED <<server, phase, accepts, own, edited, dirty, stored, cache, cacheDirty, queues,
                     typed, counters>>

(* A request fails. That of the active note ends the sync, and so does any    *)
(* other of a sync that lost its socket; else the note is left as it is.      *)
RequestFails ==
  /\ sync.at \in {"asked", "adopting", "again"} /\ up # <<>> /\ Head(up).kind = "ask"
  /\ faults < MaxFaults
  /\ faults' = faults + 1
  /\ up' = Tail(up)
  /\ lapses' = lapses \cup {"failed"}
  /\ IF sync.first \/ sync.lost THEN SyncFails
     ELSE sync' = [sync EXCEPT !.at = "ending"] /\ UNCHANGED <<buffered, edited>>
  /\ UNCHANGED <<server, phase, accepts, doc, text, own, timer, unacked, persisted, caches, replaying,
                 replay, unheard, typed, drops, starts>>

(* The end: the cache and then the marks are replaced by what the sync knows. *)
SaveVVCache ==
  /\ sync.at = "ending"
  /\ cache' = IF lastVV = Nothing THEN NoCache ELSE [vv |-> lastVV, hash |-> sync.hash]
  /\ StoreVVCache
  /\ sync' = [sync EXCEPT !.at = "saved"]
  /\ UNCHANGED <<server, up, phase, accepts, doc, text, own, push, loro, fresh, dirty, lastVV,
                 queues, typed, lapses, counters>>

(* Then initialSyncRunning is false, and what was buffered is replayed. That  *)
(* two replays run at a time is left out.                                     *)
SaveDirtyPaths ==
  /\ sync.at = "saved" /\ ~replaying
  /\ ReplaceMarks(sync.dirty)
  /\ lapses' = lapses \cup (IF dirty /\ ~sync.dirty /\ ~(typed \subseteq sync.hash \cup copies)
                            THEN {"unmarked"} ELSE {})
  /\ sync' = NoSync
  /\ replaying' = TRUE /\ replay' = buffered /\ buffered' = <<>>
  /\ UNCHANGED <<server, up, phase, accepts, doc, text, own, push, loro, fresh, stored, caches,
                 unheard, typed, counters>>

Replay ==
  /\ replaying /\ replay # <<>> /\ ~fresh
  /\ UNCHANGED server
  /\ LET n == Head(replay).change
         vv == Head(replay).vv
     IN  \/ /\ Broadcast(n, vv)
            /\ replay' = Tail(replay) /\ UNCHANGED <<replaying, unheard>>
         \/ /\ CatchUpFails(n, vv)
            /\ replaying' = FALSE /\ replay' = <<>> /\ unheard' = TRUE
  /\ UNCHANGED <<phase, accepts, sync, buffered, drops, starts>>

(* The end takes the queue of a sync that began meanwhile with it. *)
SyncEnds ==
  /\ replaying /\ replay = <<>>
  /\ replaying' = FALSE /\ accepts' = TRUE /\ unacked' = FALSE /\ edited' = FALSE
  /\ buffered' = <<>> /\ unheard' = (unheard \/ buffered # <<>>)
  /\ UNCHANGED <<server, up, phase, doc, text, own, timer, persisted, caches, sync, replay, typed,
                 lapses, counters>>

---------------------------------------------------------------------------
(* The user, and other programs. *)

OwnChange(c) == own < MaxOwn /\ c = MaxPeer + own + 1 /\ own' = own + 1

(* Mutant: the edit does not mark the note. *)
TypeUnmarked ==
  /\ Open
  /\ \E c \in OwnChanges : OwnChange(c) /\ editor' = editor \cup {c} /\ typed' = typed \cup {c}
  /\ edited' = TRUE /\ timer' = TRUE
  /\ UNCHANGED <<server, up, phase, accepts, doc, disk, copies, lastRemote, unacked, persisted,
                 caches, sync, queues, lapses, counters>>

Type ==
  /\ Open
  /\ \E c \in OwnChanges : OwnChange(c) /\ editor' = editor \cup {c} /\ typed' = typed \cup {c}
  /\ MarkDirty /\ edited' = TRUE /\ timer' = TRUE
  /\ UNCHANGED <<server, up, phase, accepts, doc, disk, copies, lastRemote, unacked, loro, fresh,
                 stored, caches, sync, queues, lapses, counters>>

DebounceFires ==
  /\ timer
  /\ timer' = FALSE
  /\ IF Open THEN PushFile(editor) ELSE UNCHANGED <<up, doc, loro, fresh, lastRemote, unacked, lapses>>
  /\ UNCHANGED <<server, phase, accepts, editor, disk, copies, own, edited, dirty, stored, caches,
                 sync, queues, typed, counters>>

AutoSave ==
  /\ Open /\ disk # editor
  /\ disk' = editor
  /\ UNCHANGED <<server, up, phase, accepts, doc, editor, copies, lastRemote, own, push, persisted,
                 caches, sync, queues, typed, lapses, counters>>

OpenNote ==
  /\ phase # "closed" /\ ~Open
  /\ editor' = disk
  /\ UNCHANGED <<server, up, phase, accepts, doc, disk, copies, lastRemote, own, push, persisted,
                 caches, sync, queues, typed, lapses, counters>>

(* The file of a note that is not open changed. Until the first sync is done  *)
(* that is not taken notice of.                                               *)
Modified(content) ==
  /\ disk' = content
  /\ IF accepts
     THEN MarkDirty /\ PushFile(content)
     ELSE UNCHANGED <<dirty, lastRemote, doc, fresh, loro, up, unacked, lapses>>

CloseNote ==
  /\ Open
  /\ editor' = Closed
  /\ IF disk = editor THEN UNCHANGED <<disk, dirty, lastRemote, doc, fresh, loro, up, unacked, lapses>>
     ELSE Modified(editor)
  /\ UNCHANGED <<server, phase, accepts, copies, own, timer, edited, stored, caches, sync, queues,
                 typed, counters>>

ExternalEdit ==
  /\ ~Open /\ (accepts \/ Hidden)
  /\ \E c \in OwnChanges :
       /\ OwnChange(c) /\ Modified(disk \cup {c})
       /\ typed' = IF accepts THEN typed \cup {c} ELSE typed
  /\ UNCHANGED <<server, phase, accepts, editor, copies, timer, edited, stored, caches, sync,
                 queues, counters>>

Next ==
  \/ PeerChange
  \/ Start
  \/ Drop
  \/ Abort
  \/ ReplayFails
  \/ Quit
  \/ Crash
  \/ FlushVVCache
  \/ Connect
  \/ ServePush
  \/ Listed
  \/ CleanSkip
  \/ HashSkip
  \/ FullSync
  \/ Adopt
  \/ ConflictCopied
  \/ Readopt
  \/ Disjoint
  \/ Merge
  \/ RequestFails
  \/ SaveVVCache
  \/ SaveDirtyPaths
  \/ Replay
  \/ SyncEnds
  \/ Type
  \/ DebounceFires
  \/ AutoSave
  \/ OpenNote
  \/ CloseNote
  \/ ExternalEdit

Spec == Init /\ [][Next]_vars

---------------------------------------------------------------------------
(* What the code is known not to make up for, each recorded where it happens:  *)
(*   exempt    a push of an initial sync is lost with its connection;          *)
(*   bound     a broadcast binds the server's vector to a text with changes    *)
(*             that the server does not have;                                  *)
(*   unmarked  the end of a sync takes away a mark that was made during it;    *)
(*   unsent    a text goes into the document beside the merge, without a push; *)
(*   failed    a request failed: the hash of a text that was not synchronised  *)
(*             enters the cache, or the sync ends with the document ahead;     *)
(*   unsaved   a crash took what the editor had not saved, but .loro has;      *)
(*   rewound   setValue replaced a text that was typed meanwhile;              *)
(*   doubled   a text got a history of its own, and it met the server's;       *)
(*   reverted  an old text was taken for a deletion;                           *)
(*   overlapped  a connection began while the last sync replayed its queue.    *)
Shown == IF Open THEN editor ELSE disk

(* Text of this device is in the file, in an editor, in a conflict copy or in *)
(* the document, whatever the sync decides to write over it                   *)
(* (sync-initial.ts, writeServerText and the conflict copies).                *)
OwnTextIsKept ==
  lapses \cap {"unsaved", "rewound", "reverted"} = {} =>
    (MaxPeer + 1)..(MaxPeer + own) \subseteq Shown \cup disk \cup copies \cup Text(doc)

(* A note that is passed over because of the cache has all that the server    *)
(* listed, in its document and in its file - over crashes that lose or tear   *)
(* the cache, syncs that end half way and syncs that outlive their            *)
(* connection, as long as no request failed, no unsaved text was lost, no     *)
(* text got a second history or was taken for a deletion, and no sync began   *)
(* beside a replay.                                                           *)
SkipsAreSound ==
  [][(/\ sync.at = "planned" /\ sync'.at = "ending"
      /\ lapses \cap {"failed", "unsaved", "doubled", "reverted", "overlapped"} = {}) =>
       Covers(doc, sync.listed) /\ Text(sync.listed) \subseteq Shown]_vars

(* The next initial sync would not pass the note over. *)
Outdated == cache = NoCache \/ cache.vv # srv
Traced == Outdated \/ ((dirty \/ unacked) /\ Shown # cache.hash)

(* After a sync, with nothing on the way, typed text is with the server or in *)
(* a copy, or the marks and the cache make the next sync deal with it. The    *)
(* note shows all that the server has, or, if frames of its connection passed *)
(* unheard, the next sync will see that.                                      *)
AtRest == Online /\ ~Running /\ ~replaying /\ up = <<>> /\ ~timer /\ accepts
Lost == {"exempt", "bound", "unmarked", "failed", "unsaved", "rewound", "doubled", "reverted",
         "overlapped"}
NothingForgotten ==
  AtRest /\ lapses \cap Lost = {} =>
    /\ typed \subseteq srv.ops \cup copies \/ Traced
    /\ (Covers(doc, srv) /\ Text(srv) \subseteq Shown) \/ (unheard /\ Outdated)

(* Stated by a comment at sync-initial.ts:968 and not so: the push of an      *)
(* initial sync, of which sentUnacked knows nothing, "is reconciled by this   *)
(* same initial-sync run".                                                    *)
ExemptPushIsReconciled ==
  AtRest /\ lapses \subseteq {"exempt"} => typed \subseteq srv.ops \cup copies \/ Traced

(* Stated by a comment at sync-engine.ts:497 and not so: a connection that is *)
(* lost is made up for on "the normal reconnect/initialSync healing path".    *)
(* The sync of a reconnect is skipped while an older one runs.                *)
ReconnectHeals ==
  AtRest /\ lapses = {} => Covers(doc, srv) /\ Text(srv) \subseteq Shown

=============================================================================
