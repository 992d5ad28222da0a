# VaultCRDT, formally

TLA+ specifications of the VaultCRDT Obsidian plugin (TypeScript, `src/src/`): what its
synchronisation core promises, checked by TLC on small instances and, where that is possible,
proved by TLAPS for every value of the constants. Paths below are relative to the repository
(`src/<file>.ts` is the plugin's own `src` directory, `src/src/<file>.ts` in PROJECT.json).

Read this file first, then the modules in the order of the table in section 3. Every
definition that stands for code is listed with its lines in PROJECT.json under "map".

## 1. The system

A vault is a directory of notes (Markdown, merged as CRDT documents by the Rust core compiled to
WebAssembly) and attachments (blobs, content-addressed). The plugin keeps it in step with a
server over one WebSocket for notes and over HTTP for attachments. All of the plugin's code runs
on one JavaScript thread: what interleaves are callbacks, timers, vault events and the
continuations of `await`s, and the process can be killed between any two of them.

| Component | State it keeps | Operations | Talks to |
|---|---|---|---|
| SyncEngine (`sync-engine.ts`) | socket, `socketEpoch`, reconnect timer, queue of broadcasts, `stopped`, suppressed paths | start, stop, restart, connect, handlers of every frame, keep guard, tombstone refusal | all others |
| SyncRequestBroker (`sync-broker.ts`) | FIFO per path of `sync_start` requests, drain timers | requestSyncStart, deliver, fail, rejectAll | SyncEngine (send, close) |
| Initial sync (`sync-initial.ts`) | none of its own; the dirty marks and snapshots it takes | list, partition, push / pull / merge of every path, clean skip | broker, PushHandler, DocumentManager, StateStorage |
| PushHandler (`push-handler.ts`) | debounce timers, `pendingDeletes` and its journal, unacked edits | onFileChanged, onFileDeleted, sendDocDelete, resend, reconcile, markRecreateIntent | SyncEngine, StateStorage, OwnershipCache |
| OwnershipCache (`ownership-cache.ts`) | token per path, requests under way | grants, removals, resolve, save | server, StateStorage |
| DocumentManager (`document-manager.ts`) | loaded documents, loads under way | getOrLoad, persist, rename, remove | StateStorage |
| StateStorage (`state-storage.ts`) | files under the plugin's directory | raw reads and writes | adapter |
| BlobIndex (`blob-index.ts`) | entries and cursor in memory, FIFO of writes, two files, retry timer | load, update, remove, move, advanceCursor, flush, dispose | StateStorage |
| BlobUploader (`blob-uploader.ts`) | uploads and catch-up under way, deferred rows | upload, catch-up, delete decisions, republish | BlobIndex, PathEffects, server |
| BlobDownloader (`blob-downloader.ts`) | downloads under way | hydrate, fetch, write | BlobIndex, PathEffects |
| PathEffects (`path-effects.ts`) | effects under way per path | begin, supersede, settle | uploader, downloader |
| Smaller ones | PromiseManager, ServerFeatureCache, StartupDirtyTracker, FileWatcher, EditorIntegration, Inbox, ObsidianSync | | |
| Rust crates | CRDT documents, text diff, blob path keys | | Loro |

Which behaviours are hard:

* *Ordering without identifiers.* An answer to `sync_start` names a path and no request. One slot
  of `doc_list` serves every caller. An error frame names a document and not a message.
* *Awaits.* `sendDocDelete`, the keep guard, the catch-up of attachments and the initial sync read
  state, wait for the disk or the network, and act on what they read.
* *Crashes.* Files are written in place, so a crash can tear them; a delete is journalled, pinned,
  sent and acknowledged in four separate steps.
* *Two connections.* `connect()` replaces the socket without closing the one before.
* *Limits and time.* Queue overflow, request timeouts, drain deadlines, retries with back-off.

What makes each part correct, in a sentence: the index never loses what it stored and `flush()`
never says more than the disk; a call to the broker gets the answer to that very call or a
rejection, and no path blocks for ever; a delete goes out once, only for the life of the note the
user deleted, and never over a note written again; the attachment cursor only certifies rows that
were applied; a note with edits the server does not have is never trashed; a document is loaded
once; a clean-skip never skips a note that changed. PROJECT.json lists the hazards line by line.

## 2. Plan

Done: the two layers below (the index on disk, the requests on the socket), the deletes of notes
across their four components, the catch-up of attachments over many rows, one attachment in depth,
one note in depth, both live (broadcasts, editor, file) and over restarts (caches, initial sync), and one
note of several devices through deletes and recreations.
What is left, in this order:

1. Proofs of NothingLost and SyncsAgree of NoteLives; every other safety property that a passing run checks is a
   theorem (section 7).
2. The keep guard of `onDocDeleted` and the probe of a refusal await by await (`sync-engine.ts` 1102-1272,
   1377-1459): NoteLives decides and acts in one step.
3. **DocumentManager**: loads under way against removal and rename; PromiseManager; Inbox.
4. The catch-up and BlobIndexStore in one model, with the write queue of the index under the pass.

The runs stay few: each module has one safety run, with liveness and refinement in it where it has
any, and a violated claim of the documentation has one of its own.

## 3. Modules

| Module | Models | Kind |
|---|---|---|
| DurableRegister | what an index that survives crashes promises | abstract specification |
| BlobIndexStore | `blob-index.ts` | component |
| BlobIndexStoreProofs | theorems about BlobIndexStore | proofs |
| CorrelatedCalls | what a caller of requestSyncStart is promised | abstract specification |
| SyncBroker | `sync-broker.ts`, and the socket lifecycle of `sync-engine.ts` | component |
| SyncBrokerProofs | theorems about SyncBroker | proofs |
| MCSyncBroker | paths of the requests, symmetry | instance |
| MCDeleteIntents | a budget that excludes what costs states and shows nothing new | instance |
| DeleteIntents | deletes of one note across `push-handler.ts`, `ownership-cache.ts`, `sync-initial.ts`, `sync-engine.ts`, `main.ts` | composition |
| DeleteIntentsProofs | theorems about DeleteIntents | proofs |
| BlobCatchUp | the catch-up of `blob-uploader.ts`, with what it needs of uploads, downloads, `path-effects.ts` and the index | component |
| BlobCatchUpProofs | theorems about BlobCatchUp | proofs |
| BlobPath | one attachment in `blob-uploader.ts`, `blob-downloader.ts`, `path-effects.ts`: its content, entry, uploads, delete, download, lane | composition |
| BlobPathProofs | theorems about BlobPath | proofs |
| NoteMerge | one note on an open connection: `onDeltaBroadcast` of `sync-engine.ts`, `push-handler.ts`, `editor-integration.ts`, `file-watcher.ts`, the vault events of `main.ts` | composition |
| NoteMergeProofs | theorems about NoteMerge | proofs |
| NoteStartup | one note over restarts: `sync-initial.ts`, `startup-dirty-tracker.ts`, the version-vector cache of `sync-engine.ts` and `state-storage.ts` | composition |
| NoteStartupProofs | theorems about NoteStartup | proofs |
| NoteLives | one note of several devices through its lives: `sync-engine.ts`, `push-handler.ts`, `sync-initial.ts`, `conflict-utils.ts`, what `document.rs` gives them | composition |
| NoteLivesProofs | theorems about NoteLives | proofs |
| MCNoteLives | roles for three devices: one is late, one stays connected | instance |

### 3.1 BlobIndexStore

State: the two files (`main`, `bak`), the memory of the instance (`file`, `poison`), the exclusive
FIFO `this.writes` (`queue`, and `task` for the one that runs), `lastPersistError` (`err`), the retry
timer, `disposed`, one caller of `flush()`, and `verified`, a history variable with the last
snapshot that was read back from the disk.

The content of a file is the *set of updates* it reflects, so that a lost update is a missing
element. A file may also be absent or torn. The decision of a task (rotate the backup, restore
the main file from it, write) is one step with the reads it rests on, because no other task
touches the files meanwhile. A write is in progress between two steps; when it ends, fails or is
cut off by a crash, the file may hold the old bytes, the new bytes or torn ones.

Assumptions, and where they come from: `load()` runs once per instance and is awaited before
anybody can call the instance (`main.ts` 79-87). An instance that was disposed has stopped writing
when its successor loads; the code says so in the comment at `blob-index.ts` 144-145 but
does not enforce it: shutdown only calls `dispose()` (`main.ts` 962-985); the hazard is listed and not
covered. The quarantine copy of a corrupt file is never read and is left out.

### 3.2 SyncBroker

State: the part of SyncEngine that owns the socket (`stopped`, connect attempts under way, the
reconnect timer, `ready`, `epoch`), the set of sockets that still deliver frames (`alive`), and the
broker (`queue`, `stamp`, `call`, `drain`). `wire[s]` is external: what the server still owes on socket `s`.

The server answers the requests of one socket in order. The client relies on it (`sync-engine.ts`
705-710 dispatches by path only), and an error frame that names a document is taken to answer the oldest
`sync_start` of that document. A `sendHead` that throws is any failing prefix of the queue. Timers fire at any
moment, so a timeout is never excluded by time.

Attempts to connect may overlap: `restart()` twice in a row, or a reconnect whose `auth()` is in flight across
`stop()` and `start()` (`sync-engine.ts` 470-478 does not look at `stopped` again). Then `connect()` puts a new
socket in the place of one that is in use and does not close it. The history variable `replaced` is TRUE from there
until all sockets have closed. Meanwhile the one-slot rule fails, and with it the promise to callers (section 6);
and if the socket that is replaced was already closing because of the drain deadline, its `onclose` returns early (438) and the
slot of the request that gave up stays taken until the next close, because the deadline fires once. SlotUntilDrained,
ImplementsCalls and SlotReleased say that nothing else breaks the rule, the promise or the release, and
the first two that both hold again afterwards.

### 3.3 DeleteIntents

One note, one device, the server and any number of peers. `sendDocDelete` is a coroutine per
intent: `task[i].pc` is the await it is in. After every await the intent must still own the journal
entry (`Owns`). The journal is one file written by a FIFO whose writes take their snapshot when
they run (`chain`). The server gives each life of the document an incarnation (`live`, `next`) and serves a
delete only for the incarnation it attests. The initial sync is three steps (list, partition,
the step of the path's class), with everything else interleaved.

`admitted` is the newest intent at the moment this device's last local recreation was
accepted, `wrote` that value when its write reached the server: "this device wrote after asking for
delete *i*" is `wrote >= i`. It counts for as long as the note stays in the vault; when it leaves, `wrote` is 0
again. Two things ask for this. The user who deletes the note has asked for a later delete, whose own frame may be behind. And a
crash before the consumption of an intent is saved brings the intent back: if the note is moved away before the
first sync of the restarted plugin, nothing consumes the intent again, and its delete is sent, with the token it pinned, to the
note the same device wrote meanwhile. With one user write no run reached that; the bound is two now.

Left out: `doc_tombstoned` and its refusal (NoteLives has it); broadcasts of edits; case-only renames; the pull and push
modes of onboarding; servers without incarnations; the 600 ms check for replaced files; `stop()`
and `start()` of one engine, which reload the journal in place while a coroutine may run (listed
as a hazard). A vault change made while the application is closed or during the first sync is the same
change with its event suppressed. A lost connection loses every frame in it.

### 3.4 BlobCatchUp

Any number of paths, the server's table of rows, and the lane. A row is the number the server gave it
and whether it is live; the row of a path that is written again moves to the end. `pass` is the
running `runCatchUp`: `at` is the await or the step it is in, `p` and `fence` as in the code,
`todo` the rest of the page. A page is the lowest `PageSize` rows above `p` at the moment the server
answers. `apply` is the state between the check for work under way and the mutation after the
last await, so that uploads, answers and peers act in between.

The index keeps of an entry its number and whether a decision is pending. Which branch
`applyRemoteLive` and `applyRemoteTombstone` take depends on the file, and is a choice here. A path is
busy from the queueing of an upload to its end (`queued`), and while a download is registered
(`effects`); `posted` is a POST the server accepted and whose answer is not there yet.

`index.flush()` is one step that stores memory or fails; BlobIndexStore has the queue behind it, and
its FlushMeansStored is what this step takes for granted. The other writes of the index are
Persist, at any time. A crash brings back what was stored.

`catchUpRequest` and `catchUpWork` are cleared by continuations of one promise that are a few
microtasks apart. PassOver takes them as one step: no event is handled in between. A
settlement in the very same drain of microtasks could fall there, and would then be lost.

Left out: local deletes and renames, generations (the server accepts or refuses), malformed answers
(the pass ends as for a failed request), servers without `max_seq`, a poisoned index.

### 3.5 BlobPath

The catch-up model knows numbers only; this one follows *contents*. One attachment: the server's row
(`row`), the file, the entry (hash, `lastRemoteHash`, decision, the content whose mtime it holds), and at most one
coroutine of each kind, with the await it is in: `ups` per upload slot, `del`, `hyd` (the download), `lane`
(catch-up of one row, then the reconciliation of decisions). `superseded`, `selfDelete`, `gateBlocked`,
`queued` and `waiting` are the fields of the code. A crash keeps the file and `stored`; the path lock of the download is the
`"write"` state that ReconcileTrashes waits for. A torn file write is the content Torn.

Contents are numbered as they are written and all of one size: the size test of the sweep never
helps, its mtime test does. An mtime is named by the content that was there with it; a file that is written again, also with
the same content, has another one, so that an entry with the old mtime then holds Stale. The history variables say what the
user wrote last (`mine`), who removed the file (`gone`), and which shortcuts of the code the session has taken (`lapses`).

RestIsNoticed is stated for sessions without three of the lapses: `unseen` and `unposted` are what two configurations of
section 6 show, `passed` is the lane taking a row beside an upload or leaving a live row to an unindexed file. It also leaves out
one state: no sweep and no download looks for a file that is missing while its entry is skipped (Abandoned; the sweep
is for "missing hydrated, non-skipped index paths", `docs/architecture.md` 39). NothingLost holds across all lapses
but `overwritten`, a download that writes over an edit made after its comparison. RemoteDeletesNotEchoed holds across
all but `strayed`, and speaks of deletes the plugin carried out for a peer. It does not speak of two other ways in which the
plugin publishes a delete that no user asked for, both met while its invariant was sought:

* The compensation of a download (`blob-downloader.ts`) trashes what it finds at the path, also a file the user has
  edited since; the content is in the trash, and the sweep later takes the missing file for a delete by the user (`gone` is "undone").
* An upload that runs while the reconciliation trashes its file gets its answer afterwards and indexes the path
  again, without a file; the sweep then posts a delete. The same follows when the vault event of that trash is taken
  for the event of an earlier compensation (`strayed`).

Left out: generations (the server may refuse any write), the mark of an entry as skipped when the server refuses the attachment itself
(413, 422; `blob-uploader.ts` 678-702), other paths and renames, pages of rows, the files of the index, the category rules of `.obsidian`.

### 3.6 NoteMerge

One note while the socket is open, starting in an initial sync that is done with this note and busy with others.
A text is a set of insertions; nobody deletes text, so that every deletion in the document is one no user
asked for. An operation whose author knew others that are missing is held back, as Loro does.
`run` has the two chains that handle broadcasts - the live one and the replay of the buffer - each
with its await: the catch-up request, the read of the file (`hook`), the copy, the two comparisons of
`writeToVault`. `reads` are vault events waiting for `vault.read`, `writing` and `lastRemote` the echo
guard, `timer` the debounce, `scanning` the focus scan.

`lapses` records what a session skipped: typing inside the window of a remote write sets no timer
(`muted`), a debounce after the note was closed pushes nothing (`closed`), a guarded read is dropped when the
note was opened meanwhile (`opened`), vault events are refused until the replay is done (`suppressed`), a
broadcast dropped by the full queue (`dropped`), a failed request leaves the document ahead of the file and,
in a replay, the events refused (`failed`), the two chains write the note one after the other with texts of
different age (`overtaken`), the editor is pushed while a change is on its way to it (`beside`), the editor is folded
in without a push after a catch-up (`unsent`). ConvergesAtRest is stated for sessions without a lapse,
RevertsOnlyBesideAWrite names the three under which text can be deleted that nobody deleted;
OwnTextIsKept holds in all of them.

Left out: where in the text an insertion stands, Excalidraw files, `resolveDisjointHistory` on a live broadcast.

### 3.7 NoteStartup

One note over starts, crashes, lost connections and initial syncs. A version is the set of its insertions and the
set of the deleted ones; a version vector names a version; a hash is its content. `sync` is the initial
sync of the note: what was cached, what the server listed, what was read from the file, and the step it is in. Its branches
are actions: CleanSkip, HashSkip, FullSync, Adopt (no local document), ConflictCopied, Readopt,
Disjoint, Merge. What survives a crash is the file, `.loro` (`loro`), the marks (`dirty`) and the cache
as last stored (`stored`), and the cache file can be torn; the debounce of the cache's save, the marks'
write-through and the end of the sync (saveDirtyPaths, each frame of the replay, the first vault events) are steps of their own.

The initial sync does not end with its connection. `onclose` only rejects what is waited for (`sync-engine.ts` 453-454), so Drop fails
a sync that waits for an answer (Waits); one that does not goes on without its socket (`lost`): it skips the note, saves cache and marks,
replays and accepts vault events. A request for another note may still end it (Abort), at once without a connection. A
reconnect that finds it running starts no sync (518-521): Connect then only sets `unheard`, and what changed between the two sockets
is in no list and no frame. The replay runs after `initialSyncRunning` is reset (563): live frames are handled beside it,
so that one of them may overtake those that wait, meets a gap, and asks for the rest (CatchUp, or CatchUpFails); and
a sync of a new connection may begin beside it (the lapse `overlapped`). NothingForgotten says what remains: the note shows all that
the server has, or frames passed `unheard` and the cache that was saved makes the next sync ask for them. That the note stays behind until then,
with the status "connected", is the code's gap; NoteStartup_skipped.cfg shows it (section 6).

The lapses are listed at the property: `exempt`, `bound`, `unmarked`, `failed`, `unsaved`, `rewound`, `doubled`, `reverted` and
`overlapped` excuse NothingForgotten, because each loses track of a change by itself (all of them are in PROJECT.json as
hazards). SkipsAreSound is asked without `failed` (the hash of an unsynchronised text enters the cache), `unsaved`, `doubled`, `reverted` and
`overlapped`; OwnTextIsKept without `unsaved`, `rewound` and `reverted`.

A version vector names a version here; that a device numbers the operations of every document from the first,
so that two lives may share a vector, is in NoteLives.

Left out: blank local text, Excalidraw, the user deleting text, a broadcast to a note with a history of its own, a sync started from the settings, the
second pass after an overflow of the queue (NoteMerge has it), two replays at a time; a catch-up is one step with the broadcast that asks for it,
and the persist of `.loro` happens with the step it belongs to. The hash check takes the content that was read ahead, also when an editor was
opened since, as the code does (Effective).

### 3.8 NoteLives

Several devices and the server, with what the other note models leave out: a note that is deleted and created again gets a
new *life*, a history that has nothing to do with the one before. A document is, per device that wrote in it, a sequence of
operations. `derive_peer_id` gives every document of a device the same author, and each new document counts from the first
again (`document.rs` 17-30, 181-203), so a version vector is the lengths of the sequences and cannot tell lives
apart; the operations carry their life for the properties only.

`note[d]` is the file, the document, the copies saved beside the note, the entry of `pendingDeletes` (sent, or kept as a
recreate intent), `serverTombstones` and `sentUnacked`. The handlers are one step each: the push of an edit, the delete,
`onDeltaBroadcast`, `create_conflict`, `onDocDeleted`, `handleDocTombstoned` with its probe, and the initial sync with the class its
partition puts the note in (Creates, Overlaps, Tombstoned, adoption, the resend of an intent). A socket may be lost without a close: what is
sent into it is gone, and the device does not know.

The server is external: it refuses a push to a tombstone, rejects a disjoint history, merges and broadcasts the rest, and keeps the hash of a
deleted text, as the MiniServer of `src/__tests__/divergence.test.ts` does. Its `doc_deleted` frames carry that hash, which the plugin
reads (`sync-engine.ts` 752-764).

Four excuses bound the claims. Three are a weakness of the code that a run or configuration of section 6 shows: `clashed`, a document met one that
numbers different operations alike, so that Loro takes one for the other; `flushed`, an open editor was written into a document on the way to
an import; `caught`, a catch-up imported a history with which the document shares nothing. The fourth is `intended`, a recreate intent made
for a note without a file. The proof of OneLifePerDocument found `caught`: it needs three devices, so that the run with
two cannot meet it; MCNoteLives_caught.cfg shows it. SyncsAgree also leaves out the recreation of a note that
lives again: the recreate pass pushes and fetches nothing (`sync-initial.ts` 540-556), so the device sees the rest with the next broadcast.
What the model shows besides: a note created again after a live `doc_deleted` is refused and moved aside, because only a
list of documents sets `serverTombstones`; its text lives on under the other name.

Left out: the sync of an open note ahead of the recreate pass (`sync-initial.ts` 244-251; DeleteIntents has it), the merge instead of a conflict copy
for a note that was typed in during the sync (861-866; NoteStartup has it), the awaits inside a handler, the flush before a catch-up (NoteMerge has it), Excalidraw, servers without hashes, deletes made while the socket is closed
(DeleteIntents has them), changes that Loro holds back, text that a user deletes.

## 4. Runs

| Run | Question | Bounds |
|---|---|---|
| blob_index | Are types right, is anything stored ever lost, does a start serve what was stored, is `flush()` truthful, is the store a crash-proof register, and is an update stored in the end? | 3 updates, 3 I/O faults, queue 2; any number of crashes |
| broker | With attempts to connect that overlap: is a slot kept until its answer can no longer come and do calls get their own answer in order, whenever no socket is replaced, and does the drain deadline close only a socket that owes the answer? | 4 calls on 2 paths, 3 sockets, 2 starts |
| broker_released | Does every request leave its queue even if the server is silent? | 3 calls on 2 paths, 3 sockets, 1 start at a time |
| deletes | Does a delete ever hit what was written after it, is it sent once, and never before its attempt is durable? Two intents and peers that delete and create race on one connection; one intent meets a reconnect, a restart with a torn journal and a failing disk | 2 intents, 2 incarnations, 2 user writes, 2 connections, 1 restart, 1 fault, within the budget of MCDeleteIntents |
| catchup | Does the cursor certify only rows the index knows, is a deferred delete taken up again, does the lane come to rest? | 2 paths, pages of 1, 3 rows, 2 syncs, 1 upload or download; crashes between the syncs |
| blob_path | Is a content of this device ever lost unasked, will every disagreement be noticed, is a delete applied for a peer ever published? | 2 contents, 3 rows, 1 act of the user, 1 fault (lost answer, closed gate, missed event or crash) |
| note_merge | Is own text kept, do file and document agree at rest, when can a peer's change be taken back? | 2 changes of peers, 1 own, queue of 1, 1 failing request; panes, external edits and scans |
| note_startup | Are the skips of the initial sync sound, is own text kept, would the next sync find what this one left? | 2 changes of peers (and one before), 1 own, 1 lost connection, 1 restart or crash, 1 failing request |
| note_lives | Do histories of two lives ever meet in one document, does a word disappear that nobody deleted, does an initial sync end with the server's note? | 2 devices, 3 words, 2 deletes, 2 lost connections |
| delete_lost, note_reverted, lives_mixed | *Violated:* the three findings of section 6 | small |

Why the bounds suffice: in the index, two files and one running write make three generations
of content, so three updates tell all of them apart; three faults reach a failed rotation, a
failed write, and a failed retry. In the broker, hazards need a head, one that waits behind it
and a second path: two calls per path; and a replaced socket, its replacement, and the next. In the catch-up, pages of one row put a
border behind every row; three rows are one to certify, one that moves it beyond the fence and one to
meet the work under way. For deletes, two
intents are an owner and its successor, two incarnations an old and a new life. For one attachment, two
contents are the user's and a peer's beside the one both start from, and three rows let a peer's write fall
before and after the answer to an own one. For a note, two changes of peers are the
one that is on its way to the editor and the one that comes meanwhile (or the missing one and the one that shows the gap),
and one own change is enough for every property, since each speaks of a single change. For the lives of a note, two deletes make three lives, three words
give a life to each or meet an edit with a delete, and two lost connections let both devices be away, or one send into a dead socket. A larger
instance of note_startup (three changes of peers, no failing request: 11.2 million states) passes too and is left out for its time, as are
a delete over two incarnations, two connections and a restart (4.8 million) and a catch-up with two uploads
or downloads over three rows (4.9 million).

The budget of MCDeleteIntents bounds the product of the dimensions: a state with two intents or two incarnations used has no restart
and no fault, and a second connection limits writes, restarts and faults together. Every state that is reached
before is explored with all its steps.

Deadlock is checked in the index, the broker and the catch-up. The other runs say `CHECK_DEADLOCK FALSE`:
a quiet vault with its bounds used up has nothing to do.

Each property of a passing run is paired in PROJECT.json with a mutant, a plausible mistake in the code
under which TLC finds that property violated.

## 5. Fairness

* BlobIndexStore: weak fairness of the steps of the write queue, of the retry timer and of
  `flush()`. Promise chains run, adapter calls settle one way or the other, timers fire while the
  application runs. I/O faults are bounded by `MaxFaults`: a disk that fails for ever stores
  nothing. Nothing is assumed about loads, updates or crashes.
* BlobCatchUp: weak fairness of the steps of the pass. Each of its awaits is a request, which answers
  or fails, or a promise of this program. Uploads and downloads may take for ever, and the server
  need not announce anything.
* SyncBroker: weak fairness of the close of a closing socket (the WebSocket API delivers
  `onclose`) and of each request's two timers. Nothing is assumed of the server, so the run
  shows that a silent server cannot block a path.
* DeleteIntents, BlobPath, NoteMerge, NoteStartup, NoteLives: none; their properties are safety properties. What
  must happen eventually is stated there as a property of the states at rest: in BlobPath and NoteStartup,
  that something (a decision, a mark, the cursor, a cache that does not match) will look at the path again.

## 6. Findings

Three runs refute what the repository says of the program:

* **A lost delete hides the note** (delete_lost). An intent that was sent and lost in a crash is attempted
  but not acked: it is never sent again, the reconciliation keeps it as long as the note is live, and
  the initial sync hides its path from the downloads. The note is neither deleted nor restored,
  while `push-handler.ts` 415 says it reappears and 398 that it is retried.
* **A change taken for a deletion** (note_reverted). A broadcast that shows a gap is in the document and not yet in the
  editor when `sync-engine.ts` 978 folds the editor into the document, before the catch-up: the change is taken
  for deleted text, and the deletion is pushed. `docs/architecture.md` 171 says such edits merge through
  Loro. A gap arises when a live frame overtakes buffered ones, so the queue of the initial sync is enough.
* **Two lives in one document** (lives_mixed). The keep guard removed the document and left the file, open in an editor. The broadcast of
  the note's new life finds an empty document, which passes the check for disjoint histories (`sync-engine.ts` 867); then
  `flushPendingEdits` (899) writes the editor's text into it, and the import merges two independent histories. `sync-initial.ts` 890 says they
  must not be merged. The server rejects the flushed push, and the adoption that follows saves the doubled text as a copy.

Further configurations in this directory each refute one more sentence; they are not among the runs
and can be repeated with `tlc -config <file> <module>`:

| Configuration | Module | Refutes |
|---|---|---|
| MCSyncBroker_slot.cfg | MCSyncBroker | "a timed-out owner retains the slot until drain" (`sync-broker.ts` 15), when two attempts to connect overlap: `connect()` does not close the socket it replaces, and the drain deadline of a request of the older one frees the slot although its answer may come |
| DeleteIntents_keep.cfg | DeleteIntents | "no `doc_delete` is sent" for an entry of markRecreateIntent (`push-handler.ts` 209): made after the snapshot of the next sync it looks like an unsent delete, and if a peer created the note again, the resend deletes it |
| BlobCatchUp_ack.cfg | BlobCatchUp | "a row defers while an upload is in flight" (`docs/architecture.md` 222-224): only deletes do; a late answer to an older upload then makes an entry that looks current and hides the row |
| BlobCatchUp_announced.cfg | BlobCatchUp | "WS `blob_path_changed` schedules this HTTP catch-up" (`docs/architecture.md` 232-233): `catchUp()` returns the request that exists, also when its pass has fixed its fence, and only deferred work asks for a trailing pass (`blob-uploader.ts` 725); the change waits for the next announcement or reconnect |
| NoteStartup_exempt.cfg | NoteStartup | the push of an initial sync "is reconciled by this same initial-sync run" (`sync-initial.ts` 968): the cache is saved with the hash of the pushed text; if the push is lost with its connection, the hash check of the next sync passes the note over (458) and clears its mark |
| NoteStartup_skipped.cfg | NoteStartup | a connection that is lost is made up for on "the normal reconnect/initialSync healing path" (`sync-engine.ts` 497-498): a sync that waits for no answer runs on without its socket, the reconnect's sync is skipped (518-521), and what changed between the two sockets stays unheard until the next connection |
| NoteLives_reused.cfg | NoteLives | "shared history is tested by overlapping peer keys" (`docs/architecture.md` 172): a device that creates a note anew numbers its operations from the first again, so that a document of the old life shares keys and even operations' numbers with the new one, is merged with it, and silently lacks its text |
| MCNoteLives_caught.cfg | MCNoteLives | "Two independent CRDT histories with the same end text MUST NOT be merged through Loro" (`sync-initial.ts` 890): a note is deleted while a broadcast with part of it is on its way to a device, and another one, back after a while, creates its old text anew. The broadcast finds an empty document, so nothing is disjoint; it shows a gap, and the catch-up imports the other life (`sync-engine.ts` 985-992) without `hasSharedHistory`. Three devices, 4 words, 2 deletes, 2 lost connections, in the roles that MCNoteLives gives them |
| BlobPath_edits.cfg | BlobPath | the sweep is there "to discover missed creates and modifications" (`docs/architecture.md` 39): `onFileChanged` drops an edit made while its path is being uploaded (`blob-uploader.ts` 179), and the answer records the mtime of the new content with the hash of the old one (705-713); when the edit kept the size, nothing looks at it again |
| BlobPath_deletes.cfg | BlobPath | deleting an attachment posts a tombstone (`CHANGELOG.md` 216-217): with the gate closed or the tombstone refused the entry is removed and nothing posts it later (`blob-uploader.ts` 371-388) |
| NoteMerge_rewound.cfg | NoteMerge | typing while another device edits does not rewind the editor (`CHANGELOG.md` 227): the full rewrite in `writeToVault` replaces what was typed after its comparison |
| NoteMerge_unsent.cfg | NoteMerge | a burst of edits is sent after two seconds at the latest (`CHANGELOG.md` 248): text folded in after a catch-up is not pushed (`sync-engine.ts` 999), and typing in the window of a remote write sets no timer |

## 7. Proofs

`BlobIndexStoreProofs.tla` proves, for every set of updates and every bound, from the one
assumption `StoreAssumption` (the contents "absent" and "torn" are not sets of updates, and the bounds
are natural numbers):

| Theorem | Says |
|---|---|
| Inductive | `Spec => []IInv` |
| TypeCorrect | `Spec => []TypeOK` |
| Durability | `Spec => []NoDurableLoss` |
| NeverServesLess | `Spec => []ServesWhatIsStored` |
| Refinement | `Spec => Register!Spec`: the files and the queue implement DurableRegister |
| FlushStores | `Spec => []FlushMeansStored` |

NoDurableLoss is not inductive: a state in which a queued snapshot is older than the disk, or in
which the file being written is the only valid one, satisfies it and one step later does not.
`IInv` adds what rules such states out: snapshots wait in the order they were taken, none older than the
disk nor newer than memory (QueueOrdered, TaskOrdered); the backup is the older file, and the file
being written is never the only valid one (OtherFileValid); what each phase of an instance's life has and does not have
(PhaseInv); and what was read back is still there (StoredInv). The proof has one
lemma per action. The refinement follows from IInv: each step either leaves the mapped state as it is
or is one abstract step, Store being the end of a write of a snapshot that memory held.

FlushMeansStored needs an invariant of its own, FlushInv, on top: the newest snapshot pending is memory itself (NewestPending), a retry repeats
the snapshot before it (RetriesRepeat), and a failure stands in `err` until a newer write succeeds. So what a waiting `flush()`
needs is in every snapshot at or behind the place in the queue it waits for (Reached), and when that place is
passed without an error, it is on the disk.

`BlobCatchUpProofs.tla` proves, for any set of paths, any page size and any bounds, from
`CatchUpAssumption`:

| Theorem | Says |
|---|---|
| TypeCorrect | `Spec => []TypeOK` |
| CursorAlwaysCertifies | `Spec => []CursorCertifies` |
| DeferredAreRetried | `Spec => []FollowUpScheduled` |

CursorCertifies says nothing about a pass before it certifies. The invariant adds: numbers never run ahead
of the server and no two rows share one (Numbered); a row of the page is current or has moved
beyond the fence, everything up to `p` is handled, and everything between `p` and the fence is in the page or
behind a full one (Walk); a pending decision that is current belongs to a deleted row without an
accepted upload in flight (Decided); and a handled row stays known whatever answer is
still under way (Settled, Certified). One lemma per action or group of actions; FollowUpScheduled
needs only that a running pass has its request.

`SyncBrokerProofs.tla` proves, for any requests, paths, sockets, attempts to connect and bounds, from `BrokerAssumption`:

| Theorem | Says |
|---|---|
| TypeCorrect | `Spec => []TypeOK` |
| RetireJustified | `Spec => RetiresOnlyIfOwed` |
| SlotKept | `Spec => []SlotUntilDrained` |
| CallsImplemented | `Spec => ImplementsCalls`: every step of queue, slots, timers and sockets that is not taken while a socket is replaced is one of CorrelatedCalls |

The last two have two invariants. While no socket is replaced (IInv), at most one delivers
frames (Lifecycle), so that every entry of a queue was made on the socket of now (Queued); and what that
socket owes are heads of queues, none twice (Owed), so that the first answer for a path belongs to its head; before the
socket opens the queues are empty (Idle). What is left of that while one is replaced (Base) is that a call that waits is in a queue
(Waiting), that an entry that drains does not wait, that queues without a socket are empty, and that a socket to come has sent nothing.
It is enough to have IInv back when the last socket has closed.

`DeleteIntentsProofs.tla` proves, for any number of intents, incarnations, writes, connections, restarts and faults, from
`IntentAssumption` (natural numbers, and at least the incarnation the note is created with):

| Theorem | Says |
|---|---|
| TypeCorrect | `Spec => []TypeOK` |
| SendsOnce | `Spec => []SentOnce` |
| AttemptsAreDurable | `Spec => []AttemptIsDurable` |
| LaterWritesSurvive | `Spec => NeverDeletesLaterWrites` |

A coroutine that waits for a write of the journal waits for exactly one, and a write of the attempt belongs to one (Waits). Ledger
says what is known of an intent: one not made yet is nowhere, what is attempted has its token pinned, in memory, on
disk and on the way, and what was sent is attempted wherever it is remembered. NeverDeletesLaterWrites follows from
the order of the one socket: every delete on its way is newer than the writes before it (Order) and no write carries a
mark the device has not reached (Marks). The case that makes it hard is an intent that a crash brought back:
Harmless says that until the first sync the engine does nothing about it, and that a sync which does not consume it
found no note to protect.

`BlobPathProofs.tla` proves, for any number of upload slots, contents, rows, acts of the user and faults, from
`BlobPathAssumption`:

| Theorem | Says |
|---|---|
| TypeCorrect | `Spec => []TypeOK` |
| LastEditSurvives | `Spec => []NothingLost` |
| PeerDeletesStayPrivate | `Spec => RemoteDeletesNotEchoed` |
| RestNoticed | `Spec => []RestIsNoticed` |

For NothingLost, every hash the client or the server holds - in the row, the entry, the stored entry, a download, the
lane, an accepted upload - is one the server has had (Backed), and a download that is between its comparison and its
write has made sure of the user's content (Saved). For RemoteDeletesNotEchoed, a decision to delete names the
content it expects, a download what it writes (Expects, Named); a decision being executed has been stored (Certified), so that a
crash finds it again; and when a file is gone that neither the user nor a compensation removed, nothing that is
running, pending or remembered can turn into a published delete (Quiet). Each part was checked by TLC as an invariant first;
two of the attempts failed, and what they showed is in section 3.5.

RestIsNoticed needs a second invariant on top of that one (RestInv), of four parts. Nothing has a number the server has not given,
and an entry, an answer or a row on its way that has the number of the server's row is that row (Numbered). What the cursor has
passed or is about to pass is accounted for in the entry, on disk as in memory: a live row has its number there, a deleted one has
removed the entry or is decided in it, unless the path is skipped (Accounts); for this, no upload may be answered behind a deleted row
that was taken (Answered), and a delete that was answered is older than the row (DeleteAhead). A file that has the mtime of the
entry has its content (Mtimes), because no entry has the mtime of a content still to be written (Olds). At rest, a row
that was passed is then the entry, and the entry is the file or visibly differs from it. The first attempt failed for
good reasons: the model took equal contents for equal mtimes, let a sweep find what it passes over
(a missing file of a skipped entry), and excused two sessions that need no excuse.

`NoteMergeProofs.tla` proves, for any numbers of changes, any limit of the buffer, any number of failures and any of the
surroundings, from `NoteMergeAssumption`:

| Theorem | Says |
|---|---|
| TypeCorrect | `Spec => []TypeOK` |
| OwnTextSurvives | `Spec => []OwnTextIsKept` |
| RevertsConfined | `Spec => RevertsOnlyBesideAWrite` |
| NotesConverge | `Spec => []ConvergesAtRest` |

OwnTextIsKept is not inductive: a rewrite under way may replace what is visible. The invariant says where own text is that
was neither written beside a rewrite nor copied: it is visible, in the editor or, without one, in the file (Shown), and
whatever a chain is about to write has it too; while the chain waits for the server or for the file, the document has it,
or the file has it and differs from both texts that `preserveUnseenDiskText` knows, so that it is copied (Carried).

RevertsOnlyBesideAWrite needs to know when a push of the visible text deletes nothing: when all that the document shows is
visible or about to be written (Ahead), unless a broadcast waits for the server. An open editor may then not be missing
what the file and the document share (EditorLeads), and no whole write but that of the chain which asked the server may be
pending for it (WholeWrites). Ahead is about the text as Loro shows it, so that PeersSeen is needed: nothing
visible is a change of others that the document lacks or holds back, and pushing a text makes the document show
exactly that text (SyncedShows).

NotesConverge needs an account of every difference that may exist before the rest. What is visible and not in the document is waited
for by the debounce or a vault event (Owed, EchoKnown, OwnSeen); what the document has and the user does not see is about to be
written (Ahead); own operations of the document were sent (SentAll); and what others changed and the document misses is in
a frame that is buffered or on its way, or is being asked for (Reaches, InOrder, Calm). At rest nothing of this is under way, and both
differences are empty.

`NoteStartupProofs.tla` proves, for any numbers of changes, lost connections, starts and failed requests, with and without
hidden changes of the file, from `NoteStartupAssumption`:

| Theorem | Says |
|---|---|
| TypeCorrect | `Spec => []TypeOK` |
| OwnTextSurvives | `Spec => []OwnTextIsKept` |
| SkipsSound | `Spec => SkipsAreSound` |
| NothingIsForgotten | `Spec => []NothingForgotten` |

Even TypeOK is not inductive: a request may only be answered once (Expected: the list is the first frame of a connection,
and one note at most is asked for). OwnTextSurvives keeps own text before the user's eyes or in a copy (Kept), for which the
text that the sync read must be in the document, or copied, by the time of the answer (ReadCarried).

SkipsSound is about one circle of facts, each of which needs the others (Known and, unless two syncs overlapped, Synchronised). A vector
that some later sync will compare with the server's - in the cache, on disk, torn or not, listed - and that is the server's, says that the
`.loro` file has all that the server has (Bound); from there the document has it, from there the user's eyes (DocShown). And while the connection
is heard, what the server has is in `.loro` or in frames that still wait, in the buffer or the replay (Gap): the server
learns only what the document has (Pushes), or what is sent to a client that listens. A sync that lost its socket and finds
itself connected again is one that hears nothing (LostHeard), and only then may Gap and Pushes fail; the cache it saves has the vector it
listed before, so that Bound stays true. DocShown lasts over an adoption only if the
editor is not behind the file in what the server has (EditorLeads), and that only because nothing is on its way from an empty
document or one with a history of its own (Quiet), nor beside the second request after a conflict (Latest). No cache
knows more than the server (Heard).

NothingIsForgotten adds what the marks and the cached hashes say: they take nothing for synchronised but what the server has
or will have from the push of an initial sync that is still on its way (HashServed, ExemptNeeds), and typed text that is not
served is copied or marked (Marked). Its second half is Gap at rest, or, when frames passed unheard, Bound read the other way round:
a note that is behind has a vector in the cache that is not the server's.

The attempts changed the model in two places and the claims in two. An answer is new to a document with a history of its own
whatever the vectors say, and a conflict is decided before the histories are compared (`sync-initial.ts` 846-900): Newer and
Disjoint had it the other way round. SkipsAreSound does not hold once a text got a second history (`doubled`), nor
NothingForgotten once setValue took typed text from an editor (`rewound`): both were missing from what excuses them, in cases
the bounds of the run were too small for.

`NoteLivesProofs.tla` proves, for any finite or infinite set of devices and any numbers of words, deletes and lost connections,
from `NoteLivesAssumption`:

| Theorem | Says |
|---|---|
| TypeCorrect | `Spec => []TypeOK` |
| LivesStayApart | `Spec => []OneLifePerDocument` |

The code compares version vectors, that is lengths; the theorem is about lives, which no vector shows. The invariant ties the two: a
document and the server's history that have a first operation in common, and do not number different ones alike (NoClash), are of the same
life (SharedGives). Every document is of one life (One), a dead server has no history (Dead), and each broadcast on its way has
operations of one life and the server's vector of one life, and they are the same unless it leaves operations out (Fits). So a document that passes `hasSharedHistory` is of the life of what it imports (SharedGives), an empty
one takes a life whole or shows a gap, and what the catch-up then gets is of that life unless it shares nothing with it - the
lapse `caught`. The theorem says that besides `clashed` and `flushed` there is no other way for two lives to meet.

Checked by TLC only: NothingLost and SyncsAgree of NoteLives, which need to know of every word
where it stands over deletes and recreations on several devices; and all liveness (EventuallyStored, SlotReleased, LaneRests):
liveness under fairness and ENABLED are beyond the prover used.
No module contains a RECURSIVE operator.

## 8. Not modelled

User interface, settings and set-up; wording, logging and tracing; URL checks; the WebAssembly
bridge; Loro's merging; the normalisation of blob paths in Rust and the path policy (pure functions on strings with
their own test vectors). Of the core: the awaits inside the keep guard and the
refusal of pushes, the handling of Excalidraw files, DocumentManager, PromiseManager,
ServerFeatureCache, Inbox and ObsidianSync; section 2 has the order in which they would come. In DocumentManager a load in
flight may publish its document after `removeAndClean` or `movePath` of the same path (`document-manager.ts` 37): the models load and
save in one step and do not meet that. Texts are sets of
insertions throughout: no property speaks of where text stands or of text that a user deleted.
