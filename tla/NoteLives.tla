----------------------------- MODULE NoteLives -----------------------------
(* One note of several devices through its lives: it is created, edited,     *)
(* deleted on one device, kept on another, created again. Every device that  *)
(* creates the note anew starts a history of its own, and histories of       *)
(* different lives must not meet in one document                             *)
(* (src/sync-engine.ts onDeltaBroadcast, onDocDeleted, handleDocTombstoned,  *)
(* resolveDisjointHistory; src/push-handler.ts; src/sync-initial.ts).        *)
(*                                                                           *)
(* A handler is one step here, with the requests it makes: what happens      *)
(* between the awaits of one handler is the subject of NoteMerge,            *)
(* NoteStartup and DeleteIntents. The server is the one that the tests       *)
(* model (src/__tests__/divergence.test.ts, MiniServer), with the hash of    *)
(* the deleted text in its doc_deleted frames as well. Edits add words; the  *)
(* plugin runs all the time; deletes are made while the socket is open. Left *)
(* out: Excalidraw files, servers without hashes, the skips of NoteStartup,  *)
(* the flush before a catch-up (a finding of NoteMerge), and changes that    *)
(* Loro holds back for want of others.                                       *)
EXTENDS Naturals, FiniteSets, SequencesExt

CONSTANTS
  Devices,
  MaxWords,    \* bound: words written on all devices
  MaxDeletes,  \* bound: deletes that users ask for
  MaxFaults    \* bound: connections that are lost

ASSUME NoteLivesAssumption ==
  /\ IsFiniteSet(Devices) /\ {MaxWords, MaxDeletes, MaxFaults} \subseteq Nat

VARIABLES
  server,    \* the note on the server
  note,      \* device -> what it knows of the note
  link,      \* device -> its socket: "up", "silent" (lost, still OPEN here), "closed"
  inbox,     \* device -> frames on their way to it, in order
  words,     \* history: how many words were written; the last one is the newest
  lives,     \* history: how many times a document was begun
  clashed,   \* history: a document met another that numbers different operations alike
  gone,      \* history: words that were in a note when its user deleted it
  lapses,    \* history: what the code does not guard against, and happened
  deletes, faults

history == <<words, lives, gone, lapses, deletes, faults>>
vars == <<server, note, link, inbox, history, clashed>>

Words == 1..MaxWords
Texts == SUBSET Words
NoFile == {0}

---------------------------------------------------------------------------
(* The CRDT document: per author a sequence of operations, each inserting or *)
(* cutting a word. derive_peer_id gives all documents of a device the same   *)
(* author, and every new document counts its operations from the first       *)
(* again; which life an operation belongs to only the model knows.           *)
Empty == [a \in Devices |-> <<>>]
OpsOf(h) == UNION {ToSet(h[a]) : a \in Devices}
Text(h) == {op.word : op \in {o \in OpsOf(h) : ~o.cut}} \ {op.word : op \in {o \in OpsOf(h) : o.cut}}
LivesOf(h) == {op.life : op \in OpsOf(h)}
Version(h) == [a \in Devices |-> Len(h[a])]
Nothing == Version(Empty)
Covers(v, w) == \A a \in Devices : v[a] >= w[a]
SharedHistory(v, w) == \E a \in Devices : v[a] > 0 /\ w[a] > 0

(* Loro applies operations whose author knew no others than are here, and    *)
(* skips those it has a number of.                                           *)
Delta(h, since) == [history |-> h, since |-> since]
Import(h, delta) ==
  IF ~Covers(Version(h), delta.since) THEN h
  ELSE [a \in Devices |-> h[a] \o SubSeq(delta.history[a], Len(h[a]) + 1, Len(delta.history[a]))]

(* Device d makes the document show the text.                                *)
LifeFor(h) == IF h = Empty THEN lives + 1 ELSE CHOOSE l \in LivesOf(h) : TRUE
Operations(set, life, cut) ==
  [i \in 1..Cardinality(set) |-> [word |-> SetToSeq(set)[i], life |-> life, cut |-> cut]]
SyncFromDisk(d, h, text) ==
  [h EXCEPT ![d] = @ \o Operations(Text(h) \ text, LifeFor(h), TRUE)
                     \o Operations(text \ Text(h), LifeFor(h), FALSE)]
Begins(h, text) == lives' = lives + (IF h = Empty /\ text # {} THEN 1 ELSE 0)

---------------------------------------------------------------------------
(* The server. A frame is either answered at once or, on a silent socket,    *)
(* lost; rest is what the inboxes hold besides the server's frames.          *)
Frames(d, rest, reply, broadcast) ==
  [e \in Devices |-> IF e = d THEN rest[e] \o reply
                     ELSE IF link[e] = "up" THEN rest[e] \o broadcast ELSE rest[e]]
(* A probe of the pushed operations alone, as in isDisjoint.                 *)
Disjoint(h, delta) ==
  LET alone == Version(Import(Empty, delta)) IN
  alone # Nothing /\ ~SharedHistory(alone, Version(h))

Received(d, rest, delta, replace) ==
  LET merged == Import(server.history, delta) IN
  \/ /\ server.tombstone /\ ~replace
     /\ inbox' = Frames(d, rest, <<[kind |-> "refused"]>>, <<>>) /\ UNCHANGED server
  \/ /\ ~server.tombstone \/ replace
     /\ server.live /\ Disjoint(server.history, delta)
     /\ inbox' = Frames(d, rest, <<[kind |-> "conflict"]>>, <<>>) /\ UNCHANGED server
  \/ /\ ~server.tombstone \/ replace
     /\ ~(server.live /\ Disjoint(server.history, delta))
     /\ server' = [live |-> TRUE, tombstone |-> FALSE, hash |-> {}, history |-> merged]
     /\ inbox' = Frames(d, rest, <<>>, <<[kind |-> "broadcast", delta |-> delta, known |-> merged]>>)

Deleted(d, rest) ==
  LET hash == IF server.live THEN Text(server.history) ELSE server.hash IN
  /\ server' = [live |-> FALSE, tombstone |-> TRUE, hash |-> hash, history |-> Empty]
  /\ inbox' = Frames(d, rest, <<>>, <<[kind |-> "deleted", hash |-> hash]>>)

Quiet(rest) == inbox' = rest /\ UNCHANGED server
Push(d, rest, delta, replace) ==
  IF link'[d] = "up" THEN Received(d, rest, delta, replace) ELSE Quiet(rest)
SendDelete(d, rest) == IF link'[d] = "up" THEN Deleted(d, rest) ELSE Quiet(rest)

---------------------------------------------------------------------------
(* A device: file, doc, copies (text saved beside the note), pending (the    *)
(* entry of pendingDeletes: "sent", or "kept" for a recreate intent, which   *)
(* was not), tombstoned (serverTombstones), unacked (sentUnacked).           *)
Blank == [file |-> NoFile, doc |-> Empty, copies |-> {}, pending |-> "none", tombstoned |-> FALSE,
          unacked |-> FALSE]

(* Mutant: a file that is not there is copied like any other.                *)
ShowsOverAnything(x, text, known) ==
  IF x.file = text THEN x
  ELSE [x EXCEPT !.file = text, !.copies = @ \cup x.file,
                 !.pending = "none", !.tombstoned = @ \/ x.pending # "none"]

(* A text shown to the user. It is copied first if it is none of the known   *)
(* ones; the vault event of the write passes admitRecreation.                *)
Shows(x, text, known) ==
  IF x.file = text THEN x
  ELSE [x EXCEPT !.file = text,
                 !.copies = IF x.file \in known \cup {NoFile} THEN @ ELSE @ \cup x.file,
                 !.pending = "none", !.tombstoned = @ \/ x.pending # "none"]
Becomes(d, x) == note' = [note EXCEPT ![d] = x]
(* Mutant: the document is taken over, its text not written.                 *)
AdoptsUnshown(x, h) == [x EXCEPT !.doc = h]
Adopts(x, h) == [Shows(x, Text(h), {}) EXCEPT !.doc = h]
Removes(x) == [x EXCEPT !.file = NoFile, !.doc = Empty]

(* The user writes a word: a vault or editor event, its debounce and the push. *)
Write(d) ==
  LET x == note[d]
      text == {words + 1} \cup (x.file \ NoFile)
      h == SyncFromDisk(d, x.doc, text)
      recreate == x.pending # "none" \/ x.tombstoned
      written == [x EXCEPT !.file = text, !.doc = h, !.pending = "none"] IN
  /\ words < MaxWords /\ words' = words + 1
  /\ Begins(x.doc, text)
  /\ \/ /\ link[d] = "closed"
        /\ Becomes(d, [written EXCEPT !.tombstoned = recreate]) /\ UNCHANGED <<server, inbox, link>>
     \/ /\ link[d] # "closed" /\ UNCHANGED link
        /\ Becomes(d, [written EXCEPT !.tombstoned = FALSE, !.unacked = TRUE])
        /\ Push(d, inbox, Delta(h, IF recreate THEN Nothing ELSE Version(x.doc)), recreate)
  /\ UNCHANGED <<gone, lapses, deletes, faults>>

(* onFileDeleted with its sendDocDelete; a silent socket takes the frame too. *)
Delete(d) ==
  /\ link[d] # "closed" /\ note[d].file # NoFile
  /\ deletes < MaxDeletes /\ deletes' = deletes + 1
  /\ Becomes(d, [Removes(note[d]) EXCEPT !.pending = "sent"])
  /\ UNCHANGED link /\ SendDelete(d, inbox)
  /\ gone' = gone \cup note[d].file \cup (IF link[d] = "up" THEN Text(server.history) ELSE {})
  /\ UNCHANGED <<words, lives, lapses, faults>>

---------------------------------------------------------------------------
(* Frames. Each action takes the first one of its device.                    *)
Takes(d, kind) == link[d] = "up" /\ inbox[d] # <<>> /\ Head(inbox[d]).kind = kind
Rest(d) == [inbox EXCEPT ![d] = Tail(@)]

(* resolveDisjointHistory: the note of the server replaces the local one.    *)
Resolve(d) ==
  /\ IF server.live THEN Becomes(d, Adopts(note[d], server.history)) ELSE UNCHANGED note
  /\ Quiet(Rest(d)) /\ UNCHANGED history

CreateConflict(d) == Takes(d, "conflict") /\ Resolve(d) /\ UNCHANGED link

(* Mutant: histories are not compared.                                       *)
KnownAnyhow(x, m) == TRUE

(* The check for disjoint histories; an empty document passes it.            *)
Known(x, m) == x.doc = Empty \/ SharedHistory(Version(x.doc), Version(m.known))

(* What a catch-up brings is imported without that check.                    *)
Meets(h, g) == h # Empty /\ ~SharedHistory(Version(h), Version(g))

(* onDeltaBroadcast. The check for disjoint histories uses the version from  *)
(* before flushPendingEdits, which writes the text of an open editor into    *)
(* the document. A gap is closed with a request.                             *)
DeltaBroadcast(d) ==
  LET x == note[d]
      m == Head(inbox[d]) IN
  /\ Takes(d, "broadcast") /\ UNCHANGED link
  /\ \/ ~Known(x, m) /\ Resolve(d)
     \/ /\ Known(x, m)
        /\ \E open \in BOOLEAN :
             LET flushes == open /\ x.file # NoFile /\ x.file # Text(x.doc)
                 h == IF flushes THEN SyncFromDisk(d, x.doc, x.file) ELSE x.doc
                 merged == Import(h, m.delta)
                 gap == ~Covers(Version(merged), Version(m.known))
                 y == [x EXCEPT !.unacked = @ \/ flushes] IN
             /\ IF flushes THEN Push(d, Rest(d), Delta(h, Version(x.doc)), FALSE)
                ELSE Quiet(Rest(d))
             /\ IF flushes THEN Begins(x.doc, x.file) ELSE UNCHANGED lives
             /\ lapses' = lapses \cup (IF flushes THEN {"flushed"} ELSE {})
                                  \cup (IF gap /\ server'.live /\ Meets(merged, server'.history)
                                       THEN {"caught"} ELSE {})
             /\ LET caught == IF gap /\ server'.live THEN Import(merged, Delta(server'.history, Nothing))
                              ELSE merged IN
                Becomes(d, [IF gap /\ ~server'.live THEN y ELSE Shows(y, Text(caught), {Text(h)})
                            EXCEPT !.doc = caught])
        /\ UNCHANGED <<words, gone, deletes, faults>>

(* Mutant: the hash of the deleted text is not looked at.                    *)
KeepsUnacked(x, hash) == x.unacked

(* onDocDeleted and its keep guard.                                          *)
KeepsFile(x, hash) == x.unacked \/ x.file \notin {NoFile, hash}
DocDeleted(d) ==
  LET x == note[d]
      keep == KeepsFile(x, Head(inbox[d]).hash) IN
  /\ Takes(d, "deleted") /\ Quiet(Rest(d)) /\ UNCHANGED link
  /\ \/ /\ keep /\ Becomes(d, [x EXCEPT !.doc = Empty, !.pending = "kept"])
        /\ lapses' = lapses \cup (IF x.file = NoFile THEN {"intended"} ELSE {})
     \/ /\ ~keep
        /\ Becomes(d, [Removes(x) EXCEPT !.pending = IF @ = "kept" THEN "sent" ELSE @])
        /\ UNCHANGED lapses
  /\ UNCHANGED <<words, lives, gone, deletes, faults>>

(* handleDocTombstoned with its probe: a live note is created again, with    *)
(* the text of an open editor; a dead one is moved aside, which deletes it   *)
(* under its old name.                                                       *)
DocTombstoned(d) ==
  LET x == note[d] IN
  /\ Takes(d, "refused") /\ UNCHANGED link
  /\ \/ /\ x.file = NoFile
        /\ Quiet(Rest(d)) /\ UNCHANGED <<note, lives>>
     \/ /\ x.file # NoFile /\ server.live
        /\ \E open \in BOOLEAN :
             LET h == IF open THEN SyncFromDisk(d, x.doc, x.file) ELSE x.doc IN
             /\ IF open THEN Begins(x.doc, x.file) ELSE UNCHANGED lives
             /\ Becomes(d, [x EXCEPT !.doc = h, !.unacked = TRUE, !.tombstoned = FALSE])
             /\ Push(d, Rest(d), Delta(h, Nothing), TRUE)
     \/ /\ x.file # NoFile /\ ~server.live
        /\ Becomes(d, [Removes(x) EXCEPT !.copies = @ \cup x.file, !.pending = "sent"])
        /\ SendDelete(d, Rest(d)) /\ UNCHANGED lives
  /\ UNCHANGED <<words, gone, lapses, deletes, faults>>

---------------------------------------------------------------------------
(* Connections. The first thing a new one does is runInitialSync.            *)
Fault == faults < MaxFaults /\ faults' = faults + 1
UnchangedByFaults == UNCHANGED <<server, note, words, lives, gone, lapses, deletes>>
FallsSilent(d) ==
  /\ link[d] = "up" /\ Fault
  /\ link' = [link EXCEPT ![d] = "silent"] /\ inbox' = [inbox EXCEPT ![d] = <<>>]
  /\ UnchangedByFaults
Drop(d) ==
  /\ link[d] # "closed" /\ (IF link[d] = "up" THEN Fault ELSE UNCHANGED faults)
  /\ link' = [link EXCEPT ![d] = "closed"] /\ inbox' = [inbox EXCEPT ![d] = <<>>]
  /\ UnchangedByFaults

(* The note is created with the text of the file: recreate, local-only, kept. *)
Creates(d, x, replace) ==
  LET h == SyncFromDisk(d, x.doc, x.file) IN
  /\ Begins(x.doc, x.file)
  /\ Becomes(d, [x EXCEPT !.doc = h, !.pending = "none", !.tombstoned = FALSE, !.unacked = FALSE])
  /\ Push(d, inbox, Delta(h, Nothing), replace)

(* syncOverlappingDoc: adopt without local state, when file and server both  *)
(* changed, or with a disjoint history; merge otherwise and push what the    *)
(* server lacks.                                                             *)
Overlaps(d, x) ==
  LET mine == SyncFromDisk(d, x.doc, x.file)
      theirs == Version(server.history)
      Merged(h) == Import(h, Delta(server.history, Nothing))
      both == /\ mine # x.doc /\ ~Covers(Version(mine), theirs)
              /\ Text(Merged(x.doc)) \notin {x.file, {}} IN
  IF x.doc = Empty \/ both \/ ~SharedHistory(Version(mine), theirs)
  THEN Becomes(d, Adopts(x, server.history)) /\ Quiet(inbox) /\ UNCHANGED lives
  ELSE /\ Becomes(d, [Shows(x, Text(Merged(mine)), {x.file}) EXCEPT !.doc = Merged(mine)])
       /\ Begins(x.doc, x.file)
       /\ IF Covers(theirs, Version(Merged(mine))) THEN Quiet(inbox)
          ELSE Push(d, inbox, Delta(Merged(mine), theirs), FALSE)

(* Its step 6, with the keep guard as in DocDeleted.                         *)
Tombstoned(d, x) ==
  \/ KeepsFile(note[d], server.hash) /\ Creates(d, x, TRUE)
  \/ /\ ~KeepsFile(note[d], server.hash)
     /\ Becomes(d, Removes(x)) /\ Quiet(inbox) /\ UNCHANGED lives

Recreates(d) == note[d].pending # "none" /\ note[d].file # NoFile
Connect(d) ==
  LET x == [note[d] EXCEPT !.tombstoned = server.tombstone, !.unacked = FALSE]
      settled == [x EXCEPT !.pending = "none"]
      recreated == Recreates(d) IN
  /\ link[d] = "closed" /\ link' = [link EXCEPT ![d] = "up"]
  /\ \/ recreated /\ Creates(d, x, TRUE)
     \/ /\ x.file = NoFile /\ server.live /\ x.pending = "kept"
        /\ Becomes(d, [x EXCEPT !.pending = "sent"]) /\ SendDelete(d, inbox) /\ UNCHANGED lives
     \/ /\ x.file = NoFile /\ server.live /\ x.pending # "kept"
        /\ Becomes(d, Adopts(settled, server.history)) /\ Quiet(inbox) /\ UNCHANGED lives
     \/ /\ x.file = NoFile /\ ~server.live
        /\ Becomes(d, settled) /\ Quiet(inbox) /\ UNCHANGED lives
     \/ ~recreated /\ x.file # NoFile /\ server.live /\ Overlaps(d, x)
     \/ /\ ~recreated /\ x.file # NoFile /\ ~server.live /\ ~server.tombstone
        /\ Creates(d, x, FALSE)
     \/ ~recreated /\ x.file # NoFile /\ server.tombstone /\ Tombstoned(d, x)
  /\ UNCHANGED <<words, gone, lapses, deletes, faults>>

---------------------------------------------------------------------------
Init ==
  /\ server = [live |-> FALSE, tombstone |-> FALSE, hash |-> {}, history |-> Empty]
  /\ note = [d \in Devices |-> Blank]
  /\ link = [d \in Devices |-> "up"] /\ inbox = [d \in Devices |-> <<>>]
  /\ words = 0 /\ lives = 0 /\ clashed = FALSE
  /\ gone = {} /\ lapses = {} /\ deletes = 0 /\ faults = 0

Step(d) ==
  \/ Write(d) \/ Delete(d)
  \/ DeltaBroadcast(d) \/ CreateConflict(d) \/ DocDeleted(d) \/ DocTombstoned(d)
  \/ FallsSilent(d) \/ Drop(d) \/ Connect(d)

(* Two documents that number different operations alike.                     *)
Clash(h, g) == \E a \in Devices : \E i \in 1..Len(h[a]) : i <= Len(g[a]) /\ h[a][i] # g[a][i]
Met(d) == {server.history} \cup
          UNION {{m.delta.history, m.known} : m \in {f \in ToSet(inbox[d]) : f.kind = "broadcast"}}
Next ==
  /\ \E d \in Devices : Step(d)
  /\ clashed' = (clashed \/ \E d \in Devices : \E g \in Met(d)' : Clash(note'[d].doc, g))
Spec == Init /\ [][Next]_vars

---------------------------------------------------------------------------
(* "Two independent CRDT histories ... MUST NOT be merged through Loro"      *)
(* (src/sync-initial.ts): no document of a device holds operations of two    *)
(* lives, not even where their numbers tell the two apart.                   *)
OneLife(h) == Cardinality(LivesOf(h)) <= 1
NeverMerged == \A d \in Devices : OneLife(note[d].doc)
NeverMixed == clashed \/ NeverMerged

(* The same where no open editor was flushed: a catch-up brings no document  *)
(* a history that it does not share either.                                  *)
CatchUpsNeverMix == clashed \/ "flushed" \in lapses \/ NeverMerged

(* The same of every document, where the code is able to tell lives apart:   *)
(* no operation is numbered like one of another life, no open editor was     *)
(* flushed into an empty document between the check for disjoint histories   *)
(* and the import, and no catch-up brought a history that the document does  *)
(* not share: an old frame may fill an empty document with a life of which   *)
(* the server has nothing any more.                                          *)
OneLifePerDocument ==
  \/ clashed \/ {"flushed", "caught"} \cap lapses # {}
  \/ NeverMerged /\ OneLife(server.history)

(* A word disappears only with a note whose user deleted it: a late delete,  *)
(* a refusal, an adoption, a lost socket or a merge drops none that the      *)
(* deleting device did not have or the server did not hold.                  *)
NothingLost ==
  \/ clashed \/ "intended" \in lapses
  \/ 1..words \subseteq gone \cup Text(server.history)
                             \cup UNION {note[d].copies \cup note[d].file : d \in Devices}

(* An initial sync after which nothing is on its way ends with the text of   *)
(* the server in the file, and without a file if the server has none; but    *)
(* the recreation of a note that is live again fetches nothing.              *)
Agrees(d) == note[d].file = IF server.live THEN Text(server.history) ELSE NoFile
SyncsAgree ==
  [][\A d \in Devices :
       /\ link[d] = "closed" /\ link'[d] = "up" /\ inbox'[d] = <<>>
       /\ ~(server.live /\ Recreates(d))
       => Agrees(d)' \/ clashed']_vars

Histories == [Devices -> Seq([word : Words, life : 1..lives, cut : BOOLEAN])]
Messages ==
  [kind : {"refused", "conflict"}] \cup [kind : {"deleted"}, hash : Texts] \cup
  [kind : {"broadcast"}, delta : [history : Histories, since : [Devices -> Nat]], known : Histories]
TypeOK ==
  /\ server \in [live : BOOLEAN, tombstone : BOOLEAN, hash : Texts, history : Histories]
  /\ ~(server.live /\ server.tombstone)
  /\ note \in [Devices -> [file : Texts \cup {NoFile}, doc : Histories, copies : Texts,
                          pending : {"none", "sent", "kept"}, tombstoned : BOOLEAN, unacked : BOOLEAN]]
  /\ link \in [Devices -> {"up", "silent", "closed"}]
  /\ inbox \in [Devices -> Seq(Messages)]
  /\ \A d \in Devices : link[d] # "up" => inbox[d] = <<>>
  /\ words \in 0..MaxWords /\ gone \in Texts /\ lives \in Nat /\ clashed \in BOOLEAN
  /\ lapses \subseteq {"flushed", "caught", "intended"}
  /\ deletes \in 0..MaxDeletes /\ faults \in 0..MaxFaults

=============================================================================
