-------------------------- MODULE NoteStartupProofs --------------------------
(* What TLAPS proves of NoteStartup, for any numbers of changes, connections, *)
(* starts and failures: the types, that own text is always somewhere, that    *)
(* the initial sync passes over no note that it should not, and that no       *)
(* change is forgotten. Each property is followed by an invariant of its own: *)
(* KeptInv (own text), SkipInv (what a cached vector proves) and ForgetInv    *)
(* (what the marks and the cached hashes prove).                              *)
EXTENDS NoteStartup, TLAPS

USE NoteStartupAssumption DEF server, text, persisted, caches, push, queues, counters

Places == {"idle", "listing", "planned", "asked", "adopting", "again", "ending", "saved"}
Syncs == [at : Places, dirty : BOOLEAN, cached : CacheEntries, listed : Versions,
          read : Texts \cup {NotSet}, hash : Texts \cup {NotSet}, sent : Versions, changed : BOOLEAN,
          edited : BOOLEAN, first : BOOLEAN, lost : BOOLEAN]
Lapses == {"exempt", "bound", "unmarked", "unsent", "failed", "unsaved", "rewound", "doubled", "reverted",
           "overlapped"}

(* The frames of a queue.                                                     *)
OnTheWay(q) == {q[i] : i \in 1..Len(q)}

(* A sync that waits for an answer has read the note.                         *)
ReadTyped == sync.at \in {"asked", "adopting", "again"} => sync.read \in Texts

---------------------------------------------------------------------------
(* Texts, versions, frames.                                                   *)

LEMMA Numbering ==
  /\ 1 \in PeerChanges /\ PeerChanges \cap OwnChanges = {}
  /\ {} \in Texts /\ {1} \in Texts /\ Closed = NotSet
  /\ \A x \in Texts : x # Closed /\ x # NotSet
  /\ \A n \in PeerChanges : {n} \in Texts
  /\ \A n \in OwnChanges : {n} \in Texts
  /\ Closed \cap PeerChanges = {} /\ Closed \cap OwnChanges = {}
  /\ \A n \in 0..MaxOwn : (MaxPeer + 1)..(MaxPeer + n) \subseteq OwnChanges
<1>1. 0 \notin PeerChanges \cup OwnChanges
  BY DEF PeerChanges, OwnChanges
<1>2. 1 \in PeerChanges /\ PeerChanges \cap OwnChanges = {}
  BY DEF PeerChanges, OwnChanges
<1>3. \A n \in 0..MaxOwn : (MaxPeer + 1)..(MaxPeer + n) \subseteq OwnChanges
  BY DEF OwnChanges
<1> QED BY <1>1, <1>2, <1>3 DEF Texts, Closed, NotSet

LEMMA Constants ==
  /\ Nothing \in Versions /\ Nothing.ops = {} /\ Nothing.deleted = {}
  /\ NoCache \in CacheEntries /\ NoCache.vv = Nothing /\ NoCache.hash = NotSet
  /\ NoSync \in Syncs /\ NoSync.at = "idle" /\ NoSync.cached = NoCache /\ NoSync.listed = Nothing
  /\ NoSync.read = NotSet /\ NoSync.hash = NotSet
  /\ List \in Frames /\ List.kind = "list" /\ List.add = Nothing
  /\ Ask \in Frames /\ Ask.kind = "ask" /\ Ask.add = Nothing
<1>1. Nothing \in Versions /\ Nothing.ops = {} /\ Nothing.deleted = {}
  BY Numbering DEF Nothing, Versions
<1>2. NoCache \in CacheEntries
  BY <1>1 DEF NoCache, CacheEntries
<1>3. NoSync \in Syncs
  BY <1>1, <1>2 DEF NoSync, Syncs, Places
<1>4. List \in Frames /\ Ask \in Frames
  BY <1>1 DEF List, Ask, Frames
<1> QED BY <1>1, <1>2, <1>3, <1>4 DEF NoCache, NoSync, List, Ask

LEMMA SyncedFacts ==
  ASSUME NEW a \in Versions, NEW x \in Texts
  PROVE  /\ Synced(a, x) \in Versions /\ Synced(a, x).ops = a.ops \cup x
         /\ Synced(a, x).deleted = a.deleted \cup (Text(a) \ x)
<1>1. a.ops \in Texts /\ a.deleted \in Texts /\ Text(a) \in Texts
  BY DEF Text, Texts, Versions
<1> QED BY <1>1 DEF Synced, Versions, Texts

LEMMA JoinFacts ==
  ASSUME NEW a \in Versions, NEW b \in Versions
  PROVE  /\ Join(a, b) \in Versions /\ Join(a, b).ops = a.ops \cup b.ops
         /\ Join(a, b).deleted = a.deleted \cup b.deleted
<1>1. /\ a.ops \in Texts /\ a.deleted \in Texts /\ b.ops \in Texts /\ b.deleted \in Texts
  BY DEF Versions
<1> QED BY <1>1 DEF Join, Versions, Texts

LEMMA CoverFacts ==
  ASSUME NEW a \in Versions, NEW b \in Versions
  PROVE  Covers(a, b) <=> b.ops \subseteq a.ops /\ b.deleted \subseteq a.deleted
<1>1. Covers(a, b) <=> b.ops \ a.ops = {} /\ b.deleted \ a.deleted = {}
  BY DEF Covers, Beyond, Nothing
<1> QED BY <1>1

LEMMA VersionFacts ==
  ASSUME NEW a \in Versions
  PROVE  /\ a.ops \in Texts /\ a.deleted \in Texts /\ Text(a) \in Texts /\ Text(a) \subseteq a.ops
         /\ a.deleted = {} => Text(a) = a.ops
         /\ \A b \in Versions : a = b <=> a.ops = b.ops /\ a.deleted = b.deleted
<1>1. a.ops \in Texts /\ a.deleted \in Texts
  BY DEF Versions
<1>2. Text(a) \in Texts /\ Text(a) \subseteq a.ops /\ (a.deleted = {} => Text(a) = a.ops)
  BY <1>1 DEF Text, Texts
<1>3. \A b \in Versions : a = b <=> a.ops = b.ops /\ a.deleted = b.deleted
  BY DEF Versions
<1> QED BY <1>1, <1>2, <1>3

LEMMA PushFacts ==
  ASSUME NEW a \in Versions, NEW b \in Versions, NEW k \in {"push", "exempt"}
  PROVE  /\ PushOf(k, a, b) \in Frames /\ PushOf(k, a, b).kind = k
         /\ PushOf(k, a, b).add.ops = b.ops \ a.ops /\ PushOf(k, a, b).add.deleted = b.deleted \ a.deleted
         /\ PushOf(k, a, b).needs \subseteq a.ops
<1>1. /\ Beyond(b, a) \in Versions /\ Beyond(b, a).ops = b.ops \ a.ops
      /\ Beyond(b, a).deleted = b.deleted \ a.deleted
  <2>1. /\ a.ops \in Texts /\ a.deleted \in Texts /\ b.ops \in Texts /\ b.deleted \in Texts
    BY DEF Versions
  <2> QED BY <2>1 DEF Beyond, Versions, Texts
<1>2. a.ops \cap OwnChanges \subseteq OwnChanges
  OBVIOUS
<1> QED BY <1>1, <1>2 DEF PushOf, Frames

(* Queues.                                                                    *)
LEMMA QueueFacts ==
  ASSUME NEW T, NEW q \in Seq(T)
  PROVE  /\ Len(q) \in Nat /\ OnTheWay(q) \subseteq T
         /\ \A t \in T : /\ Append(q, t) \in Seq(T) /\ Append(q, t) # <<>>
                         /\ Len(Append(q, t)) = Len(q) + 1 /\ Append(q, t)[Len(q) + 1] = t
                         /\ \A i \in 1..Len(q) : Append(q, t)[i] = q[i]
         /\ q # <<>> => /\ Head(q) \in T /\ Tail(q) \in Seq(T) /\ Len(Tail(q)) = Len(q) - 1
                        /\ Len(q) # 0 /\ Head(q) = q[1]
                        /\ \A i \in 1..Len(Tail(q)) : Tail(q)[i] = q[i + 1]
  BY DEF OnTheWay

LEMMA QueueStep ==
  ASSUME NEW T, NEW q \in Seq(T), NEW t \in T
  PROVE  /\ Append(q, t) \in Seq(T)
         /\ q # <<>> => Tail(q) \in Seq(T) /\ Append(Tail(q), t) \in Seq(T)
  OBVIOUS

LEMMA WayFacts ==
  ASSUME NEW T, NEW q \in Seq(T)
  PROVE  /\ \A t \in T : OnTheWay(Append(q, t)) = OnTheWay(q) \cup {t}
         /\ q # <<>> => Head(q) \in OnTheWay(q) /\ OnTheWay(Tail(q)) \subseteq OnTheWay(q)
         /\ q # <<>> => OnTheWay(q) = {Head(q)} \cup OnTheWay(Tail(q))
<1>1. Len(q) \in Nat
  BY QueueFacts
<1>2. ASSUME NEW t \in T PROVE OnTheWay(Append(q, t)) = OnTheWay(q) \cup {t}
  <2>1. /\ Len(Append(q, t)) = Len(q) + 1 /\ Append(q, t)[Len(q) + 1] = t
        /\ \A i \in 1..Len(q) : Append(q, t)[i] = q[i]
    BY QueueFacts
  <2>2. \A i \in 1..(Len(q) + 1) : i \in 1..Len(q) \/ i = Len(q) + 1
    BY <1>1
  <2>3. Len(q) + 1 \in 1..(Len(q) + 1) /\ 1..Len(q) \subseteq 1..(Len(q) + 1)
    BY <1>1
  <2> QED BY <2>1, <2>2, <2>3 DEF OnTheWay
<1>3. ASSUME q # <<>>
      PROVE  Head(q) \in OnTheWay(q) /\ OnTheWay(Tail(q)) \subseteq OnTheWay(q)
             /\ OnTheWay(q) = {Head(q)} \cup OnTheWay(Tail(q))
  <2>1. /\ Len(Tail(q)) = Len(q) - 1 /\ Len(q) # 0 /\ Head(q) = q[1]
        /\ \A i \in 1..Len(Tail(q)) : Tail(q)[i] = q[i + 1]
    BY <1>3, QueueFacts
  <2>2. 1 \in 1..Len(q)
    BY <1>1, <2>1
  <2>3. \A i \in 1..Len(Tail(q)) : i + 1 \in 1..Len(q)
    BY <1>1, <2>1
  <2>4. \A i \in 1..Len(q) : i = 1 \/ (i - 1 \in 1..Len(Tail(q)) /\ Tail(q)[i - 1] = q[i])
    BY <1>1, <2>1
  <2>5. Head(q) \in OnTheWay(q)
    BY <2>1, <2>2 DEF OnTheWay
  <2>6. OnTheWay(Tail(q)) \subseteq OnTheWay(q)
    BY <2>1, <2>3 DEF OnTheWay
  <2>7. OnTheWay(q) \subseteq {Head(q)} \cup OnTheWay(Tail(q))
    BY <2>1, <2>4 DEF OnTheWay
  <2> QED BY <2>5, <2>6, <2>7
<1> QED BY <1>2, <1>3

LEMMA EmptyQueue ==
  ASSUME NEW T, NEW q \in Seq(T), Len(q) = 0
  PROVE  q = <<>>
  OBVIOUS

LEMMA EmptyWay == OnTheWay(<<>>) = {} /\ \A T : <<>> \in Seq(T)
  BY DEF OnTheWay

(* The parts of TypeOK by name.                                               *)
LEMMA Fields ==
  ASSUME TypeOK
  PROVE  /\ peers \in PeerChanges /\ srv \in Versions /\ up \in Seq(Frames) /\ (up # <<>> => Online)
         /\ doc \in Versions /\ loro \in Versions /\ fresh \in BOOLEAN
         /\ editor \in Texts \cup {Closed} /\ (Open => editor \in Texts) /\ (phase = "closed" => ~Open)
         /\ disk \in Texts /\ copies \in Texts /\ own \in 0..MaxOwn /\ Shown \in Texts
         /\ {timer, unacked, edited, dirty, cacheDirty} \subseteq BOOLEAN
         /\ lastRemote \in Texts \cup {NotSet}
         /\ cache \in CacheEntries /\ stored \in CacheEntries /\ lastVV \in Versions
         /\ sync \in Syncs /\ (phase = "closed" => ~Running)
         /\ (Running /\ phase = "offline" => sync.lost /\ sync.at \in {"planned", "ending", "saved"})
         /\ buffered \in Seq(Queued) /\ (buffered # <<>> => Running)
         /\ replay \in Seq(Queued) /\ (replay # <<>> => replaying)
         /\ {replaying, unheard} \subseteq BOOLEAN
         /\ typed \subseteq OwnChanges /\ lapses \subseteq Lapses
         /\ phase \in {"closed", "offline", "online"} /\ accepts \in BOOLEAN
  BY DEF TypeOK, Shown, Open, Syncs, Places, Lapses

(* Parts of records.                                                          *)
LEMMA SyncFields ==
  ASSUME NEW s \in Syncs
  PROVE  /\ s.at \in Places /\ s.dirty \in BOOLEAN /\ s.cached \in CacheEntries /\ s.listed \in Versions
         /\ s.read \in Texts \cup {NotSet} /\ s.hash \in Texts \cup {NotSet} /\ s.sent \in Versions
         /\ s.changed \in BOOLEAN /\ s.edited \in BOOLEAN /\ s.first \in BOOLEAN /\ s.lost \in BOOLEAN
         /\ s.cached.vv \in Versions /\ s.cached.hash \in Texts \cup {NotSet}
  BY DEF Syncs, CacheEntries

LEMMA EntryFacts ==
  ASSUME NEW v \in Versions, NEW h \in Texts \cup {NotSet}
  PROVE  [vv |-> v, hash |-> h] \in CacheEntries
  BY DEF CacheEntries

---------------------------------------------------------------------------
(* The frames of the initial sync.                                            *)

(* The request for the list is the first frame of its connection; at most     *)
(* one note is asked for, while the sync waits for it.                        *)
Asked == {"asked", "adopting", "again"}
Placed(q, at) ==
  \A i \in 1..Len(q) :
    /\ q[i].kind = "list" => i = 1 /\ at = "listing"
    /\ q[i].kind = "ask" => at \in Asked /\ \A j \in 1..Len(q) : q[j].kind = "ask" => j = i
Expected == Placed(up, sync.at)

Answered(q) == \A i \in 1..Len(q) : q[i].kind \notin {"list", "ask"}

LEMMA PlacedFacts ==
  ASSUME NEW q \in Seq(Frames), NEW at, Placed(q, at)
  PROVE  /\ at \notin {"listing"} \cup Asked => Answered(q)
         /\ q # <<>> => Placed(Tail(q), at)
         /\ q # <<>> /\ Head(q).kind \in {"list", "ask"} => Answered(Tail(q))
<1>1. at \notin {"listing"} \cup Asked => Answered(q)
  BY DEF Placed, Answered
<1>2. ASSUME q # <<>>
      PROVE  /\ Placed(Tail(q), at)
             /\ Head(q).kind \in {"list", "ask"} => Answered(Tail(q))
  <2>1. /\ Len(q) \in Nat /\ Len(Tail(q)) = Len(q) - 1 /\ Len(q) # 0 /\ Head(q) = q[1]
        /\ \A i \in 1..Len(Tail(q)) : Tail(q)[i] = q[i + 1]
    BY <1>2, QueueFacts
  <2>2. \A i \in 1..Len(Tail(q)) : i + 1 \in 1..Len(q) /\ i + 1 # 1
    BY <2>1
  <2>3. 1 \in 1..Len(q)
    BY <2>1
  <2>4. \A i, j \in 1..Len(Tail(q)) : i + 1 = j + 1 => i = j
    BY <2>1
  <2>5. Placed(Tail(q), at)
    BY <2>1, <2>2, <2>4 DEF Placed
  <2>6. CASE Head(q).kind = "ask"
    BY <2>1, <2>2, <2>3, <2>6 DEF Placed, Answered
  <2>7. CASE Head(q).kind = "list"
    BY <2>1, <2>2, <2>3, <2>7 DEF Placed, Answered, Asked
  <2> QED BY <2>5, <2>6, <2>7
<1> QED BY <1>1, <1>2

LEMMA PlacedMore ==
  ASSUME NEW q \in Seq(Frames), NEW at, NEW f \in Frames
  PROVE  /\ Placed(q, at) /\ f.kind \notin {"list", "ask"} => Placed(Append(q, f), at)
         /\ Answered(q) => Placed(q, at)
         /\ Answered(q) /\ f.kind = "ask" /\ at \in Asked => Placed(Append(q, f), at)
<1>1. /\ Len(q) \in Nat /\ Len(Append(q, f)) = Len(q) + 1 /\ Append(q, f)[Len(q) + 1] = f
      /\ \A i \in 1..Len(q) : Append(q, f)[i] = q[i]
  BY QueueFacts
<1>2. \A i \in 1..(Len(q) + 1) : i \in 1..Len(q) \/ i = Len(q) + 1
  BY <1>1
<1>3. Placed(q, at) /\ f.kind \notin {"list", "ask"} => Placed(Append(q, f), at)
  BY <1>1, <1>2 DEF Placed
<1>4. Answered(q) => Placed(q, at)
  BY DEF Placed, Answered
<1>5. Answered(q) /\ f.kind = "ask" /\ at \in Asked => Placed(Append(q, f), at)
  BY <1>1, <1>2 DEF Placed, Answered
<1> QED BY <1>3, <1>4, <1>5

LEMMA PlacedEmpty == \A at : Placed(<<>>, at) /\ Placed(<<List>>, "listing")
  BY DEF Placed, List

---------------------------------------------------------------------------
(* What a step may change.                                                    *)

(* What the user sees afterwards.                                             *)
LEMMA ShownNext ==
  /\ Shown' = IF Open' THEN editor' ELSE disk'
  /\ Open' <=> editor' # Closed
  BY DEF Shown, Open

LEMMA SentGives ==
  ASSUME TypeOK, NEW a \in Versions, NEW b \in Versions
  PROVE  /\ Sent(a, b) \in Seq(Frames)
         /\ \/ Sent(a, b) = up /\ (~Online \/ a = b)
            \/ Online /\ a # b /\ Sent(a, b) = Append(up, PushOf("push", a, b))
<1>1. up \in Seq(Frames) /\ PushOf("push", a, b) \in Frames
  BY Fields, PushFacts
<1>2. Append(up, PushOf("push", a, b)) \in Seq(Frames)
  BY <1>1, QueueFacts
<1> QED BY <1>1, <1>2 DEF Sent

(* A text goes into the document, is stored, and is pushed when online.       *)
Entering(c) ==
  /\ doc' = Synced(doc, c) /\ loro' = doc' /\ doc' # doc
  /\ fresh' = Begins(doc, Synced(doc, c))
  /\ up' = Sent(doc, Synced(doc, c))
  /\ lapses' = lapses \cup (Doubled(doc, Synced(doc, c)) \cup Reverted(doc, c))

Untouched == UNCHANGED <<up, doc, loro, fresh, lapses>>

LEMMA PushFileGives ==
  ASSUME TypeOK, NEW read \in Texts, PushFile(read)
  PROVE  /\ Untouched \/ Entering(IF Open THEN editor ELSE read)
         /\ lastRemote' = NotSet /\ unacked' \in BOOLEAN
<1> DEFINE content == IF Open THEN editor ELSE read
<1>1. content \in Texts /\ doc \in Versions /\ loro \in Versions /\ fresh \in BOOLEAN /\ unacked \in BOOLEAN
  BY Fields
<1>2. lastRemote' = NotSet /\ unacked' \in BOOLEAN
  BY <1>1 DEF PushFile
<1>3. CASE lastRemote = content \/ Synced(doc, content) = doc
  <2>1. doc' = doc /\ loro' = loro
    BY <1>3 DEF PushFile
  <2>2. fresh' = fresh
    BY <1>1, <1>3 DEF PushFile, Begins
  <2>3. up' = up
    BY <1>3 DEF PushFile, Sent
  <2>4. lapses' = lapses
    BY <1>3 DEF PushFile
  <2> QED BY <1>2, <2>1, <2>2, <2>3, <2>4 DEF Untouched
<1>4. CASE lastRemote # content /\ Synced(doc, content) # doc
  <2>1. doc' = Synced(doc, content) /\ loro' = doc' /\ doc' # doc
    BY <1>4 DEF PushFile
  <2>2. fresh' = Begins(doc, Synced(doc, content)) /\ up' = Sent(doc, Synced(doc, content))
    BY <1>4 DEF PushFile
  <2>3. lapses' = lapses \cup (Doubled(doc, Synced(doc, content)) \cup Reverted(doc, content))
    BY <1>4 DEF PushFile
  <2> QED BY <1>2, <2>1, <2>2, <2>3 DEF Entering
<1> QED BY <1>3, <1>4

LEMMA EnteringGives ==
  ASSUME TypeOK, NEW c \in Texts, Entering(c)
  PROVE  /\ doc' \in Versions /\ doc'.ops = doc.ops \cup c /\ loro' = doc' /\ fresh' \in BOOLEAN
         /\ "reverted" \notin lapses' => Text(doc) \subseteq c /\ doc'.deleted = doc.deleted
         /\ up' \in Seq(Frames) /\ (up' # up => Online)
         /\ \/ up' = up
            \/ /\ up' = Append(up, PushOf("push", doc, doc'))
               /\ "doubled" \notin lapses' => ~fresh /\ ~fresh' /\ doc.ops # {}
         /\ fresh' => fresh \/ doc.ops = {}
         /\ lapses \subseteq lapses' /\ lapses' \subseteq Lapses
<1>1. doc \in Versions /\ fresh \in BOOLEAN /\ lapses \subseteq Lapses
  BY Fields
<1>2. /\ doc' = Synced(doc, c) /\ doc' \in Versions /\ doc'.ops = doc.ops \cup c
      /\ doc'.deleted = doc.deleted \cup (Text(doc) \ c)
  <2>1. doc' = Synced(doc, c)
    BY DEF Entering
  <2>2. /\ Synced(doc, c) \in Versions /\ Synced(doc, c).ops = doc.ops \cup c
        /\ Synced(doc, c).deleted = doc.deleted \cup (Text(doc) \ c)
    BY <1>1, SyncedFacts
  <2> QED BY <2>1, <2>2
<1>3. loro' = doc' /\ fresh' \in BOOLEAN /\ (fresh' => fresh \/ doc.ops = {})
  BY <1>1 DEF Entering, Begins
<1>4. lapses \subseteq lapses' /\ lapses' \subseteq Lapses
  BY <1>1 DEF Entering, Doubled, Reverted, Lapses
<1>5. "reverted" \notin lapses' => Text(doc) \subseteq c
  BY DEF Entering, Reverted
<1>6. Text(doc) \subseteq doc.ops /\ (doc' = doc <=> doc'.ops = doc.ops /\ doc'.deleted = doc.deleted)
  BY <1>1, <1>2, VersionFacts
<1>7. /\ up' \in Seq(Frames)
      /\ \/ up' = up
         \/ Online /\ up' = Append(up, PushOf("push", doc, doc'))
  BY <1>1, <1>2, SentGives DEF Entering
<1>8. ASSUME Online, "doubled" \notin lapses' PROVE ~fresh /\ ~fresh' /\ doc.ops # {}
  <2>1. ~Begins(doc, Synced(doc, c))
    BY <1>8 DEF Entering, Doubled
  <2>2. doc'.ops # doc.ops \/ doc'.deleted # doc.deleted
    BY <1>6 DEF Entering
  <2> QED BY <2>1, <2>2, <1>2, <1>6 DEF Begins, Entering
<1> QED BY <1>2, <1>3, <1>4, <1>5, <1>7, <1>8

(* The debounce, the close of a note and a change to its file take the text   *)
(* that the user then sees into the document, or leave it alone.              *)
LEMMA LocalGives ==
  ASSUME TypeOK, DebounceFires \/ CloseNote \/ ExternalEdit
  PROVE  /\ Untouched \/ Entering(Shown')
         /\ Shown' \in Texts /\ Shown \subseteq Shown'
         /\ Shown' \cap PeerChanges \subseteq Shown
         /\ editor' \in Texts \cup {Closed} /\ disk' \in Texts /\ lastRemote' \in Texts \cup {NotSet}
         /\ unacked' \in BOOLEAN
         /\ disk' = disk \/ ~Open'
<1>1. CASE DebounceFires
  <2>1. editor' = editor /\ disk' = disk /\ Shown' = Shown
    BY <1>1 DEF DebounceFires, Shown, Open
  <2>2. CASE Open
    <3>1. PushFile(editor) /\ editor \in Texts /\ Shown = editor
      BY <1>1, <2>2, Fields DEF DebounceFires, Shown
    <3>2. /\ Untouched \/ Entering(IF Open THEN editor ELSE editor)
          /\ lastRemote' = NotSet /\ unacked' \in BOOLEAN
      BY <3>1, PushFileGives
    <3> QED BY <2>1, <3>1, <3>2, Fields
  <2>3. CASE ~Open
    <3>1. Untouched /\ lastRemote' = lastRemote /\ unacked' = unacked
      BY <1>1, <2>3 DEF DebounceFires, Untouched
    <3> QED BY <2>1, <3>1, Fields
  <2> QED BY <2>2, <2>3
<1>2. CASE CloseNote
  <2>1. Open /\ editor \in Texts /\ editor' = Closed /\ Shown = editor
    BY <1>2, Fields DEF CloseNote, Shown
  <2>2. disk' = editor /\ Shown' = editor /\ ~Open'
    BY <1>2, <2>1, ShownNext DEF CloseNote, Modified
  <2>3. CASE disk # editor /\ accepts
    <3>1. PushFile(editor)
      BY <1>2, <2>3 DEF CloseNote, Modified
    <3>2. /\ Untouched \/ Entering(IF Open THEN editor ELSE editor)
          /\ lastRemote' = NotSet /\ unacked' \in BOOLEAN
      BY <3>1, <2>1, PushFileGives
    <3> QED BY <2>1, <2>2, <3>2
  <2>4. CASE disk = editor \/ ~accepts
    <3>1. Untouched /\ lastRemote' = lastRemote /\ unacked' = unacked
      BY <1>2, <2>4 DEF CloseNote, Modified, Untouched
    <3> QED BY <2>1, <2>2, <3>1, Fields
  <2> QED BY <2>3, <2>4
<1>3. CASE ExternalEdit
  <2>1. PICK c \in OwnChanges : Modified(disk \cup {c})
    BY <1>3 DEF ExternalEdit
  <2>2. ~Open /\ editor' = editor /\ disk \in Texts /\ disk \cup {c} \in Texts /\ c \notin PeerChanges
    BY <1>3, Fields, Numbering DEF ExternalEdit, Texts
  <2>3. disk' = disk \cup {c} /\ Shown = disk /\ Shown' = disk \cup {c} /\ ~Open'
    BY <2>1, <2>2, ShownNext DEF Modified, Shown, Open
  <2>4. CASE accepts
    <3>1. PushFile(disk \cup {c})
      BY <2>1, <2>4 DEF Modified
    <3>2. /\ Untouched \/ Entering(IF Open THEN editor ELSE disk \cup {c})
          /\ lastRemote' = NotSet /\ unacked' \in BOOLEAN
      BY <3>1, <2>2, PushFileGives
    <3> QED BY <2>2, <2>3, <3>2, Fields
  <2>5. CASE ~accepts
    <3>1. Untouched /\ lastRemote' = lastRemote /\ unacked' = unacked
      BY <2>1, <2>5 DEF Modified, Untouched
    <3> QED BY <2>2, <2>3, <3>1, Fields
  <2> QED BY <2>4, <2>5
<1> QED BY <1>1, <1>2, <1>3

LEMMA WriteTextGives ==
  ASSUME TypeOK, NEW content \in Texts, NEW accounted \in Texts, NEW saved \in Texts,
         WriteText(content, accounted, saved)
  PROVE  /\ editor' \in Texts \cup {Closed} /\ disk' \in Texts /\ copies' \in Texts
         /\ lastRemote' \in Texts \cup {NotSet} /\ Open' = Open
         /\ copies \cup saved \subseteq copies'
         /\ ~Open => /\ editor' = editor /\ disk' = content
                     /\ disk = accounted \/ disk \subseteq content \cup copies'
         /\ Open => /\ (editor' = editor /\ disk' = disk) \/ editor' = content
                    /\ disk' = disk \/ disk' = editor'
                    /\ disk # content => editor' = content
                    /\ editor = content => editor' = content
<1>1. editor \in Texts \cup {Closed} /\ disk \in Texts /\ copies \in Texts /\ lastRemote \in Texts \cup {NotSet}
  BY Fields
<1>2. content # Closed
  BY Numbering
<1>3. copies' = copies \cup saved \cup Unaccounted(content, accounted)
  BY DEF WriteText
<1>4. Unaccounted(content, accounted) \in Texts
  BY <1>1, Numbering DEF Unaccounted
<1>5. copies' \in Texts
  BY <1>1, <1>3, <1>4 DEF Texts
<1>6. ~Open /\ disk # content /\ disk # accounted => disk \subseteq copies'
  BY <1>3 DEF Unaccounted
<1>7. editor' = (IF Open /\ disk # content THEN content ELSE editor)
  BY DEF WriteText
<1>8. disk' = IF Open /\ editor # content THEN disk ELSE content
  BY DEF WriteText
<1>9. lastRemote' \in Texts \cup {NotSet}
  BY <1>1 DEF WriteText
<1>10. Open' = Open
  BY <1>2, <1>7 DEF Open
<1>11. /\ editor' \in Texts \cup {Closed} /\ disk' \in Texts
  BY <1>1, <1>7, <1>8
<1>12. copies \cup saved \subseteq copies'
  BY <1>3
<1>13. ASSUME ~Open
       PROVE  /\ editor' = editor /\ disk' = content
              /\ disk = accounted \/ disk \subseteq content \cup copies'
  BY <1>13, <1>6, <1>7, <1>8
<1>14. ASSUME Open
       PROVE  /\ (editor' = editor /\ disk' = disk) \/ editor' = content
              /\ disk' = disk \/ disk' = editor'
              /\ disk # content => editor' = content
              /\ editor = content => editor' = content
  BY <1>14, <1>7, <1>8
<1> QED BY <1>5, <1>9, <1>10, <1>11, <1>12, <1>13, <1>14

---------------------------------------------------------------------------
(* A broadcast.                                                               *)

LEMMA FlushedGives ==
  ASSUME TypeOK
  PROVE  /\ Flushed \in Versions /\ doc.ops \subseteq Flushed.ops
         /\ Flushed.ops = doc.ops \cup (IF Open THEN editor ELSE {})
         /\ Flushed.deleted = doc.deleted \cup (IF Open THEN Text(doc) \ editor ELSE {})
         /\ ~Open => Flushed = doc
<1>1. doc \in Versions /\ (Open => editor \in Texts)
  BY Fields
<1>2. CASE Open
  <2>1. Flushed = Synced(doc, editor)
    BY <1>2 DEF Flushed
  <2> QED BY <1>1, <1>2, <2>1, SyncedFacts
<1>3. CASE ~Open
  <2>1. Flushed = doc
    BY <1>3 DEF Flushed
  <2> QED BY <1>1, <1>3, <2>1
<1> QED BY <1>2, <1>3

LEMMA MergedGives ==
  ASSUME TypeOK, NEW n \in PeerChanges
  PROVE  /\ Merged(n) \in Versions /\ Merged(n).ops = Flushed.ops \cup {n}
         /\ Merged(n).deleted = Flushed.deleted
         /\ Text(Merged(n)) \in Texts /\ Text(Flushed) \in Texts
         /\ Text(Flushed) \subseteq Text(Merged(n)) /\ Text(Merged(n)) \subseteq Text(Flushed) \cup {n}
         /\ Text(Merged(n)) \subseteq Merged(n).ops
<1>1. Flushed \in Versions
  BY FlushedGives
<1>2. [ops |-> {n}, deleted |-> {}] \in Versions
  BY Numbering DEF Versions
<1>3. /\ Merged(n) \in Versions /\ Merged(n).ops = Flushed.ops \cup {n}
      /\ Merged(n).deleted = Flushed.deleted
  <2>1. PICK w \in Versions : w = [ops |-> {n}, deleted |-> {}]
    BY <1>2
  <2>2. Merged(n) = Join(Flushed, w) /\ w.ops = {n} /\ w.deleted = {}
    BY <2>1 DEF Merged
  <2>3. /\ Join(Flushed, w) \in Versions /\ Join(Flushed, w).ops = Flushed.ops \cup w.ops
        /\ Join(Flushed, w).deleted = Flushed.deleted \cup w.deleted
    BY <1>1, JoinFacts
  <2> QED BY <2>2, <2>3
<1> QED BY <1>1, <1>3, VersionFacts DEF Text

LEMMA ReflushedGives ==
  ASSUME TypeOK, NEW n \in PeerChanges
  PROVE  /\ Reflushed(n) \in Versions /\ Reflushed(n).ops = Merged(n).ops
         /\ Reflushed(n).deleted = Merged(n).deleted \cup (IF Open THEN Text(Merged(n)) \ editor ELSE {})
         /\ ~Open => Reflushed(n) = Merged(n)
         /\ Open /\ Text(Merged(n)) \subseteq editor => Reflushed(n) = Merged(n)
<1>1. /\ Merged(n) \in Versions /\ Merged(n).ops = Flushed.ops \cup {n}
      /\ Flushed.ops = doc.ops \cup (IF Open THEN editor ELSE {})
  BY MergedGives, FlushedGives
<1>2. CASE Open
  <2>1. Reflushed(n) = Synced(Merged(n), editor) /\ editor \in Texts /\ editor \subseteq Merged(n).ops
    BY <1>1, <1>2, Fields DEF Reflushed
  <2>2. /\ Synced(Merged(n), editor) \in Versions
        /\ Synced(Merged(n), editor).ops = Merged(n).ops \cup editor
        /\ Synced(Merged(n), editor).deleted = Merged(n).deleted \cup (Text(Merged(n)) \ editor)
    BY <1>1, <2>1, SyncedFacts
  <2>3. /\ Reflushed(n) \in Versions /\ Reflushed(n).ops = Merged(n).ops
        /\ Reflushed(n).deleted = Merged(n).deleted \cup (Text(Merged(n)) \ editor)
    BY <2>1, <2>2
  <2>4. Text(Merged(n)) \subseteq editor => Reflushed(n) = Merged(n)
    <3>1. Text(Merged(n)) \subseteq editor => Reflushed(n).deleted = Merged(n).deleted
      BY <2>3
    <3> QED BY <1>1, <2>3, <3>1, VersionFacts
  <2> QED BY <1>2, <2>3, <2>4
<1>3. CASE ~Open
  <2>1. Reflushed(n) = Merged(n)
    BY <1>3 DEF Reflushed
  <2> QED BY <1>1, <1>3, <2>1
<1> QED BY <1>2, <1>3

(* The keystrokes that it pushes first; a second push takes text away.        *)
Keystrokes == PushOf("push", doc, Flushed)
Removal(n) == PushOf("push", Merged(n), Reflushed(n))
Dispatch(n) ==
  \/ up' = up
  \/ Online /\ up' = Append(up, Keystrokes) /\ ("doubled" \notin lapses' => ~fresh)
  \/ /\ Online /\ "reverted" \in lapses'
     /\ up' = Append(up, Removal(n)) \/ up' = Append(Append(up, Keystrokes), Removal(n))

LEMMA DispatchFrames ==
  ASSUME TypeOK, NEW n \in PeerChanges
  PROVE  /\ Keystrokes \in Frames /\ Keystrokes.kind = "push"
         /\ Removal(n) \in Frames /\ Removal(n).kind = "push"
<1>1. doc \in Versions /\ Flushed \in Versions /\ Merged(n) \in Versions /\ Reflushed(n) \in Versions
  BY Fields, FlushedGives, MergedGives, ReflushedGives
<1> QED BY <1>1, PushFacts DEF Keystrokes, Removal

LEMMA DispatchTyped ==
  ASSUME TypeOK, NEW n \in PeerChanges, Dispatch(n)
  PROVE  up' \in Seq(Frames) /\ (up' # up => Online)
<1>1. /\ Keystrokes \in Frames /\ Removal(n) \in Frames /\ up \in Seq(Frames)
  BY Fields, DispatchFrames
<1>2. Append(up, Keystrokes) \in Seq(Frames)
  BY <1>1, QueueFacts
<1>3. Append(up, Removal(n)) \in Seq(Frames) /\ Append(Append(up, Keystrokes), Removal(n)) \in Seq(Frames)
  BY <1>1, <1>2, QueueFacts
<1> QED BY <1>1, <1>2, <1>3 DEF Dispatch

LEMMA FlushSends ==
  ASSUME TypeOK, NEW n \in PeerChanges, FlushLapses \subseteq lapses'
  PROVE  /\ up' = Sent(doc, Flushed) => Dispatch(n)
         /\ up' = ReflushFrames(n) /\ ReflushLapses(n) \subseteq lapses' => Dispatch(n)
         /\ ReflushLapses(n) \subseteq lapses' /\ "reverted" \notin lapses' => Reflushed(n) = Merged(n)
<1>1. ASSUME Online, "doubled" \notin lapses' PROVE ~fresh
  BY <1>1 DEF Doubled, Begins, FlushLapses
<1>2. \/ Sent(doc, Flushed) = up
      \/ Online /\ Sent(doc, Flushed) = Append(up, Keystrokes)
  BY Fields, FlushedGives, SentGives DEF Keystrokes
<1>3. ASSUME ReflushLapses(n) \subseteq lapses', "reverted" \notin lapses' PROVE Reflushed(n) = Merged(n)
  BY <1>3, ReflushedGives DEF ReflushLapses, Reverted
<1>4. ASSUME up' = ReflushFrames(n), ReflushLapses(n) \subseteq lapses' PROVE Dispatch(n)
  <2>1. CASE Online /\ Reflushed(n) # Merged(n)
    <3>1. up' = Append(Sent(doc, Flushed), Removal(n))
      BY <1>4, <2>1 DEF ReflushFrames, Removal
    <3>2. "reverted" \in lapses'
      BY <1>3, <1>4, <2>1
    <3> QED BY <1>2, <2>1, <3>1, <3>2 DEF Dispatch
  <2>2. CASE ~(Online /\ Reflushed(n) # Merged(n))
    <3>1. up' = Sent(doc, Flushed)
      BY <1>4, <2>2 DEF ReflushFrames
    <3> QED BY <1>1, <1>2, <3>1 DEF Dispatch
  <2> QED BY <2>1, <2>2
<1> QED BY <1>1, <1>2, <1>3, <1>4 DEF Dispatch

(* The text that a broadcast takes in at once: keystrokes and its change.     *)
Taken(n) == doc.ops \cup {n} \cup (IF Open THEN editor ELSE {})

LEMMA TakenGives ==
  ASSUME TypeOK, NEW n \in PeerChanges
  PROVE  /\ Merged(n).ops = Taken(n) /\ Reflushed(n).ops = Taken(n)
         /\ FlushLapses \subseteq lapses' /\ "reverted" \notin lapses' /\ doc.deleted = {} =>
              Merged(n).deleted = {}
<1>1. /\ Merged(n).ops = Flushed.ops \cup {n} /\ Merged(n).deleted = Flushed.deleted
      /\ Flushed.ops = doc.ops \cup (IF Open THEN editor ELSE {})
      /\ Flushed.deleted = doc.deleted \cup (IF Open THEN Text(doc) \ editor ELSE {})
      /\ Reflushed(n).ops = Merged(n).ops
  BY MergedGives, FlushedGives, ReflushedGives
<1>2. ASSUME FlushLapses \subseteq lapses', "reverted" \notin lapses', doc.deleted = {}
      PROVE  Merged(n).deleted = {}
  <2>1. CASE Flushed = doc
    BY <1>1, <1>2, <2>1
  <2>2. CASE Flushed # doc
    <3>1. Text(doc) \subseteq editor
      BY <1>2, <2>2 DEF Reverted, FlushLapses
    <3> QED BY <1>1, <1>2, <3>1
  <2> QED BY <2>1, <2>2
<1> QED BY <1>1, <1>2 DEF Taken

(* What a broadcast assigns.                                                  *)
LEMMA HearAssigns ==
  ASSUME NEW n \in PeerChanges, NEW vv \in Versions, Hear(n, vv)
  PROVE  /\ Covers(Merged(n), vv)
         /\ up' = Sent(doc, Flushed) /\ doc' = Merged(n) /\ loro' = Merged(n) /\ fresh' = FALSE
         /\ \/ /\ Open /\ Text(Merged(n)) \ Text(Flushed) # {}
               /\ editor' = editor \cup (Text(Merged(n)) \ Text(Flushed)) /\ lastRemote' = editor'
               /\ UNCHANGED <<disk, copies>>
            \/ /\ ~Open \/ Text(Merged(n)) \ Text(Flushed) = {}
               /\ WriteText(Text(Merged(n)), Text(Flushed), {})
         /\ cache' = [vv |-> vv, hash |-> Text(Merged(n))] /\ cacheDirty' = TRUE /\ lastVV' = vv
         /\ lapses' = lapses \cup FlushLapses \cup Rewound \cup BoundLapse(vv, Merged(n))
         /\ timer' = (timer /\ ~Open) /\ unacked' = (unacked \/ (Online /\ Flushed # doc))
         /\ UNCHANGED <<own, edited, dirty, stored, typed>>
  BY DEF Hear, Remember, Flushes

LEMMA CatchUpAssigns ==
  ASSUME NEW n \in PeerChanges, NEW vv \in Versions, CatchUp(n, vv)
  PROVE  /\ ~Covers(Merged(n), vv) /\ Online /\ up = <<>>
         /\ up' = ReflushFrames(n) /\ doc' = Join(Reflushed(n), srv') /\ loro' = doc' /\ fresh' = FALSE
         /\ \/ /\ Open /\ Text(doc') # Text(Reflushed(n))
               /\ editor' = Text(doc') /\ lastRemote' = editor'
               /\ UNCHANGED <<disk, copies>>
            \/ /\ ~Open \/ Text(doc') = Text(Reflushed(n))
               /\ WriteText(Text(doc'), Text(Flushed), {})
         /\ cache' = [vv |-> srv', hash |-> Text(doc')] /\ cacheDirty' = TRUE /\ lastVV' = srv'
         /\ lapses' = lapses \cup ReflushLapses(n) \cup Rewound \cup BoundLapse(srv', doc')
         /\ timer' = (timer /\ ~Open) /\ unacked' = (unacked \/ (Online /\ Flushed # doc))
         /\ UNCHANGED <<own, edited, dirty, stored, typed>>
  BY DEF CatchUp, Remember, Flushes

LEMMA BroadcastGives ==
  ASSUME TypeOK, NEW n \in PeerChanges, NEW vv \in Versions, Broadcast(n, vv), srv' \in Versions
  PROVE  /\ doc' \in Versions /\ loro' = doc' /\ fresh' = FALSE
         /\ Taken(n) \subseteq doc'.ops
         /\ \/ lastVV' = vv /\ doc'.ops = Taken(n)
            \/ lastVV' = srv' /\ doc'.ops = Taken(n) \cup srv'.ops /\ Online /\ up = <<>> /\ ~Covers(Merged(n), vv)
         /\ "reverted" \notin lapses' /\ doc.deleted = {} /\ srv'.deleted = {} => doc'.deleted = {}
         /\ Dispatch(n)
         /\ cache' = [vv |-> lastVV', hash |-> Text(doc')] /\ cache' \in CacheEntries /\ lastVV' \in Versions
         /\ Covers(doc', lastVV')
         /\ {timer', unacked', cacheDirty'} \subseteq BOOLEAN
         /\ lapses \subseteq lapses' /\ lapses' \subseteq Lapses
         /\ "bound" \notin lapses' => Covers(lastVV', doc')
         /\ UNCHANGED <<own, edited, dirty, stored, typed, faults>>
<1>0. doc \in Versions /\ lapses \subseteq Lapses /\ unacked \in BOOLEAN /\ timer \in BOOLEAN
  BY Fields
<1>1. /\ Merged(n) \in Versions /\ Text(Merged(n)) \in Texts /\ Reflushed(n) \in Versions
      /\ Merged(n).ops = Taken(n) /\ Reflushed(n).ops = Taken(n)
  BY MergedGives, ReflushedGives, TakenGives
<1>2. UNCHANGED faults
  BY DEF Broadcast
<1>3. FlushLapses \subseteq Lapses /\ Rewound \subseteq Lapses /\ ReflushLapses(n) \subseteq Lapses
      /\ (\A v, d : BoundLapse(v, d) \subseteq Lapses) /\ FlushLapses \subseteq ReflushLapses(n)
  BY DEF FlushLapses, ReflushLapses, BoundLapse, Doubled, Rewound, Reverted, Lapses
<1>4. CASE Hear(n, vv)
  <2>1. /\ Covers(Merged(n), vv)
        /\ up' = Sent(doc, Flushed) /\ doc' = Merged(n) /\ loro' = Merged(n) /\ fresh' = FALSE
        /\ cache' = [vv |-> vv, hash |-> Text(Merged(n))] /\ cacheDirty' = TRUE /\ lastVV' = vv
        /\ lapses' = lapses \cup FlushLapses \cup Rewound \cup BoundLapse(vv, Merged(n))
        /\ timer' = (timer /\ ~Open) /\ unacked' = (unacked \/ (Online /\ Flushed # doc))
        /\ UNCHANGED <<own, edited, dirty, stored, typed>>
    BY <1>4, HearAssigns
  <2>2. FlushLapses \subseteq lapses' /\ lapses \subseteq lapses' /\ lapses' \subseteq Lapses
    BY <1>0, <1>3, <2>1
  <2>3. Dispatch(n)
    BY <2>1, <2>2, FlushSends
  <2>4. cache' \in CacheEntries
    BY <1>1, <2>1, EntryFacts
  <2>5. "bound" \notin lapses' => Covers(vv, doc')
    BY <2>1 DEF BoundLapse
  <2>6. "reverted" \notin lapses' /\ doc.deleted = {} => doc'.deleted = {}
    BY <2>1, <2>2, TakenGives
  <2> QED BY <1>0, <1>1, <1>2, <2>1, <2>2, <2>3, <2>4, <2>5, <2>6
<1>5. CASE CatchUp(n, vv)
  <2>1. /\ ~Covers(Merged(n), vv) /\ Online /\ up = <<>>
        /\ up' = ReflushFrames(n) /\ doc' = Join(Reflushed(n), srv') /\ loro' = doc' /\ fresh' = FALSE
        /\ cache' = [vv |-> srv', hash |-> Text(doc')] /\ cacheDirty' = TRUE /\ lastVV' = srv'
        /\ lapses' = lapses \cup ReflushLapses(n) \cup Rewound \cup BoundLapse(srv', doc')
        /\ timer' = (timer /\ ~Open) /\ unacked' = (unacked \/ (Online /\ Flushed # doc))
        /\ UNCHANGED <<own, edited, dirty, stored, typed>>
    BY <1>5, CatchUpAssigns
  <2>2. PICK w \in Versions : w = srv'
    OBVIOUS
  <2>3. /\ Join(Reflushed(n), w) \in Versions /\ Join(Reflushed(n), w).ops = Reflushed(n).ops \cup w.ops
        /\ Join(Reflushed(n), w).deleted = Reflushed(n).deleted \cup w.deleted
    BY <1>1, JoinFacts
  <2>4. /\ doc' \in Versions /\ doc'.ops = Taken(n) \cup srv'.ops
        /\ doc'.deleted = Reflushed(n).deleted \cup srv'.deleted
    BY <1>1, <2>1, <2>2, <2>3
  <2>5. Covers(doc', srv')
    <3>1. PICK d \in Versions : d = doc'
      BY <2>4
    <3>2. Covers(d, w)
      BY <2>2, <2>4, <3>1, CoverFacts
    <3> QED BY <2>2, <3>1, <3>2
  <2>6. /\ ReflushLapses(n) \subseteq lapses' /\ FlushLapses \subseteq lapses'
        /\ lapses \subseteq lapses' /\ lapses' \subseteq Lapses
    BY <1>0, <1>3, <2>1
  <2>7. Dispatch(n)
    BY <2>1, <2>6, FlushSends
  <2>8. cache' \in CacheEntries
    <3>1. PICK d \in Versions : d = doc'
      BY <2>4
    <3>2. Text(d) \in Texts
      BY VersionFacts
    <3>3. [vv |-> w, hash |-> Text(d)] \in CacheEntries
      BY <3>2, EntryFacts
    <3> QED BY <2>1, <2>2, <3>1, <3>3
  <2>9. "bound" \notin lapses' => Covers(srv', doc')
    BY <2>1 DEF BoundLapse
  <2>10. "reverted" \notin lapses' /\ doc.deleted = {} /\ srv'.deleted = {} => doc'.deleted = {}
    BY <2>4, <2>6, FlushSends, TakenGives
  <2> QED BY <1>0, <1>2, <2>1, <2>4, <2>5, <2>6, <2>7, <2>8, <2>9, <2>10
<1> QED BY <1>4, <1>5 DEF Broadcast

(* One that fails, for want of what came before it.                           *)
LEMMA MissGives ==
  ASSUME TypeOK, NEW n \in PeerChanges, NEW vv \in Versions, CatchUpFails(n, vv)
  PROVE  /\ doc' \in Versions /\ fresh' = FALSE /\ doc'.ops = Taken(n) /\ lastVV' = vv
         /\ "reverted" \notin lapses' => doc' = Merged(n) /\ ~Covers(doc', vv)
         /\ "reverted" \notin lapses' /\ doc.deleted = {} => doc'.deleted = {}
         /\ Dispatch(n)
         /\ {timer', unacked'} \subseteq BOOLEAN
         /\ lapses \subseteq lapses' /\ lapses' \subseteq Lapses
         /\ faults' = faults \/ (faults' = faults + 1 /\ faults < MaxFaults)
         /\ UNCHANGED <<text, own, edited, loro, dirty, stored, cache, cacheDirty, typed>>
<1>0. doc \in Versions /\ lapses \subseteq Lapses /\ unacked \in BOOLEAN /\ timer \in BOOLEAN
  BY Fields
<1>1. /\ ~Covers(Merged(n), vv)
      /\ up' = ReflushFrames(n) /\ doc' = Reflushed(n) /\ fresh' = FALSE /\ lastVV' = vv
      /\ lapses' = lapses \cup ReflushLapses(n)
      /\ timer' = (timer /\ ~Open) /\ unacked' = (unacked \/ (Online /\ Flushed # doc))
      /\ faults' = faults \/ (faults' = faults + 1 /\ faults < MaxFaults)
      /\ UNCHANGED <<text, own, edited, loro, dirty, stored, cache, cacheDirty, typed>>
  BY DEF CatchUpFails, Flushes
<1>2. /\ ReflushLapses(n) \subseteq lapses' /\ FlushLapses \subseteq lapses'
      /\ lapses \subseteq lapses' /\ lapses' \subseteq Lapses
  BY <1>0, <1>1 DEF FlushLapses, ReflushLapses, Doubled, Reverted, Lapses
<1>3. Dispatch(n)
  BY <1>1, <1>2, FlushSends
<1>4. "reverted" \notin lapses' => Reflushed(n) = Merged(n)
  BY <1>2, FlushSends
<1>5. "reverted" \notin lapses' /\ doc.deleted = {} => doc'.deleted = {}
  BY <1>1, <1>2, <1>4, TakenGives
<1>6. Reflushed(n) \in Versions /\ Reflushed(n).ops = Taken(n)
  BY ReflushedGives, TakenGives
<1> QED BY <1>0, <1>1, <1>2, <1>3, <1>4, <1>5, <1>6

(* What it leaves in the editor and in the file.                              *)
LEMMA HearWrites ==
  ASSUME TypeOK, NEW n \in PeerChanges, NEW vv \in Versions, Hear(n, vv)
  PROVE  /\ editor' \in Texts \cup {Closed} /\ disk' \in Texts /\ copies' \in Texts
         /\ lastRemote' \in Texts \cup {NotSet} /\ Open' = Open /\ copies \subseteq copies'
         /\ (disk' \cup editor') \subseteq disk \cup editor \cup doc'.ops
         /\ ~Open => editor' = editor /\ disk' = Text(doc') /\ disk \subseteq disk' \cup copies'
         /\ Open => /\ "rewound" \notin lapses' => editor \subseteq editor' \cup copies'
                    /\ disk' = disk \/ disk' = editor'
         /\ Open /\ "reverted" \notin lapses' /\ doc.deleted = {} /\ doc.ops \subseteq editor =>
              editor \subseteq editor' /\ doc'.ops \subseteq editor'
<1>0. /\ editor \in Texts \cup {Closed} /\ (Open => editor \in Texts) /\ disk \in Texts /\ copies \in Texts
      /\ doc \in Versions
  BY Fields
<1>1. /\ Text(Merged(n)) \in Texts /\ Text(Flushed) \in Texts
      /\ Text(Flushed) \subseteq Text(Merged(n)) /\ Text(Merged(n)) \subseteq Text(Flushed) \cup {n}
      /\ Merged(n) \in Versions /\ Merged(n).ops = Flushed.ops \cup {n}
  BY MergedGives
<1>2. doc' = Merged(n)
  BY HearAssigns
<1>3. /\ Flushed \in Versions /\ Flushed.ops = doc.ops \cup (IF Open THEN editor ELSE {})
      /\ ~Open => Flushed = doc
  BY FlushedGives
<1>4. Text(Flushed) \subseteq doc.ops \cup editor
  <2>1. Text(Flushed) \subseteq Flushed.ops
    BY <1>3, VersionFacts
  <2> QED BY <1>3, <2>1
<1>5. Open /\ "rewound" \notin lapses' => editor \subseteq editor' \cup copies'
  BY HearAssigns DEF Rewound
<1>6. ASSUME Open, "reverted" \notin lapses', doc.deleted = {}, doc.ops \subseteq editor
      PROVE  Text(Flushed) = editor /\ doc'.ops = Text(doc') /\ Text(doc') = editor \cup {n}
  <2>0. FlushLapses \subseteq lapses'
    BY HearAssigns
  <2>1. doc'.deleted = {} /\ doc' \in Versions /\ doc'.ops = doc.ops \cup {n} \cup editor
    BY <1>1, <1>2, <1>6, <2>0, TakenGives DEF Taken
  <2>2. Flushed.deleted = {}
    BY <1>2, <2>1, MergedGives
  <2>3. Text(Flushed) = Flushed.ops /\ Text(doc') = doc'.ops
    BY <1>3, <2>1, <2>2 DEF Text
  <2> QED BY <1>3, <1>6, <2>1, <2>3
<1>7. CASE /\ Open /\ Text(Merged(n)) \ Text(Flushed) # {}
           /\ editor' = editor \cup (Text(Merged(n)) \ Text(Flushed)) /\ lastRemote' = editor'
           /\ UNCHANGED <<disk, copies>>
  <2>1. editor' \in Texts /\ Open' = Open
    <3>1. editor' \in Texts
      BY <1>0, <1>1, <1>7 DEF Texts
    <3> QED BY <1>7, <3>1, ShownNext, Numbering DEF Open
  <2>2. editor' \subseteq editor \cup doc'.ops
    BY <1>1, <1>2, <1>7
  <2>3. "reverted" \notin lapses' /\ doc.deleted = {} /\ doc.ops \subseteq editor =>
          editor \subseteq editor' /\ doc'.ops \subseteq editor'
    BY <1>2, <1>6, <1>7
  <2>4. disk' = disk /\ copies' = copies /\ lastRemote' = editor' /\ Open
    BY <1>7
  <2> QED BY <1>0, <1>5, <2>1, <2>2, <2>3, <2>4
<1>8. CASE /\ ~Open \/ Text(Merged(n)) \ Text(Flushed) = {}
           /\ WriteText(Text(Merged(n)), Text(Flushed), {})
  <2>1. {} \in Texts
    BY Numbering
  <2>2. /\ editor' \in Texts \cup {Closed} /\ disk' \in Texts /\ copies' \in Texts
        /\ lastRemote' \in Texts \cup {NotSet} /\ Open' = Open /\ copies \subseteq copies'
        /\ ~Open => /\ editor' = editor /\ disk' = Text(Merged(n))
                    /\ disk = Text(Flushed) \/ disk \subseteq Text(Merged(n)) \cup copies'
        /\ Open => /\ (editor' = editor /\ disk' = disk) \/ editor' = Text(Merged(n))
                   /\ disk' = disk \/ disk' = editor'
    BY <1>1, <1>8, <2>1, WriteTextGives
  <2>3. ~Open => editor' = editor /\ disk' = Text(doc') /\ disk \subseteq disk' \cup copies'
    BY <1>1, <1>2, <2>2
  <2>4. ASSUME Open, "reverted" \notin lapses', doc.deleted = {}, doc.ops \subseteq editor
        PROVE  editor \subseteq editor' /\ doc'.ops \subseteq editor'
    <3>1. Text(Flushed) = editor /\ doc'.ops = Text(doc') /\ Text(doc') = Text(Merged(n))
      BY <1>2, <1>6, <2>4
    <3>2. Text(Merged(n)) = editor
      BY <1>1, <1>8, <2>4, <3>1
    <3> QED BY <2>2, <2>4, <3>1, <3>2
  <2>5. (disk' \cup editor') \subseteq disk \cup editor \cup doc'.ops
    <3>1. Text(Merged(n)) \subseteq doc'.ops
      BY <1>1, <1>2, VersionFacts
    <3> QED BY <2>2, <3>1
  <2>6. disk' = disk \/ disk' = editor' \/ ~Open
    BY <2>2
  <2> QED BY <1>5, <2>2, <2>3, <2>4, <2>5, <2>6
<1> QED BY <1>7, <1>8, HearAssigns

LEMMA CatchUpWrites ==
  ASSUME TypeOK, NEW n \in PeerChanges, NEW vv \in Versions, CatchUp(n, vv), srv' \in Versions
  PROVE  /\ editor' \in Texts \cup {Closed} /\ disk' \in Texts /\ copies' \in Texts
         /\ lastRemote' \in Texts \cup {NotSet} /\ Open' = Open /\ copies \subseteq copies'
         /\ (disk' \cup editor') \subseteq disk \cup editor \cup doc'.ops
         /\ ~Open => /\ editor' = editor /\ disk' = Text(doc')
                     /\ srv'.deleted = {} => disk \subseteq disk' \cup copies'
         /\ Open => /\ "rewound" \notin lapses' => editor \subseteq editor' \cup copies'
                    /\ disk' = disk \/ disk' = editor'
         /\ Open /\ "reverted" \notin lapses' /\ doc.deleted = {} /\ srv'.deleted = {} /\ doc.ops \subseteq editor =>
              editor \subseteq editor' /\ doc'.ops \subseteq editor'
<1>0. /\ editor \in Texts \cup {Closed} /\ (Open => editor \in Texts) /\ disk \in Texts /\ copies \in Texts
      /\ doc \in Versions /\ Flushed \in Versions /\ (~Open => Flushed = doc)
      /\ Text(Flushed) \in Texts /\ {} \in Texts
  BY Fields, FlushedGives, MergedGives, Numbering
<1>1. /\ doc' = Join(Reflushed(n), srv')
      /\ \/ /\ Open /\ Text(doc') # Text(Reflushed(n))
            /\ editor' = Text(doc') /\ lastRemote' = editor'
            /\ UNCHANGED <<disk, copies>>
         \/ /\ ~Open \/ Text(doc') = Text(Reflushed(n))
            /\ WriteText(Text(doc'), Text(Flushed), {})
      /\ ReflushLapses(n) \subseteq lapses' /\ FlushLapses \subseteq lapses' /\ Rewound \subseteq lapses'
  BY CatchUpAssigns DEF ReflushLapses
<1>2. PICK w \in Versions : w = srv'
  OBVIOUS
<1>3. /\ Reflushed(n) \in Versions /\ Reflushed(n).ops = Taken(n) /\ (~Open => Reflushed(n) = Merged(n))
      /\ Merged(n) \in Versions /\ Merged(n).ops = Taken(n) /\ Text(Flushed) \subseteq Text(Merged(n))
  BY ReflushedGives, TakenGives, MergedGives
<1>4. PICK d \in Versions : /\ d = Join(Reflushed(n), w) /\ d.ops = Taken(n) \cup w.ops
                           /\ d.deleted = Reflushed(n).deleted \cup w.deleted
  BY <1>3, JoinFacts
<1>5. doc' = d /\ Text(d) \in Texts /\ Text(d) \subseteq d.ops
  BY <1>1, <1>2, <1>4, VersionFacts
<1>6. Open /\ "rewound" \notin lapses' => editor \subseteq editor' \cup copies'
  BY <1>1 DEF Rewound
<1>7. ASSUME Open, "reverted" \notin lapses', doc.deleted = {}, srv'.deleted = {}, doc.ops \subseteq editor
      PROVE  Text(Reflushed(n)) = editor /\ Text(d) = d.ops /\ editor \subseteq d.ops
  <2>1. Reflushed(n) = Merged(n) /\ Merged(n).deleted = {}
    BY <1>1, <1>7, FlushSends, TakenGives
  <2>2. Text(Merged(n)) = Taken(n) /\ Text(d) = d.ops
    BY <1>2, <1>3, <1>4, <1>7, <2>1, VersionFacts
  <2>3. Text(Merged(n)) \subseteq editor
    BY <1>1, <1>7 DEF ReflushLapses, Reverted
  <2>4. editor \subseteq Taken(n)
    BY <1>7 DEF Taken
  <2> QED BY <1>4, <2>1, <2>2, <2>3, <2>4
<1>8. CASE /\ Open /\ Text(doc') # Text(Reflushed(n))
           /\ editor' = Text(doc') /\ lastRemote' = editor'
           /\ UNCHANGED <<disk, copies>>
  <2>1. editor' \in Texts /\ Open' = Open
    BY <1>5, <1>8, Numbering DEF Open
  <2> QED BY <1>0, <1>4, <1>5, <1>6, <1>7, <1>8, <2>1
<1>9. CASE /\ ~Open \/ Text(doc') = Text(Reflushed(n))
           /\ WriteText(Text(doc'), Text(Flushed), {})
  <2>1. WriteText(Text(d), Text(Flushed), {})
    BY <1>5, <1>9
  <2>2. /\ editor' \in Texts \cup {Closed} /\ disk' \in Texts /\ copies' \in Texts
        /\ lastRemote' \in Texts \cup {NotSet} /\ Open' = Open /\ copies \subseteq copies'
        /\ ~Open => /\ editor' = editor /\ disk' = Text(d)
                    /\ disk = Text(Flushed) \/ disk \subseteq Text(d) \cup copies'
        /\ Open => /\ (editor' = editor /\ disk' = disk) \/ editor' = Text(d)
                   /\ disk' = disk \/ disk' = editor'
    BY <1>0, <1>5, <2>1, WriteTextGives
  <2>3. ASSUME ~Open, srv'.deleted = {} PROVE disk \subseteq disk' \cup copies'
    <3>1. d.deleted = Merged(n).deleted /\ Merged(n).ops \subseteq d.ops
      BY <1>2, <1>3, <1>4, <2>3
    <3>2. Text(Merged(n)) \subseteq Text(d)
      BY <3>1 DEF Text
    <3> QED BY <1>3, <2>2, <2>3, <3>2
  <2>4. ASSUME Open, "reverted" \notin lapses', doc.deleted = {}, srv'.deleted = {}, doc.ops \subseteq editor
        PROVE  editor \subseteq editor' /\ doc'.ops \subseteq editor'
    BY <1>5, <1>7, <1>9, <2>2, <2>4
  <2>5. (disk' \cup editor') \subseteq disk \cup editor \cup doc'.ops
    BY <1>5, <2>2
  <2>6. ~Open => editor' = editor /\ disk' = Text(doc')
    BY <1>5, <2>2
  <2> QED BY <1>6, <2>2, <2>3, <2>4, <2>5, <2>6
<1> QED BY <1>1, <1>8, <1>9

LEMMA BroadcastWrites ==
  ASSUME TypeOK, NEW n \in PeerChanges, NEW vv \in Versions, Broadcast(n, vv), srv' \in Versions
  PROVE  /\ editor' \in Texts \cup {Closed} /\ disk' \in Texts /\ copies' \in Texts
         /\ lastRemote' \in Texts \cup {NotSet} /\ Open' = Open /\ copies \subseteq copies'
         /\ (disk' \cup editor') \subseteq disk \cup editor \cup doc'.ops
         /\ ~Open => /\ editor' = editor /\ disk' = Text(doc')
                     /\ srv'.deleted = {} => disk \subseteq disk' \cup copies'
         /\ Open => /\ "rewound" \notin lapses' => editor \subseteq editor' \cup copies'
                    /\ disk' = disk \/ disk' = editor'
         /\ Open /\ "reverted" \notin lapses' /\ doc.deleted = {} /\ srv'.deleted = {} /\ doc.ops \subseteq editor =>
              editor \subseteq editor' /\ doc'.ops \subseteq editor'
  BY HearWrites, CatchUpWrites DEF Broadcast

---------------------------------------------------------------------------
(* The request for the note and its answers.                                  *)

(* What the sync takes for the text of the note.                              *)
LocalText == Local(Effective)

LEMMA LocalTyped ==
  ASSUME TypeOK
  PROVE  /\ Effective \in Texts /\ Effective # NotSet /\ LocalText \in Texts
         /\ Open => LocalText = editor
         /\ ~Open => LocalText = Effective
<1>1. sync.read \in Texts \cup {NotSet}
  BY Fields, SyncFields
<1>2. Effective \in Texts /\ Effective # NotSet
  BY <1>1, Fields, Numbering DEF Effective
<1> QED BY <1>2, Fields DEF LocalText, Local

LEMMA CompareGives ==
  ASSUME TypeOK, NEW local \in Texts, Compare(local)
  PROVE  /\ doc' \in Versions
         /\ \/ doc' = doc /\ doc.ops = {}
            \/ doc.ops # {} /\ doc'.ops = doc.ops \cup local
         /\ "reverted" \notin lapses' /\ doc.deleted = {} => doc'.deleted = {}
         /\ lapses \subseteq lapses' /\ lapses' \subseteq lapses \cup {"reverted"}
<1>1. doc \in Versions
  BY Fields
<1>2. CASE doc.ops = {}
  BY <1>1, <1>2 DEF Compare
<1>3. CASE doc.ops # {}
  <2>1. /\ doc' = IF local # Text(doc) THEN Synced(doc, local) ELSE doc
        /\ lapses' = lapses \cup Reverted(doc, local)
    BY <1>3 DEF Compare
  <2>2. /\ Synced(doc, local) \in Versions /\ Synced(doc, local).ops = doc.ops \cup local
        /\ Synced(doc, local).deleted = doc.deleted \cup (Text(doc) \ local)
    BY <1>1, SyncedFacts
  <2>3. Text(doc) \subseteq doc.ops
    BY <1>1, VersionFacts
  <2>4. doc' \in Versions /\ doc'.ops = doc.ops \cup local
    BY <1>1, <2>1, <2>2, <2>3
  <2>5. "reverted" \notin lapses' => Text(doc) \subseteq local
    BY <2>1 DEF Reverted
  <2>6. lapses \subseteq lapses' /\ lapses' \subseteq lapses \cup {"reverted"}
    BY <2>1 DEF Reverted
  <2>7. "reverted" \notin lapses' /\ doc.deleted = {} => doc'.deleted = {}
    BY <2>1, <2>2, <2>5
  <2> QED BY <1>3, <2>4, <2>6, <2>7
<1> QED BY <1>2, <1>3

LEMMA RequestGives ==
  ASSUME TypeOK, NEW s \in Syncs, NEW local \in Texts, NEW frames \in Seq(Frames), Request(s, local, frames)
  PROVE  /\ doc' \in Versions /\ sync' \in Syncs /\ up' = Append(frames, Ask)
         /\ sync'.read = local /\ sync'.cached = s.cached /\ sync'.listed = s.listed
         /\ \/ sync'.at = "adopting" /\ doc' = doc /\ doc.ops = {}
            \/ /\ sync'.at = "asked" /\ sync'.sent = doc' /\ doc.ops # {}
               /\ doc'.ops = doc.ops \cup local
         /\ "reverted" \notin lapses' /\ doc.deleted = {} => doc'.deleted = {}
         /\ lapses \subseteq lapses' /\ lapses' \subseteq lapses \cup {"reverted"}
<1>1. Compare(local) /\ edited \in BOOLEAN /\ up' = Append(frames, Ask)
  BY Fields DEF Request
<1>2. /\ doc' \in Versions
      /\ \/ doc' = doc /\ doc.ops = {}
         \/ doc.ops # {} /\ doc'.ops = doc.ops \cup local
      /\ "reverted" \notin lapses' /\ doc.deleted = {} => doc'.deleted = {}
      /\ lapses \subseteq lapses' /\ lapses' \subseteq lapses \cup {"reverted"}
  BY <1>1, CompareGives
<1>3. CASE doc.ops = {}
  <2>1. sync' = [s EXCEPT !.at = "adopting", !.read = local]
    BY <1>3 DEF Request
  <2>2. sync' \in Syncs
    BY <2>1 DEF Syncs, Places
  <2>3. /\ sync'.read = local /\ sync'.cached = s.cached /\ sync'.listed = s.listed
        /\ sync'.at = "adopting"
    BY <2>1 DEF Syncs
  <2> QED BY <1>1, <1>2, <1>3, <2>2, <2>3
<1>4. CASE doc.ops # {}
  <2>1. sync' = [s EXCEPT !.at = "asked", !.read = local, !.sent = doc',
                          !.changed = (local # Text(doc)), !.edited = edited]
    BY <1>4 DEF Request
  <2>2. sync' \in Syncs
    BY <1>1, <1>2, <2>1 DEF Syncs, Places
  <2>3. /\ sync'.read = local /\ sync'.cached = s.cached /\ sync'.listed = s.listed
        /\ sync'.at = "asked" /\ sync'.sent = doc'
    BY <2>1 DEF Syncs
  <2> QED BY <1>1, <1>2, <1>4, <2>2, <2>3
<1> QED BY <1>3, <1>4

(* The two places where the note is asked for; and a sync that finds itself   *)
(* without a connection there.                                                *)
Asking == (Listed /\ Open) \/ (FullSync /\ Online)
GivesUp == FullSync /\ ~Online

LEMMA GivesUpGives ==
  ASSUME TypeOK, GivesUp
  PROVE  /\ doc' \in Versions /\ sync.at = "planned" /\ sync' = NoSync /\ buffered' = <<>> /\ edited' = FALSE
         /\ \/ doc' = doc /\ doc.ops = {}
            \/ doc.ops # {} /\ doc'.ops = doc.ops \cup LocalText
         /\ "reverted" \notin lapses' /\ doc.deleted = {} => doc'.deleted = {}
         /\ lapses \subseteq lapses' /\ lapses' \subseteq lapses \cup {"reverted"}
         /\ UNCHANGED <<server, up, phase, accepts, text, own, timer, unacked, persisted, caches,
                        replaying, replay, unheard, typed, counters>>
<1>1. Compare(LocalText) /\ SyncFails /\ up' = up /\ sync.at = "planned"
  BY DEF GivesUp, FullSync, LocalText
<1>2. LocalText \in Texts
  BY LocalTyped
<1>3. /\ doc' \in Versions
      /\ \/ doc' = doc /\ doc.ops = {}
         \/ doc.ops # {} /\ doc'.ops = doc.ops \cup LocalText
      /\ "reverted" \notin lapses' /\ doc.deleted = {} => doc'.deleted = {}
      /\ lapses \subseteq lapses' /\ lapses' \subseteq lapses \cup {"reverted"}
  BY <1>1, <1>2, CompareGives
<1>4. UNCHANGED <<server, phase, accepts, text, own, timer, unacked, persisted, caches,
                  replaying, replay, unheard, typed, counters>>
  BY DEF GivesUp, FullSync
<1>5. sync' = NoSync /\ buffered' = <<>> /\ edited' = FALSE
  BY <1>1 DEF SyncFails
<1> QED BY <1>1, <1>3, <1>4, <1>5

LEMMA AskingGives ==
  ASSUME TypeOK, Asking
  PROVE  /\ doc' \in Versions /\ sync' \in Syncs /\ Online
         /\ \/ up' = Append(Tail(up), Ask) /\ up # <<>> /\ Head(up).kind = "list" /\ sync'.listed = srv
            \/ up' = Append(up, Ask) /\ sync.at = "planned" /\ sync'.listed = sync.listed
         /\ sync'.read = LocalText /\ sync'.cached = sync.cached
         /\ \/ sync'.at = "adopting" /\ doc' = doc /\ doc.ops = {}
            \/ /\ sync'.at = "asked" /\ sync'.sent = doc' /\ doc.ops # {}
               /\ doc'.ops = doc.ops \cup LocalText
         /\ "reverted" \notin lapses' /\ doc.deleted = {} => doc'.deleted = {}
         /\ lapses \subseteq lapses' /\ lapses' \subseteq lapses \cup {"reverted"}
         /\ UNCHANGED <<server, phase, accepts, text, own, push, persisted, caches, queues, typed, counters>>
<1>1. up \in Seq(Frames) /\ (up # <<>> => Online) /\ sync \in Syncs /\ srv \in Versions
  BY Fields
<1>2. UNCHANGED <<server, phase, accepts, text, own, push, persisted, caches, queues, typed, counters>>
  BY DEF Asking, Listed, FullSync
<1>3. CASE Listed /\ Open
  <2>1. PICK s \in Syncs : s = [sync EXCEPT !.listed = srv, !.first = Open]
    <3>1. [sync EXCEPT !.listed = srv, !.first = Open] \in Syncs
      BY <1>1, <1>3 DEF Syncs
    <3> QED BY <3>1
  <2>2. s.cached = sync.cached /\ s.listed = srv
    BY <1>1, <2>1 DEF Syncs
  <2>3. up # <<>> /\ Head(up).kind = "list" /\ Request(s, editor, Tail(up))
    BY <1>3, <2>1 DEF Listed
  <2>4. Tail(up) \in Seq(Frames) /\ editor \in Texts
    BY <1>1, <1>3, <2>3, QueueFacts, Fields
  <2>5. LocalText = editor
    BY <1>3, LocalTyped
  <2>6. /\ doc' \in Versions /\ sync' \in Syncs /\ up' = Append(Tail(up), Ask)
        /\ sync'.read = editor /\ sync'.cached = s.cached /\ sync'.listed = s.listed
        /\ \/ sync'.at = "adopting" /\ doc' = doc /\ doc.ops = {}
           \/ /\ sync'.at = "asked" /\ sync'.sent = doc' /\ doc.ops # {}
              /\ doc'.ops = doc.ops \cup editor
        /\ "reverted" \notin lapses' /\ doc.deleted = {} => doc'.deleted = {}
        /\ lapses \subseteq lapses' /\ lapses' \subseteq lapses \cup {"reverted"}
    BY <2>3, <2>4, RequestGives
  <2> QED BY <1>1, <1>2, <2>2, <2>3, <2>5, <2>6
<1>4. CASE FullSync /\ Online
  <2>1. PICK s \in Syncs : s = [sync EXCEPT !.hash = IF Unchanged(sync) THEN Effective ELSE @]
    <3>1. [sync EXCEPT !.hash = IF Unchanged(sync) THEN Effective ELSE @] \in Syncs
      BY <1>1, LocalTyped DEF Syncs
    <3> QED BY <3>1
  <2>2. s.cached = sync.cached /\ s.listed = sync.listed
    BY <1>1, <2>1 DEF Syncs
  <2>3. sync.at = "planned" /\ Request(s, LocalText, up)
    BY <1>4, <2>1 DEF FullSync, LocalText
  <2>4. LocalText \in Texts
    BY LocalTyped
  <2>5. /\ doc' \in Versions /\ sync' \in Syncs /\ up' = Append(up, Ask)
        /\ sync'.read = LocalText /\ sync'.cached = s.cached /\ sync'.listed = s.listed
        /\ \/ sync'.at = "adopting" /\ doc' = doc /\ doc.ops = {}
           \/ /\ sync'.at = "asked" /\ sync'.sent = doc' /\ doc.ops # {}
              /\ doc'.ops = doc.ops \cup LocalText
        /\ "reverted" \notin lapses' /\ doc.deleted = {} => doc'.deleted = {}
        /\ lapses \subseteq lapses' /\ lapses' \subseteq lapses \cup {"reverted"}
    BY <1>1, <2>3, <2>4, RequestGives
  <2> QED BY <1>2, <1>4, <2>2, <2>3, <2>5
<1> QED BY <1>3, <1>4 DEF Asking

LEMMA NoteDoneGives ==
  ASSUME TypeOK, NEW d \in Versions, NEW k \in BOOLEAN, NoteDone(d, k)
  PROVE  /\ doc' = d /\ loro' = d /\ fresh' = FALSE /\ lastVV' = srv
         /\ sync' \in Syncs /\ sync'.at = "ending" /\ sync'.hash = Text(d)
         /\ sync'.cached = sync.cached /\ sync'.listed = sync.listed
<1>1. sync \in Syncs /\ Text(d) \in Texts
  BY Fields, VersionFacts
<1>2. sync' = [sync EXCEPT !.at = "ending", !.hash = Text(d), !.dirty = k]
  BY DEF NoteDone
<1>3. sync' \in Syncs
  BY <1>1, <1>2 DEF Syncs, Places
<1>4. /\ sync'.at = "ending" /\ sync'.hash = Text(d)
      /\ sync'.cached = sync.cached /\ sync'.listed = sync.listed
  BY <1>1, <1>2 DEF Syncs
<1> QED BY <1>3, <1>4 DEF NoteDone

(* The server's version takes the place of the note.                          *)
Adoption == Adopt \/ Readopt \/ Disjoint

LEMMA AdoptionGives ==
  ASSUME TypeOK, ReadTyped, Adoption
  PROVE  /\ doc' \in Versions /\ loro' = doc' /\ fresh' = FALSE /\ lastVV' = srv
         /\ srv.ops \subseteq doc'.ops /\ doc'.ops \subseteq doc.ops \cup srv.ops
         /\ "doubled" \notin lapses' => doc'.ops = srv.ops
         /\ doc'.deleted \subseteq doc.deleted \cup srv.deleted
         /\ sync' \in Syncs /\ sync'.at = "ending" /\ sync'.hash = Text(doc')
         /\ sync'.cached = sync.cached /\ sync'.listed = sync.listed
         /\ up # <<>> /\ Head(up).kind = "ask" /\ up' = Tail(up)
         /\ lapses \subseteq lapses' /\ lapses' \subseteq Lapses
         /\ "doubled" \notin lapses' /\ ~fresh => doc.ops = {}
         /\ sync.at = "again" \/ (sync.at = "adopting" /\ ~Disjoint) \/ (sync.at = "asked" /\ fresh)
         /\ sync.at \in {"asked", "adopting", "again"}
         /\ UNCHANGED <<server, phase, accepts, own, push, dirty, stored, cache, cacheDirty, queues,
                        typed, counters>>
<1>0. /\ doc \in Versions /\ srv \in Versions /\ lapses \subseteq Lapses
  BY Fields
<1>1. /\ Join(doc, srv) \in Versions /\ Join(doc, srv).ops = doc.ops \cup srv.ops
      /\ Join(doc, srv).deleted = doc.deleted \cup srv.deleted
  BY <1>0, JoinFacts
<1>2. UNCHANGED <<server, phase, accepts, own, push, dirty, stored, cache, cacheDirty, queues,
                  typed, counters>>
  BY DEF Adoption, Adopt, Readopt, Disjoint
<1>3. CASE Adopt \/ Readopt
  <2>1. PICK d \in Versions : d = Join(doc, srv)
    BY <1>1
  <2>2. NoteDone(d, FALSE)
    BY <1>3, <2>1 DEF Adopt, Readopt
  <2>3. /\ doc' = d /\ loro' = d /\ fresh' = FALSE /\ lastVV' = srv
        /\ sync' \in Syncs /\ sync'.at = "ending" /\ sync'.hash = Text(d)
        /\ sync'.cached = sync.cached /\ sync'.listed = sync.listed
    BY <2>2, NoteDoneGives
  <2>4. /\ up # <<>> /\ Head(up).kind = "ask" /\ up' = Tail(up)
        /\ sync.at = "again" \/ sync.at = "adopting"
        /\ ~Disjoint
    BY <1>3 DEF Adopt, Readopt, Disjoint, Answers
  <2>5. lapses' = lapses \cup Rewound \cup (IF doc.ops # {} THEN {"doubled"} ELSE {})
    BY <1>3 DEF Adopt, Readopt
  <2>6. lapses \subseteq lapses' /\ lapses' \subseteq Lapses
    BY <1>0, <2>5 DEF Rewound, Lapses
  <2>7. "doubled" \notin lapses' => doc.ops = {}
    BY <2>5
  <2> QED BY <1>1, <1>2, <2>1, <2>3, <2>4, <2>6, <2>7
<1>4. CASE Disjoint
  <2>1. PICK d \in Versions : d = srv
    BY <1>0
  <2>2. NoteDone(d, FALSE)
    BY <1>4, <2>1 DEF Disjoint
  <2>3. /\ doc' = d /\ loro' = d /\ fresh' = FALSE /\ lastVV' = srv
        /\ sync' \in Syncs /\ sync'.at = "ending" /\ sync'.hash = Text(d)
        /\ sync'.cached = sync.cached /\ sync'.listed = sync.listed
    BY <2>2, NoteDoneGives
  <2>4. up # <<>> /\ Head(up).kind = "ask" /\ up' = Tail(up) /\ sync.at = "asked" /\ fresh
    BY <1>4 DEF Disjoint, Answers
  <2>5. lapses \subseteq lapses' /\ lapses' \subseteq Lapses
    BY <1>0, <1>4 DEF Disjoint, Rewound, Lapses
  <2> QED BY <1>2, <2>1, <2>3, <2>4, <2>5
<1> QED BY <1>3, <1>4 DEF Adoption

LEMMA AdoptionWrites ==
  ASSUME TypeOK, ReadTyped, Adoption
  PROVE  /\ editor' \in Texts \cup {Closed} /\ disk' \in Texts /\ copies' \in Texts
         /\ lastRemote' \in Texts \cup {NotSet} /\ Open' = Open /\ copies \subseteq copies'
         /\ (disk' \cup editor') \subseteq disk \cup editor \cup srv.ops
         /\ ~Open => editor' = editor
         /\ ~Open /\ (sync.at = "again" => sync.read \subseteq copies) => disk \subseteq disk' \cup copies'
         /\ Open => /\ "rewound" \notin lapses' => editor \subseteq editor' \cup copies'
                    /\ (editor' = editor /\ disk' = disk) \/ editor' = Text(srv)
         /\ sync.read \subseteq Shown /\ (Open /\ disk = Text(srv) => Text(srv) \subseteq editor) =>
              Text(srv) \subseteq Shown'
<1>0. /\ editor \in Texts \cup {Closed} /\ (Open => editor \in Texts) /\ disk \in Texts /\ copies \in Texts
      /\ lastRemote \in Texts \cup {NotSet} /\ srv \in Versions
  BY Fields
<1>1. Text(srv) \in Texts /\ Text(srv) \subseteq srv.ops /\ {} \in Texts
  BY <1>0, VersionFacts, Numbering
<1>2. sync.read \in Texts
  BY AdoptionGives DEF ReadTyped
<1>3. Open => ("rewound" \notin lapses' => editor \subseteq editor' \cup copies')
  BY DEF Adoption, Adopt, Readopt, Disjoint, Rewound
<1>4. CASE sync.read = Text(srv) /\ UNCHANGED text
  <2>1. Open' = Open /\ Shown' = Shown
    BY <1>4 DEF Open, Shown
  <2> QED BY <1>0, <1>3, <1>4, <2>1
<1>5. ASSUME NEW saved \in Texts, WriteText(Text(srv), sync.read, saved),
             sync.at = "again" \/ saved = sync.read
      PROVE  /\ editor' \in Texts \cup {Closed} /\ disk' \in Texts /\ copies' \in Texts
             /\ lastRemote' \in Texts \cup {NotSet} /\ Open' = Open /\ copies \subseteq copies'
             /\ (disk' \cup editor') \subseteq disk \cup editor \cup srv.ops
             /\ ~Open => editor' = editor
             /\ ~Open /\ (sync.at = "again" => sync.read \subseteq copies) => disk \subseteq disk' \cup copies'
             /\ Open => (editor' = editor /\ disk' = disk) \/ editor' = Text(srv)
             /\ (Open /\ disk = Text(srv) => Text(srv) \subseteq editor) => Text(srv) \subseteq Shown'
  <2>1. /\ editor' \in Texts \cup {Closed} /\ disk' \in Texts /\ copies' \in Texts
        /\ lastRemote' \in Texts \cup {NotSet} /\ Open' = Open
        /\ copies \cup saved \subseteq copies'
        /\ ~Open => /\ editor' = editor /\ disk' = Text(srv)
                    /\ disk = sync.read \/ disk \subseteq Text(srv) \cup copies'
        /\ Open => /\ (editor' = editor /\ disk' = disk) \/ editor' = Text(srv)
                   /\ disk' = disk \/ disk' = editor'
                   /\ disk # Text(srv) => editor' = Text(srv)
    BY <1>1, <1>2, <1>5, WriteTextGives
  <2>2. ~Open /\ (sync.at = "again" => sync.read \subseteq copies) => disk \subseteq disk' \cup copies'
    BY <1>5, <2>1
  <2>3. (Open /\ disk = Text(srv) => Text(srv) \subseteq editor) => Text(srv) \subseteq Shown'
    BY <2>1, ShownNext
  <2>4. (disk' \cup editor') \subseteq disk \cup editor \cup srv.ops
    BY <1>1, <2>1
  <2> QED BY <2>1, <2>2, <2>3, <2>4
<1>6. CASE \E saved \in Texts : /\ WriteText(Text(srv), sync.read, saved)
                                /\ sync.at = "again" \/ saved = sync.read
  BY <1>3, <1>5, <1>6
<1>7. \/ sync.read = Text(srv) /\ UNCHANGED text
      \/ \E saved \in Texts : /\ WriteText(Text(srv), sync.read, saved)
                              /\ sync.at = "again" \/ saved = sync.read
  <2>1. CASE Adopt \/ Disjoint
    <3>1. \/ sync.read = Text(srv) /\ UNCHANGED text
          \/ WriteText(Text(srv), sync.read, sync.read)
      BY <2>1 DEF Adopt, Disjoint
    <3> QED BY <1>2, <3>1
  <2>2. CASE Readopt
    <3>1. WriteText(Text(srv), sync.read, {}) /\ sync.at = "again"
      BY <2>2 DEF Readopt, Answers
    <3> QED BY <1>1, <3>1
  <2> QED BY <2>1, <2>2 DEF Adoption
<1> QED BY <1>4, <1>6, <1>7

---------------------------------------------------------------------------
(* The merge.                                                                 *)

(* The document with the keystrokes of the open note, if there is an answer   *)
(* to merge, and then with that.                                              *)
Caught == IF Open /\ Newer THEN Synced(doc, editor) ELSE doc
Fetched == Join(Caught, srv)
ShownAfter == (editor \ (Text(Caught) \ Text(Fetched))) \cup (Text(Fetched) \ Text(Caught))
PushedFirst == IF Caught = doc THEN Tail(up) ELSE Append(Tail(up), PushOf("push", doc, Caught))

LEMMA CaughtGives ==
  ASSUME TypeOK
  PROVE  /\ Caught \in Versions /\ doc.ops \subseteq Caught.ops
         /\ Caught.ops = doc.ops \cup (IF Open /\ Newer THEN editor ELSE {})
         /\ Caught.deleted = doc.deleted \cup (IF Open /\ Newer THEN Text(doc) \ editor ELSE {})
         /\ Fetched \in Versions /\ Fetched.ops = Caught.ops \cup srv.ops
         /\ Fetched.deleted = Caught.deleted \cup srv.deleted
<1>1. doc \in Versions /\ (Open => editor \in Texts) /\ srv \in Versions
  BY Fields
<1>2. /\ Caught \in Versions
      /\ Caught.ops = doc.ops \cup (IF Open /\ Newer THEN editor ELSE {})
      /\ Caught.deleted = doc.deleted \cup (IF Open /\ Newer THEN Text(doc) \ editor ELSE {})
  <2>1. CASE Open /\ Newer
    <3>1. Caught = Synced(doc, editor)
      BY <2>1 DEF Caught
    <3>2. /\ Synced(doc, editor) \in Versions /\ Synced(doc, editor).ops = doc.ops \cup editor
          /\ Synced(doc, editor).deleted = doc.deleted \cup (Text(doc) \ editor)
      BY <1>1, <2>1, SyncedFacts
    <3> QED BY <2>1, <3>1, <3>2
  <2>2. CASE ~(Open /\ Newer)
    <3>1. Caught = doc
      BY <2>2 DEF Caught
    <3> QED BY <1>1, <2>2, <3>1
  <2> QED BY <2>1, <2>2
<1>3. /\ Fetched \in Versions /\ Fetched.ops = Caught.ops \cup srv.ops
      /\ Fetched.deleted = Caught.deleted \cup srv.deleted
  BY <1>1, <1>2, JoinFacts DEF Fetched
<1> QED BY <1>2, <1>3

(* What a merge assigns.                                                      *)
LEMMA MergeAssigns ==
  ASSUME Merge
  PROVE  /\ Answers("asked") /\ ~Conflicts /\ ~fresh
         /\ unacked' = (unacked \/ Caught # doc) /\ timer' = (timer /\ ~(Open /\ Newer))
         /\ up' = IF Covers(srv, Fetched) THEN PushedFirst
                  ELSE Append(PushedFirst, PushOf("exempt", srv, Fetched))
         /\ \/ /\ Open /\ editor = Text(Fetched) /\ UNCHANGED text /\ NoteDone(Fetched, TRUE)
            \/ /\ Open /\ editor # Text(Fetched) /\ Newer
               /\ editor' = ShownAfter /\ lastRemote' = ShownAfter /\ UNCHANGED <<disk, copies>>
               /\ NoteDone(Synced(Fetched, ShownAfter), TRUE)
            \/ /\ Open /\ editor # Text(Fetched) /\ ~Newer
               /\ UNCHANGED text /\ NoteDone(Fetched, FALSE)
            \/ /\ Open => editor = Text(Fetched)
               /\ WriteText(Text(Fetched), sync.read, {}) /\ NoteDone(Fetched, FALSE)
            \/ /\ ~Open /\ sync.read = Text(Fetched) /\ UNCHANGED text /\ NoteDone(Fetched, FALSE)
         /\ lapses' = lapses \cup Rewound \cup (IF doc' # Fetched THEN {"unsent"} ELSE {})
                        \cup (IF Caught = doc THEN {} ELSE Reverted(doc, editor))
         /\ UNCHANGED <<server, phase, accepts, own, edited, dirty, stored, cache, cacheDirty, queues,
                        typed, counters>>
  BY DEF Merge, Caught, Fetched, ShownAfter, PushedFirst

(* The frames that go out with a merge: keystrokes that were caught, then     *)
(* what the server lacks.                                                     *)
LEMMA MergeSends ==
  ASSUME TypeOK, Merge
  PROVE  /\ up # <<>> /\ Head(up).kind = "ask" /\ Tail(up) \in Seq(Frames) /\ up' \in Seq(Frames)
         /\ OnTheWay(Tail(up)) \subseteq OnTheWay(up')
         /\ OnTheWay(up') \subseteq OnTheWay(Tail(up)) \cup {PushOf("push", doc, Caught), PushOf("exempt", srv, Fetched)}
         /\ PushOf("push", doc, Caught) \in Frames /\ PushOf("exempt", srv, Fetched) \in Frames
         /\ Fetched.ops \subseteq srv.ops \/ PushOf("exempt", srv, Fetched) \in OnTheWay(up')
<1>1. doc \in Versions /\ srv \in Versions /\ up \in Seq(Frames) /\ Caught \in Versions /\ Fetched \in Versions
  BY Fields, CaughtGives
<1>2. up # <<>> /\ Head(up).kind = "ask"
  BY MergeAssigns DEF Answers
<1>3. Tail(up) \in Seq(Frames)
  BY <1>1, <1>2, QueueFacts
<1>4. PushOf("push", doc, Caught) \in Frames /\ PushOf("exempt", srv, Fetched) \in Frames
  BY <1>1, PushFacts
<1>5. /\ PushedFirst \in Seq(Frames) /\ OnTheWay(Tail(up)) \subseteq OnTheWay(PushedFirst)
      /\ OnTheWay(PushedFirst) \subseteq OnTheWay(Tail(up)) \cup {PushOf("push", doc, Caught)}
  <2>1. /\ Append(Tail(up), PushOf("push", doc, Caught)) \in Seq(Frames)
        /\ OnTheWay(Append(Tail(up), PushOf("push", doc, Caught)))
             = OnTheWay(Tail(up)) \cup {PushOf("push", doc, Caught)}
    <3>1. Append(Tail(up), PushOf("push", doc, Caught)) \in Seq(Frames)
      BY <1>3, <1>4, QueueFacts
    <3> QED BY <1>3, <1>4, <3>1, WayFacts
  <2> QED BY <1>3, <2>1 DEF PushedFirst
<1>6. /\ Append(PushedFirst, PushOf("exempt", srv, Fetched)) \in Seq(Frames)
      /\ OnTheWay(Append(PushedFirst, PushOf("exempt", srv, Fetched)))
             = OnTheWay(PushedFirst) \cup {PushOf("exempt", srv, Fetched)}
  BY <1>4, <1>5, QueueFacts, WayFacts
<1>7. up' = IF Covers(srv, Fetched) THEN PushedFirst ELSE Append(PushedFirst, PushOf("exempt", srv, Fetched))
  BY MergeAssigns
<1>8. Covers(srv, Fetched) => Fetched.ops \subseteq srv.ops
  BY <1>1, CoverFacts
<1> QED BY <1>2, <1>3, <1>4, <1>5, <1>6, <1>7, <1>8

LEMMA ShownAfterGives ==
  ASSUME TypeOK, Open, Newer
  PROVE  /\ ShownAfter \in Texts /\ ShownAfter \subseteq Fetched.ops
         /\ Synced(Fetched, ShownAfter) \in Versions /\ Synced(Fetched, ShownAfter).ops = Fetched.ops
         /\ Synced(Fetched, ShownAfter).deleted = Fetched.deleted \cup (Text(Fetched) \ ShownAfter)
<1>1. editor \in Texts /\ Caught \in Versions /\ Fetched \in Versions
  BY Fields, CaughtGives
<1>2. editor \subseteq Caught.ops /\ Caught.ops \subseteq Fetched.ops
  BY CaughtGives
<1>3. Text(Fetched) \subseteq Fetched.ops /\ Text(Fetched) \in Texts /\ Text(Caught) \in Texts
  BY <1>1, VersionFacts
<1>4. ShownAfter \in Texts /\ ShownAfter \subseteq Fetched.ops
  BY <1>1, <1>2, <1>3 DEF ShownAfter, Texts
<1>5. /\ Synced(Fetched, ShownAfter) \in Versions
      /\ Synced(Fetched, ShownAfter).ops = Fetched.ops \cup ShownAfter
      /\ Synced(Fetched, ShownAfter).deleted = Fetched.deleted \cup (Text(Fetched) \ ShownAfter)
  BY <1>1, <1>4, SyncedFacts
<1> QED BY <1>4, <1>5

LEMMA MergeGives ==
  ASSUME TypeOK, Merge
  PROVE  /\ sync.at = "asked"
         /\ doc' \in Versions /\ loro' = doc' /\ fresh' = FALSE /\ ~fresh /\ lastVV' = srv
         /\ doc'.ops = Fetched.ops
         /\ sync' \in Syncs /\ sync'.at = "ending" /\ sync'.hash = Text(doc')
         /\ sync'.cached = sync.cached /\ sync'.listed = sync.listed
         /\ {timer', unacked'} \subseteq BOOLEAN
         /\ lapses \subseteq lapses' /\ lapses' \subseteq Lapses
         /\ UNCHANGED <<server, phase, accepts, own, edited, dirty, stored, cache, cacheDirty, queues,
                        typed, counters>>
<1>1. \E d \in Versions : \E k \in BOOLEAN : NoteDone(d, k) /\ d.ops = Fetched.ops
  <2>1. Fetched \in Versions
    BY CaughtGives
  <2>2. CASE NoteDone(Fetched, TRUE) \/ NoteDone(Fetched, FALSE)
    BY <2>1, <2>2
  <2>3. CASE Open /\ Newer /\ NoteDone(Synced(Fetched, ShownAfter), TRUE)
    BY <2>3, ShownAfterGives
  <2> QED BY <2>2, <2>3, MergeAssigns
<1>2. PICK d \in Versions, k \in BOOLEAN : NoteDone(d, k) /\ d.ops = Fetched.ops
  BY <1>1
<1>3. /\ doc' = d /\ loro' = d /\ fresh' = FALSE /\ lastVV' = srv
      /\ sync' \in Syncs /\ sync'.at = "ending" /\ sync'.hash = Text(d)
      /\ sync'.cached = sync.cached /\ sync'.listed = sync.listed
  BY <1>2, NoteDoneGives
<1>4. lapses \subseteq lapses' /\ lapses' \subseteq Lapses
  <2>1. lapses \subseteq Lapses
    BY Fields
  <2>2. lapses' = lapses \cup Rewound \cup (IF doc' # Fetched THEN {"unsent"} ELSE {})
                        \cup (IF Caught = doc THEN {} ELSE Reverted(doc, editor))
    BY MergeAssigns
  <2> QED BY <2>1, <2>2 DEF Rewound, Reverted, Lapses
<1>5. unacked \in BOOLEAN /\ timer \in BOOLEAN
  BY Fields
<1> QED BY <1>2, <1>3, <1>4, <1>5, MergeAssigns DEF Answers

(* Nobody deletes text, so nothing is deleted by the merge either.            *)
LEMMA MergeDeletesNothing ==
  ASSUME TypeOK, Merge, "reverted" \notin lapses', doc.deleted = {}, srv.deleted = {}
  PROVE  /\ Caught.deleted = {} /\ Fetched.deleted = {} /\ doc'.deleted = {}
         /\ Text(Fetched) = Fetched.ops /\ Text(Caught) = Caught.ops
         /\ Open /\ Newer => Caught.ops = editor /\ ShownAfter = Fetched.ops
<1>1. doc \in Versions /\ Caught \in Versions /\ Fetched \in Versions /\ (Open => editor \in Texts)
  BY Fields, CaughtGives
<1>2. Text(doc) = doc.ops
  BY <1>1, VersionFacts
<1>3. ASSUME Open, Newer
      PROVE  doc.ops \subseteq editor
  <2>1. CASE Caught = doc
    BY <1>2, <1>3, <2>1, CaughtGives
  <2>2. CASE Caught # doc
    <3>1. Reverted(doc, editor) \subseteq lapses'
      BY <2>2, MergeAssigns
    <3> QED BY <1>2, <3>1 DEF Reverted
  <2> QED BY <2>1, <2>2
<1>4. Caught.deleted = {} /\ Fetched.deleted = {}
  BY <1>2, <1>3, CaughtGives
<1>5. Text(Fetched) = Fetched.ops /\ Text(Caught) = Caught.ops
  BY <1>1, <1>4, VersionFacts
<1>6. ASSUME Open, Newer
      PROVE  Caught.ops = editor /\ ShownAfter = Fetched.ops
  <2>1. Caught.ops = editor
    BY <1>3, <1>6, CaughtGives
  <2>2. Caught.ops \subseteq Fetched.ops
    BY CaughtGives
  <2> QED BY <1>5, <2>1, <2>2 DEF ShownAfter
<1>7. doc'.deleted = {}
  <2>1. CASE doc' = Fetched
    BY <1>4, <2>1
  <2>2. CASE Open /\ Newer /\ doc' = Synced(Fetched, ShownAfter)
    BY <1>4, <1>5, <1>6, <2>2, ShownAfterGives
  <2> QED BY <2>1, <2>2, MergeAssigns DEF NoteDone
<1> QED BY <1>4, <1>5, <1>6, <1>7

LEMMA MergeWrites ==
  ASSUME TypeOK, ReadTyped, Merge
  PROVE  /\ editor' \in Texts \cup {Closed} /\ disk' \in Texts /\ copies' \in Texts
         /\ lastRemote' \in Texts \cup {NotSet} /\ Open' = Open /\ copies \subseteq copies'
         /\ (disk' \cup editor') \subseteq disk \cup editor \cup Fetched.ops
         /\ ~Open => editor' = editor
         /\ ~Open /\ sync.read \subseteq Text(Fetched) => disk \subseteq disk' \cup copies'
         /\ Open => /\ "rewound" \notin lapses' => editor \subseteq editor' \cup copies'
                    /\ disk' = disk \/ disk' = editor'
<1>0. /\ editor \in Texts \cup {Closed} /\ (Open => editor \in Texts) /\ disk \in Texts /\ copies \in Texts
      /\ lastRemote \in Texts \cup {NotSet} /\ Fetched \in Versions
  BY Fields, CaughtGives
<1>1. Text(Fetched) \in Texts /\ Text(Fetched) \subseteq Fetched.ops /\ {} \in Texts
  BY <1>0, VersionFacts, Numbering
<1>2. sync.read \in Texts
  BY MergeAssigns DEF ReadTyped, Answers
<1>3. Open => ("rewound" \notin lapses' => editor \subseteq editor' \cup copies')
  BY MergeAssigns DEF Rewound
<1>4. CASE UNCHANGED text
  <2>1. Open' = Open
    BY <1>4 DEF Open
  <2> QED BY <1>0, <1>3, <1>4, <2>1
<1>5. CASE /\ Open /\ Newer /\ editor' = ShownAfter /\ lastRemote' = ShownAfter
           /\ UNCHANGED <<disk, copies>>
  <2>1. ShownAfter \in Texts /\ ShownAfter \subseteq Fetched.ops
    BY <1>5, ShownAfterGives
  <2>2. Open' = Open
    BY <1>5, <2>1, ShownNext, Numbering
  <2> QED BY <1>0, <1>3, <1>5, <2>1, <2>2
<1>6. CASE (Open => editor = Text(Fetched)) /\ WriteText(Text(Fetched), sync.read, {})
  <2>1. /\ editor' \in Texts \cup {Closed} /\ disk' \in Texts /\ copies' \in Texts
        /\ lastRemote' \in Texts \cup {NotSet} /\ Open' = Open
        /\ copies \cup {} \subseteq copies'
        /\ ~Open => /\ editor' = editor /\ disk' = Text(Fetched)
                    /\ disk = sync.read \/ disk \subseteq Text(Fetched) \cup copies'
        /\ Open => /\ (editor' = editor /\ disk' = disk) \/ editor' = Text(Fetched)
                   /\ disk' = disk \/ disk' = editor'
    BY <1>1, <1>2, <1>6, WriteTextGives
  <2>2. (disk' \cup editor') \subseteq disk \cup editor \cup Fetched.ops
    BY <1>1, <2>1
  <2>3. ~Open /\ sync.read \subseteq Text(Fetched) => disk \subseteq disk' \cup copies'
    BY <2>1
  <2> QED BY <1>3, <2>1, <2>2, <2>3
<1> QED BY <1>4, <1>5, <1>6, MergeAssigns

(* The merged document is shown.                                              *)
LEMMA MergeShows ==
  ASSUME TypeOK, ReadTyped, Merge, "reverted" \notin lapses', doc.deleted = {}, srv.deleted = {},
         doc.ops \subseteq Shown, sync.read \subseteq Shown, sync.sent.ops \subseteq doc.ops
  PROVE  /\ doc'.ops \subseteq Shown'
         /\ Open => editor \subseteq editor'
<1>0. /\ editor \in Texts \cup {Closed} /\ (Open => editor \in Texts) /\ doc \in Versions /\ srv \in Versions
      /\ sync.sent \in Versions /\ sync.read \in Texts
  <2>1. sync.read \in Texts
    BY MergeAssigns DEF ReadTyped, Answers
  <2> QED BY <2>1, Fields, SyncFields
<1>1. /\ Text(Fetched) = Fetched.ops /\ doc'.ops = Fetched.ops
      /\ Open /\ Newer => Caught.ops = editor /\ ShownAfter = Fetched.ops
  BY MergeDeletesNothing, MergeGives
<1>2. Fetched \in Versions /\ Caught.ops \subseteq Fetched.ops /\ Text(Fetched) \in Texts
  BY CaughtGives, VersionFacts
<1>3. CASE Open /\ editor = Text(Fetched) /\ UNCHANGED text
  BY <1>1, <1>3 DEF Shown, Open
<1>4. CASE /\ Open /\ Newer /\ editor' = ShownAfter /\ UNCHANGED <<disk, copies>>
  <2>1. ShownAfter # Closed
    BY <1>4, ShownAfterGives, Numbering
  <2> QED BY <1>1, <1>2, <1>4, <2>1, ShownNext
<1>5. CASE Open /\ ~Newer /\ UNCHANGED text
  <2>1. srv.ops \subseteq sync.sent.ops
    BY <1>0, <1>5, CoverFacts DEF Newer
  <2>2. Fetched.ops = doc.ops \cup srv.ops
    BY <1>5, CaughtGives
  <2>3. Shown' = Shown /\ editor' = editor
    BY <1>5 DEF Shown, Open
  <2> QED BY <1>1, <2>1, <2>2, <2>3
<1>6. CASE (Open => editor = Text(Fetched)) /\ WriteText(Text(Fetched), sync.read, {})
  <2>1. {} \in Texts
    BY Numbering
  <2>2. /\ Open' = Open
        /\ ~Open => disk' = Text(Fetched)
        /\ Open => editor' = Text(Fetched)
    BY <1>0, <1>2, <1>6, <2>1, WriteTextGives
  <2> QED BY <1>1, <1>6, <2>2, ShownNext
<1>7. CASE ~Open /\ sync.read = Text(Fetched) /\ UNCHANGED text
  <2>1. Shown' = Shown
    BY <1>7 DEF Shown, Open
  <2> QED BY <1>1, <1>7, <2>1
<1> QED BY <1>3, <1>4, <1>5, <1>6, <1>7, MergeAssigns

---------------------------------------------------------------------------
(* The server.                                                                *)

LEMMA FrameFields ==
  ASSUME NEW f \in Frames
  PROVE  f.add \in Versions /\ f.needs \subseteq OwnChanges /\ f.kind \in {"list", "ask", "push", "exempt"}
  BY DEF Frames

LEMMA PeerChangeGives ==
  ASSUME TypeOK, PeerChange
  PROVE  /\ peers' = peers + 1 /\ peers' \in PeerChanges
         /\ srv' \in Versions /\ srv'.ops = srv.ops \cup {peers'} /\ srv'.deleted = srv.deleted
         /\ UNCHANGED <<phase, accepts, sync, drops, starts>>
         /\ Online /\ ~Running =>
              /\ ~fresh /\ UNCHANGED <<buffered, replaying, replay>>
              /\ \/ Broadcast(peers', srv') /\ unheard' = unheard
                 \/ CatchUpFails(peers', srv') /\ unheard' = TRUE
         /\ ~(Online /\ ~Running) =>
              /\ UNCHANGED <<up, doc, text, own, push, persisted, caches, replaying, replay, unheard,
                             typed, lapses, faults>>
              /\ \E b \in Queued : /\ b.change = peers' /\ b.vv = srv'
                                   /\ buffered' = IF Online THEN Append(buffered, b) ELSE buffered
<1>1. peers \in PeerChanges /\ srv \in Versions
  BY Fields
<1>2. peers' = peers + 1 /\ peers' \in PeerChanges
  BY <1>1 DEF PeerChange, PeerChanges
<1>3. [ops |-> {peers'}, deleted |-> {}] \in Versions
  BY <1>2, Numbering DEF Versions
<1>4. srv' \in Versions /\ srv'.ops = srv.ops \cup {peers'} /\ srv'.deleted = srv.deleted
  <2>1. PICK w \in Versions : w = [ops |-> {peers'}, deleted |-> {}]
    BY <1>3
  <2>2. srv' = Join(srv, w) /\ w.ops = {peers'} /\ w.deleted = {}
    BY <1>2, <2>1 DEF PeerChange
  <2>3. /\ Join(srv, w) \in Versions /\ Join(srv, w).ops = srv.ops \cup w.ops
        /\ Join(srv, w).deleted = srv.deleted \cup w.deleted
    BY <1>1, JoinFacts
  <2> QED BY <2>2, <2>3
<1>5. ASSUME Online, ~Running
      PROVE  /\ ~fresh /\ UNCHANGED <<buffered, replaying, replay>>
             /\ \/ Broadcast(peers', srv') /\ unheard' = unheard
                \/ CatchUpFails(peers', srv') /\ unheard' = TRUE
  BY <1>2, <1>5 DEF PeerChange
<1>6. ASSUME ~(Online /\ ~Running)
      PROVE  /\ UNCHANGED <<up, doc, text, own, push, persisted, caches, replaying, replay, unheard,
                            typed, lapses, faults>>
             /\ \E b \in Queued : /\ b.change = peers' /\ b.vv = srv'
                                  /\ buffered' = IF Online THEN Append(buffered, b) ELSE buffered
  <2>1. /\ UNCHANGED <<up, doc, text, own, push, persisted, caches, replaying, replay, unheard,
                       typed, lapses, faults>>
        /\ buffered' = IF Online THEN Append(buffered, [change |-> peers', vv |-> srv']) ELSE buffered
    BY <1>6 DEF PeerChange
  <2>2. [change |-> peers', vv |-> srv'] \in Queued
    BY <1>2, <1>4 DEF Queued
  <2> QED BY <2>1, <2>2
<1>7. UNCHANGED <<phase, accepts, sync, drops, starts>>
  BY DEF PeerChange
<1> QED BY <1>2, <1>4, <1>5, <1>6, <1>7

LEMMA ServePushGives ==
  ASSUME TypeOK, ServePush
  PROVE  /\ up # <<>> /\ Head(up) \in Frames /\ Head(up).kind \in {"push", "exempt"} /\ up' = Tail(up)
         /\ srv' \in Versions /\ srv.ops \subseteq srv'.ops /\ srv'.ops \subseteq srv.ops \cup Head(up).add.ops
         /\ Head(up).needs \subseteq srv.ops => srv'.ops = srv.ops \cup Head(up).add.ops
         /\ srv'.deleted \subseteq srv.deleted \cup Head(up).add.deleted
         /\ srv.deleted \subseteq srv'.deleted
         /\ UNCHANGED <<peers, phase, accepts, doc, text, own, push, persisted, caches, sync, queues,
                        typed, lapses, counters>>
<1>1. up \in Seq(Frames) /\ srv \in Versions /\ up # <<>> /\ Head(up).kind \in {"push", "exempt"} /\ up' = Tail(up)
  BY Fields DEF ServePush
<1>2. Head(up) \in Frames
  BY <1>1, QueueFacts
<1>3. Head(up).add \in Versions
  BY <1>2, FrameFields
<1>4. /\ Join(srv, Head(up).add) \in Versions /\ Join(srv, Head(up).add).ops = srv.ops \cup Head(up).add.ops
      /\ Join(srv, Head(up).add).deleted = srv.deleted \cup Head(up).add.deleted
  BY <1>1, <1>3, JoinFacts
<1>5. srv' = IF Head(up).needs \subseteq srv.ops THEN Join(srv, Head(up).add) ELSE srv
  BY DEF ServePush
<1> QED BY <1>1, <1>2, <1>4, <1>5 DEF ServePush

(* A broadcast is handled at once or late, and goes well or not. Any other    *)
(* change of a peer is at most buffered.                                      *)
Heeds(n, vv) ==
  \/ Replay /\ replay # <<>> /\ n = Head(replay).change /\ vv = Head(replay).vv /\ UNCHANGED server
  \/ PeerChange /\ Online /\ ~Running /\ n = peers' /\ vv = srv'
Told ==
  \E n \in PeerChanges : \E vv \in Versions : Heeds(n, vv) /\ Broadcast(n, vv) /\ unheard' = unheard
Missed ==
  \E n \in PeerChanges : \E vv \in Versions : Heeds(n, vv) /\ CatchUpFails(n, vv) /\ unheard' = TRUE
Unheeded == PeerChange /\ ~(Online /\ ~Running)

LEMMA HeedsGives ==
  ASSUME TypeOK, NEW n \in PeerChanges, NEW vv \in Versions, Heeds(n, vv)
  PROVE  /\ ~fresh /\ srv' \in Versions /\ peers' \in PeerChanges
         /\ srv.ops \subseteq srv'.ops /\ srv'.deleted = srv.deleted
         /\ UNCHANGED <<phase, accepts, sync, buffered, drops, starts>>
  BY Fields, PeerChangeGives DEF Heeds, Replay

LEMMA ReplayGives ==
  ASSUME TypeOK, Replay
  PROVE  /\ replaying /\ replay # <<>> /\ Tail(replay) \in Seq(Queued)
         /\ \/ Told /\ replay' = Tail(replay) /\ replaying' = replaying
            \/ Missed /\ replay' = <<>> /\ replaying' = FALSE
<1>1. replay \in Seq(Queued) /\ replay # <<>> /\ replaying
  BY Fields DEF Replay
<1>2. Head(replay) \in Queued /\ Tail(replay) \in Seq(Queued)
  BY <1>1, QueueFacts
<1>3. PICK n \in PeerChanges, vv \in Versions : n = Head(replay).change /\ vv = Head(replay).vv
  BY <1>2 DEF Queued
<1>4. \/ /\ Broadcast(n, vv) /\ replay' = Tail(replay) /\ UNCHANGED <<replaying, unheard>>
      \/ /\ CatchUpFails(n, vv) /\ replaying' = FALSE /\ replay' = <<>> /\ unheard' = TRUE
  BY <1>3 DEF Replay
<1>5. Heeds(n, vv)
  BY <1>1, <1>3 DEF Heeds, Replay
<1> QED BY <1>1, <1>2, <1>4, <1>5 DEF Told, Missed

LEMMA ChangeHeeded ==
  ASSUME TypeOK, PeerChange
  PROVE  \/ Unheeded
         \/ /\ Told \/ Missed
            /\ UNCHANGED <<replaying, replay>>
<1>1. CASE Online /\ ~Running
  <2>1. /\ peers' \in PeerChanges /\ srv' \in Versions /\ UNCHANGED <<replaying, replay>>
        /\ \/ Broadcast(peers', srv') /\ unheard' = unheard
           \/ CatchUpFails(peers', srv') /\ unheard' = TRUE
    BY <1>1, PeerChangeGives
  <2>2. PICK n \in PeerChanges, vv \in Versions : n = peers' /\ vv = srv'
    BY <2>1
  <2>3. Heeds(n, vv)
    BY <1>1, <2>2 DEF Heeds
  <2>4. \/ Broadcast(n, vv) /\ unheard' = unheard
        \/ CatchUpFails(n, vv) /\ unheard' = TRUE
    BY <2>1, <2>2
  <2> QED BY <2>1, <2>3, <2>4 DEF Told, Missed
<1> QED BY <1>1 DEF Unheeded

(* The steps by kind; the rest changes neither the document nor the note.     *)
Here == DebounceFires \/ CloseNote \/ ExternalEdit

LEMMA ByKind ==
  ASSUME TypeOK, Next
  PROVE  \/ Told \/ Missed \/ Unheeded \/ Here \/ Asking \/ GivesUp \/ Adoption \/ Merge
         \/ Start \/ Drop \/ Abort \/ ReplayFails \/ Quit \/ Crash \/ FlushVVCache \/ Connect \/ ServePush
         \/ (Listed /\ ~Open) \/ CleanSkip \/ HashSkip \/ ConflictCopied \/ RequestFails
         \/ SaveVVCache \/ SaveDirtyPaths \/ SyncEnds \/ Type \/ AutoSave \/ OpenNote
<1>1. CASE PeerChange
  BY <1>1, ChangeHeeded
<1>2. CASE Replay
  BY <1>2, ReplayGives
<1> QED BY <1>1, <1>2 DEF Next, Here, Asking, GivesUp, Adoption

---------------------------------------------------------------------------
(* The types.                                                                 *)

HistoriesTyped ==
  /\ srv \in Versions /\ doc \in Versions /\ loro \in Versions /\ lastVV \in Versions
  /\ cache \in CacheEntries /\ stored \in CacheEntries /\ fresh \in BOOLEAN

NoteTyped ==
  /\ editor \in Texts \cup {Closed} /\ disk \in Texts /\ copies \in Texts
  /\ lastRemote \in Texts \cup {NotSet}
  /\ phase = "closed" => ~Open

RunTyped ==
  /\ phase \in {"closed", "offline", "online"}
  /\ up \in Seq(Frames) /\ (up # <<>> => Online)
  /\ sync \in Syncs /\ (phase = "closed" => ~Running /\ ~replaying)
  /\ (Running /\ phase = "offline" => sync.lost /\ sync.at \in {"planned", "ending", "saved"})
  /\ buffered \in Seq(Queued) /\ (buffered # <<>> => Running)
  /\ replaying \in BOOLEAN /\ replay \in Seq(Queued) /\ (replay # <<>> => replaying)
  /\ unheard \in BOOLEAN

FlagsTyped ==
  /\ accepts \in BOOLEAN /\ timer \in BOOLEAN /\ unacked \in BOOLEAN /\ edited \in BOOLEAN
  /\ dirty \in BOOLEAN /\ cacheDirty \in BOOLEAN

CountsTyped ==
  /\ peers \in PeerChanges /\ own \in 0..MaxOwn /\ typed \subseteq OwnChanges /\ lapses \subseteq Lapses
  /\ drops \in 0..MaxDrops /\ starts \in 0..MaxStarts /\ faults \in 0..MaxFaults

LEMMA TypeParts ==
  /\ TypeOK <=> HistoriesTyped /\ NoteTyped /\ RunTyped /\ FlagsTyped /\ CountsTyped
  BY DEF TypeOK, HistoriesTyped, NoteTyped, RunTyped, FlagsTyped, CountsTyped, Syncs, Places, Lapses

LEMMA HistoriesStay ==
  ASSUME TypeOK, ReadTyped, Next
  PROVE  HistoriesTyped'
<1>0. HistoriesTyped /\ sync \in Syncs
  BY TypeParts, Fields
<1>1. CASE Told
  <2>1. PICK n \in PeerChanges, vv \in Versions : Heeds(n, vv) /\ Broadcast(n, vv)
    BY <1>1 DEF Told
  <2>2. srv' \in Versions
    BY <2>1, HeedsGives
  <2>3. /\ doc' \in Versions /\ loro' = doc' /\ fresh' = FALSE /\ cache' \in CacheEntries
        /\ lastVV' \in Versions /\ stored' = stored
    BY <2>1, <2>2, BroadcastGives
  <2> QED BY <1>0, <2>2, <2>3 DEF HistoriesTyped
<1>12. CASE Missed
  <2>1. PICK n \in PeerChanges, vv \in Versions : Heeds(n, vv) /\ CatchUpFails(n, vv)
    BY <1>12 DEF Missed
  <2>2. srv' \in Versions
    BY <2>1, HeedsGives
  <2>3. /\ doc' \in Versions /\ fresh' = FALSE /\ lastVV' = vv /\ UNCHANGED <<loro, cache, stored>>
    BY <2>1, MissGives
  <2> QED BY <1>0, <2>2, <2>3 DEF HistoriesTyped
<1>2. CASE Unheeded
  <2>1. srv' \in Versions /\ UNCHANGED <<doc, persisted, caches>>
    BY <1>2, PeerChangeGives DEF Unheeded
  <2> QED BY <1>0, <2>1 DEF HistoriesTyped
<1>3. CASE Here
  <2>1. UNCHANGED <<srv, caches, stored>>
    BY <1>3 DEF Here, DebounceFires, CloseNote, ExternalEdit
  <2>2. Untouched \/ Entering(Shown')
    BY <1>3, LocalGives DEF Here
  <2>3. PICK c \in Texts : c = Shown'
    BY <1>3, LocalGives DEF Here
  <2>4. CASE Untouched
    BY <1>0, <2>1, <2>4 DEF HistoriesTyped, Untouched
  <2>5. CASE Entering(c)
    <3>1. doc' \in Versions /\ loro' = doc' /\ fresh' \in BOOLEAN
      BY <2>5, EnteringGives
    <3> QED BY <1>0, <2>1, <3>1 DEF HistoriesTyped
  <2> QED BY <2>2, <2>3, <2>4, <2>5
<1>4. CASE Asking \/ GivesUp
  <2>1. doc' \in Versions /\ UNCHANGED <<server, persisted, caches>>
    BY <1>4, AskingGives, GivesUpGives
  <2> QED BY <1>0, <2>1 DEF HistoriesTyped
<1>5. CASE Adoption
  <2>1. /\ doc' \in Versions /\ loro' = doc' /\ fresh' = FALSE /\ lastVV' = srv
        /\ UNCHANGED <<server, stored, cache>>
    BY <1>5, AdoptionGives
  <2> QED BY <1>0, <2>1 DEF HistoriesTyped
<1>6. CASE Merge
  <2>1. /\ doc' \in Versions /\ loro' = doc' /\ fresh' = FALSE /\ lastVV' = srv
        /\ UNCHANGED <<server, stored, cache>>
    BY <1>6, MergeGives
  <2> QED BY <1>0, <2>1 DEF HistoriesTyped
<1>7. CASE ServePush
  <2>1. srv' \in Versions /\ UNCHANGED <<doc, persisted, caches>>
    BY <1>7, ServePushGives
  <2> QED BY <1>0, <2>1 DEF HistoriesTyped
<1>8. CASE Start \/ Quit \/ Crash \/ FlushVVCache \/ ConflictCopied
  BY <1>0, <1>8, Constants
     DEF HistoriesTyped, Start, LoadVVCache, Quit, Crash, Torn, FlushVVCache, ConflictCopied
<1>9. CASE CleanSkip \/ HashSkip
  <2>1. lastVV' = sync.listed /\ sync.listed \in Versions
    BY <1>0, <1>9, SyncFields DEF CleanSkip, HashSkip, Skips
  <2> QED BY <1>0, <1>9, <2>1 DEF HistoriesTyped, CleanSkip, HashSkip, Skips
<1>10. CASE SaveVVCache
  <2>1. [vv |-> lastVV, hash |-> sync.hash] \in CacheEntries
    BY <1>0, SyncFields, EntryFacts DEF HistoriesTyped
  <2>2. cache' \in CacheEntries /\ stored' = cache'
    BY <1>10, <2>1, Constants DEF SaveVVCache, StoreVVCache
  <2> QED BY <1>0, <1>10, <2>2 DEF HistoriesTyped, SaveVVCache
<1>11. CASE Drop \/ Abort \/ ReplayFails \/ Connect \/ (Listed /\ ~Open) \/ RequestFails \/ SaveDirtyPaths
            \/ SyncEnds \/ Type \/ AutoSave \/ OpenNote
  <2>1. UNCHANGED <<srv, doc, loro, lastVV, cache, stored, fresh>>
    BY <1>11 DEF Drop, Abort, ReplayFails, Connect, Listed, RequestFails, SaveDirtyPaths, SyncEnds, Type, AutoSave, OpenNote
  <2> QED BY <1>0, <2>1 DEF HistoriesTyped
<1> QED
  BY <1>1, <1>2, <1>3, <1>4, <1>5, <1>6, <1>7, <1>8, <1>9, <1>10, <1>11, <1>12, ByKind

LEMMA NoteStays ==
  ASSUME TypeOK, ReadTyped, Next
  PROVE  NoteTyped'
<1>0. NoteTyped
  BY TypeParts
<1>1. CASE Told
  <2>1. PICK n \in PeerChanges, vv \in Versions : Heeds(n, vv) /\ Broadcast(n, vv)
    BY <1>1 DEF Told
  <2>3. srv' \in Versions /\ phase' = phase
    BY <2>1, HeedsGives
  <2>2. /\ editor' \in Texts \cup {Closed} /\ disk' \in Texts /\ copies' \in Texts
        /\ lastRemote' \in Texts \cup {NotSet} /\ Open' = Open
    BY <2>1, <2>3, BroadcastWrites
  <2> QED BY <1>0, <2>2, <2>3 DEF NoteTyped
<1>10. CASE Missed
  <2>1. PICK n \in PeerChanges, vv \in Versions : Heeds(n, vv) /\ CatchUpFails(n, vv)
    BY <1>10 DEF Missed
  <2>2. UNCHANGED <<text, phase>>
    BY <2>1, MissGives, HeedsGives
  <2> QED BY <1>0, <2>2 DEF NoteTyped, Open
<1>2. CASE Here
  <2>1. /\ editor' \in Texts \cup {Closed} /\ disk' \in Texts /\ lastRemote' \in Texts \cup {NotSet}
    BY <1>2, LocalGives DEF Here
  <2>2. copies' = copies /\ phase' = phase /\ (editor' = editor \/ editor' = Closed)
    BY <1>2 DEF Here, DebounceFires, CloseNote, ExternalEdit
  <2>3. phase' = "closed" => ~Open'
    BY <1>0, <2>2 DEF NoteTyped, Open
  <2> QED BY <1>0, <2>1, <2>2, <2>3 DEF NoteTyped
<1>3. CASE Adoption
  <2>1. /\ editor' \in Texts \cup {Closed} /\ disk' \in Texts /\ copies' \in Texts
        /\ lastRemote' \in Texts \cup {NotSet} /\ Open' = Open
    BY <1>3, AdoptionWrites
  <2>2. phase' = phase
    BY <1>3, AdoptionGives
  <2> QED BY <1>0, <2>1, <2>2 DEF NoteTyped
<1>4. CASE Merge
  <2>1. /\ editor' \in Texts \cup {Closed} /\ disk' \in Texts /\ copies' \in Texts
        /\ lastRemote' \in Texts \cup {NotSet} /\ Open' = Open
    BY <1>4, MergeWrites
  <2>2. phase' = phase
    BY <1>4, MergeGives
  <2> QED BY <1>0, <2>1, <2>2 DEF NoteTyped
<1>5. CASE Quit \/ Crash
  BY <1>0, <1>5, Numbering DEF NoteTyped, Quit, Crash, Ended, Open
<1>6. CASE ConflictCopied
  <2>1. sync.read \in Texts
    BY <1>6 DEF ConflictCopied, Answers, ReadTyped
  <2>2. copies' \in Texts /\ UNCHANGED <<editor, disk, lastRemote, phase>>
    BY <1>0, <1>6, <2>1 DEF ConflictCopied, NoteTyped, Texts
  <2> QED BY <1>0, <2>2 DEF NoteTyped, Open
<1>7. CASE Type
  <2>1. PICK c \in OwnChanges : editor' = editor \cup {c}
    BY <1>7 DEF Type
  <2>2. editor \in Texts /\ phase # "closed"
    BY <1>0, <1>7 DEF Type, NoteTyped, Open
  <2>3. editor' \in Texts
    BY <2>1, <2>2 DEF Texts
  <2> QED BY <1>0, <1>7, <2>2, <2>3 DEF Type, NoteTyped
<1>8. CASE OpenNote \/ AutoSave \/ Start
  BY <1>0, <1>8 DEF OpenNote, AutoSave, Start, NoteTyped, Open
<1>9. CASE \/ Unheeded
           \/ Drop \/ Abort \/ ReplayFails \/ FlushVVCache \/ Connect \/ ServePush \/ Asking \/ GivesUp
           \/ (Listed /\ ~Open) \/ CleanSkip \/ HashSkip \/ RequestFails \/ SaveVVCache \/ SaveDirtyPaths \/ SyncEnds
  <2>1. UNCHANGED <<editor, disk, copies, lastRemote>>
    BY <1>9 DEF Unheeded, PeerChange, Drop, Abort, ReplayFails, Asking, GivesUp, FlushVVCache, Connect, ServePush, Listed, CleanSkip, HashSkip, Skips,
                FullSync, RequestFails, SaveVVCache, SaveDirtyPaths, SyncEnds
  <2>2. phase' = phase \/ phase' # "closed"
    BY <1>9 DEF Unheeded, PeerChange, Drop, Abort, ReplayFails, Asking, GivesUp, FlushVVCache, Connect, ServePush, Listed, CleanSkip, HashSkip, Skips,
                FullSync, RequestFails, SaveVVCache, SaveDirtyPaths, SyncEnds
  <2> QED BY <1>0, <2>1, <2>2 DEF NoteTyped, Open
<1> QED BY <1>1, <1>2, <1>3, <1>4, <1>5, <1>6, <1>7, <1>8, <1>9, <1>10, ByKind

LEMMA RunStays ==
  ASSUME TypeOK, ReadTyped, Expected, Next
  PROVE  RunTyped'
<1>0. /\ phase \in {"closed", "offline", "online"} /\ up \in Seq(Frames) /\ (up # <<>> => Online)
      /\ sync \in Syncs /\ (phase = "closed" => ~Running /\ ~replaying)
      /\ (Running /\ phase = "offline" => sync.lost /\ sync.at \in {"planned", "ending", "saved"})
      /\ buffered \in Seq(Queued) /\ (buffered # <<>> => Running)
      /\ replaying \in BOOLEAN /\ replay \in Seq(Queued) /\ (replay # <<>> => replaying)
      /\ unheard \in BOOLEAN
      /\ NoSync \in Syncs /\ NoSync.at = "idle" /\ Ask \in Frames /\ List \in Frames
      /\ <<>> \in Seq(Frames) /\ <<>> \in Seq(Queued)
      /\ srv \in Versions /\ disk \in Texts
  BY TypeParts, Fields, Constants, EmptyWay DEF RunTyped
<1>1. CASE Told \/ Missed
  <2>1. PICK n \in PeerChanges, vv \in Versions : /\ Heeds(n, vv) /\ (Broadcast(n, vv) \/ CatchUpFails(n, vv))
                                                  /\ unheard' \in BOOLEAN
    BY <1>0, <1>1 DEF Told, Missed
  <2>2. UNCHANGED <<phase, sync, buffered>> /\ srv' \in Versions
    BY <2>1, HeedsGives
  <2>3. Dispatch(n)
    BY <2>1, <2>2, BroadcastGives, MissGives
  <2>4. up' \in Seq(Frames) /\ (up' # up => Online)
    BY <2>3, DispatchTyped
  <2>5. \/ replay' = replay /\ replaying' = replaying
        \/ replay' = Tail(replay) /\ replay # <<>> /\ replaying' = replaying
        \/ replay' = <<>> /\ replaying' = FALSE
    <3>1. CASE Replay
      BY <3>1, ReplayGives
    <3>2. CASE PeerChange /\ Online /\ ~Running
      BY <3>2, PeerChangeGives
    <3> QED BY <2>1, <3>1, <3>2 DEF Heeds
  <2>6. /\ replaying' \in BOOLEAN /\ replay' \in Seq(Queued) /\ (replay' # <<>> => replaying')
        /\ (~replaying => ~replaying')
    <3>1. replay # <<>> => Tail(replay) \in Seq(Queued)
      BY <1>0, QueueFacts
    <3>2. CASE replay' = replay /\ replaying' = replaying
      BY <1>0, <3>2
    <3>3. CASE replay' = Tail(replay) /\ replay # <<>> /\ replaying' = replaying
      BY <1>0, <3>1, <3>3
    <3>4. CASE replay' = <<>> /\ replaying' = FALSE
      BY <1>0, <3>4
    <3> QED BY <2>5, <3>2, <3>3, <3>4
  <2> QED BY <1>0, <2>1, <2>2, <2>4, <2>6 DEF RunTyped, Online, Running
<1>2. CASE Unheeded
  <2>1. UNCHANGED <<phase, sync, up, replaying, replay, unheard>>
    BY <1>2, PeerChangeGives DEF Unheeded
  <2>2. PICK b \in Queued : buffered' = IF Online THEN Append(buffered, b) ELSE buffered
    BY <1>2, PeerChangeGives DEF Unheeded
  <2>3. Append(buffered, b) \in Seq(Queued)
    BY <1>0, QueueFacts
  <2>4. Online => Running
    BY <1>2 DEF Unheeded
  <2> QED BY <1>0, <2>1, <2>2, <2>3, <2>4 DEF RunTyped, Online, Running
<1>3. CASE Here
  <2>1. UNCHANGED <<phase, sync, queues>>
    BY <1>3 DEF Here, DebounceFires, CloseNote, ExternalEdit
  <2>2. Untouched \/ Entering(Shown')
    BY <1>3, LocalGives DEF Here
  <2>3. PICK c \in Texts : c = Shown'
    BY <1>3, LocalGives DEF Here
  <2>4. up' \in Seq(Frames) /\ (up' # up => Online)
    <3>1. CASE Untouched
      BY <1>0, <3>1 DEF Untouched
    <3>2. CASE Entering(c)
      BY <3>2, EnteringGives
    <3> QED BY <2>2, <2>3, <3>1, <3>2
  <2> QED BY <1>0, <2>1, <2>4 DEF RunTyped, Online, Running
<1>4. CASE Asking
  <2>1. /\ sync' \in Syncs /\ sync'.at # "idle" /\ UNCHANGED <<phase, queues>> /\ Online
        /\ \/ up' = Append(Tail(up), Ask) /\ up # <<>>
           \/ up' = Append(up, Ask)
    BY <1>4, AskingGives
  <2>2. up' \in Seq(Frames)
    BY <1>0, <2>1, QueueStep
  <2> QED BY <1>0, <2>1, <2>2 DEF RunTyped, Online, Running
<1>5. CASE Adoption \/ Merge
  <2>1. /\ sync' \in Syncs /\ sync'.at # "idle" /\ UNCHANGED <<phase, queues>> /\ up # <<>>
    BY <1>5, AdoptionGives, MergeGives, MergeSends
  <2>2. up' \in Seq(Frames)
    <3>1. CASE Adoption
      <4>1. up # <<>> /\ up' = Tail(up)
        BY <3>1, AdoptionGives
      <4> QED BY <1>0, <4>1, QueueFacts
    <3>2. CASE Merge
      BY <3>2, MergeSends
    <3> QED BY <1>5, <3>1, <3>2
  <2> QED BY <1>0, <2>1, <2>2 DEF RunTyped, Online, Running
<1>6. CASE FlushVVCache \/ Type \/ AutoSave \/ OpenNote
  <2>1. UNCHANGED <<up, queues, phase, sync>>
    BY <1>6 DEF FlushVVCache, Type, AutoSave, OpenNote
  <2> QED BY <1>0, <2>1 DEF RunTyped, Online, Running
<1>7. CASE Start
  <2>1. UNCHANGED <<up, queues, sync>> /\ phase = "closed" /\ phase' = "offline"
    BY <1>7 DEF Start
  <2> QED BY <1>0, <2>1 DEF RunTyped, Online, Running
<1>8. CASE SaveVVCache
  <2>1. sync' = [sync EXCEPT !.at = "saved"] /\ UNCHANGED <<phase, up, queues>> /\ sync.at = "ending"
    BY <1>8 DEF SaveVVCache
  <2>2. sync' \in Syncs /\ sync'.at = "saved" /\ sync'.lost = sync.lost
    BY <1>0, <2>1 DEF Syncs, Places
  <2> QED BY <1>0, <2>1, <2>2 DEF RunTyped, Online, Running
<1>9. CASE SaveDirtyPaths
  <2>1. /\ sync' = NoSync /\ replaying' = TRUE /\ replay' = buffered /\ buffered' = <<>>
        /\ UNCHANGED <<phase, up, unheard>> /\ sync.at = "saved"
    BY <1>9 DEF SaveDirtyPaths
  <2> QED BY <1>0, <2>1 DEF RunTyped, Online, Running
<1>10. CASE Quit \/ Crash
  <2>1. /\ phase' = "closed" /\ up' = <<>> /\ sync' = NoSync /\ buffered' = <<>>
        /\ replaying' = FALSE /\ replay' = <<>> /\ unheard' = unheard
    BY <1>10 DEF Quit, Crash, Ended
  <2> QED BY <1>0, <2>1 DEF RunTyped, Running
<1>11. CASE Drop
  <2>1. phase' = "offline" /\ up' = <<>> /\ UNCHANGED <<replaying, replay, unheard>>
    BY <1>11 DEF Drop
  <2>2. CASE Waits
    <3>1. sync' = NoSync /\ buffered' = <<>>
      BY <1>11, <2>2 DEF Drop, SyncFails
    <3> QED BY <1>0, <2>1, <3>1 DEF RunTyped, Running
  <2>3. CASE ~Waits /\ Running
    <3>1. sync' = [sync EXCEPT !.lost = TRUE] /\ buffered' = buffered
      BY <1>11, <2>3 DEF Drop
    <3>2. sync' \in Syncs /\ sync'.at = sync.at /\ sync'.lost
      BY <1>0, <3>1 DEF Syncs
    <3>3. sync.at \in {"planned", "ending", "saved"}
      BY <1>0, <2>3, SyncFields DEF Waits, Running, Places
    <3> QED BY <1>0, <2>1, <3>1, <3>2, <3>3 DEF RunTyped, Running
  <2>4. CASE ~Waits /\ ~Running
    <3>1. sync' = sync /\ buffered' = buffered
      BY <1>11, <2>4 DEF Drop
    <3> QED BY <1>0, <2>1, <2>4, <3>1 DEF RunTyped, Running
  <2> QED BY <2>2, <2>3, <2>4
<1>12. CASE Abort \/ GivesUp
  <2>1. /\ sync' = NoSync /\ buffered' = <<>> /\ UNCHANGED <<phase, up, replaying, replay, unheard>>
    BY <1>12, GivesUpGives DEF Abort, SyncFails
  <2> QED BY <1>0, <2>1 DEF RunTyped, Online, Running
<1>13. CASE ReplayFails
  <2>1. /\ replaying' = FALSE /\ replay' = <<>> /\ unheard' = (unheard \/ replay # <<>>)
        /\ UNCHANGED <<phase, up, sync, buffered>>
    BY <1>13 DEF ReplayFails
  <2> QED BY <1>0, <2>1 DEF RunTyped, Online, Running
<1>14. CASE Connect
  <2>1. phase = "offline" /\ phase' = "online" /\ UNCHANGED <<replaying, replay>>
    BY <1>14 DEF Connect
  <2>2. CASE Running
    <3>1. unheard' = TRUE /\ UNCHANGED <<sync, up, buffered>>
      BY <1>14, <2>2 DEF Connect
    <3> QED BY <1>0, <2>1, <3>1 DEF RunTyped, Online, Running
  <2>3. CASE ~Running
    <3>1. /\ sync' = [NoSync EXCEPT !.at = "listing", !.dirty = dirty, !.cached = cache]
          /\ up' = <<List>> /\ buffered' = <<>> /\ unheard' = FALSE
      BY <1>14, <2>3 DEF Connect
    <3>2. sync' \in Syncs /\ sync'.at = "listing"
      BY <1>0, <3>1, Fields DEF Syncs, Places
    <3>3. up' \in Seq(Frames)
      BY <1>0, <3>1
    <3> QED BY <1>0, <2>1, <3>1, <3>2, <3>3 DEF RunTyped, Online, Running
  <2> QED BY <2>2, <2>3
<1>15. CASE ServePush
  <2>1. up # <<>> /\ up' = Tail(up) /\ UNCHANGED <<phase, sync, queues>>
    BY <1>15 DEF ServePush
  <2>2. up' \in Seq(Frames)
    BY <1>0, <2>1, QueueFacts
  <2> QED BY <1>0, <2>1, <2>2 DEF RunTyped, Online, Running
<1>16. CASE Listed /\ ~Open
  <2>1. up # <<>> /\ Head(up).kind = "list" /\ up' = Tail(up) /\ UNCHANGED <<phase, queues>>
    BY <1>16 DEF Listed
  <2>2. up' \in Seq(Frames)
    BY <1>0, <2>1, QueueFacts
  <2>3. PICK s \in Syncs : s = [sync EXCEPT !.listed = srv, !.first = Open]
    <3>1. [sync EXCEPT !.listed = srv, !.first = Open] \in Syncs
      BY <1>0 DEF Syncs, Open
    <3> QED BY <3>1
  <2>4. sync' = [s EXCEPT !.at = "planned", !.read = IF Unchanged(s) /\ ~s.dirty THEN NotSet ELSE disk]
    BY <1>16, <2>3 DEF Listed
  <2>5. sync' \in Syncs /\ sync'.at = "planned"
    BY <1>0, <2>4 DEF Syncs, Places
  <2> QED BY <1>0, <2>1, <2>2, <2>5 DEF RunTyped, Online, Running
<1>17. CASE CleanSkip \/ HashSkip
  <2>1. sync.at = "planned" /\ UNCHANGED <<phase, up, queues>>
    BY <1>17 DEF CleanSkip, HashSkip, Skips
  <2>2. \E h \in Texts \cup {NotSet}, b \in BOOLEAN :
           sync' = [sync EXCEPT !.at = "ending", !.hash = h, !.dirty = b]
    <3>1. CASE CleanSkip
      <4>1. sync' = [sync EXCEPT !.at = "ending", !.hash = sync.cached.hash]
        BY <3>1 DEF CleanSkip
      <4>2. sync' = [sync EXCEPT !.at = "ending", !.hash = sync.cached.hash, !.dirty = sync.dirty]
        BY <1>0, <4>1 DEF Syncs
      <4> QED BY <1>0, <4>2, SyncFields
    <3>2. CASE HashSkip
      BY <3>2, LocalTyped DEF HashSkip
    <3> QED BY <1>17, <3>1, <3>2
  <2>3. sync' \in Syncs /\ sync'.at = "ending" /\ sync'.lost = sync.lost
    BY <1>0, <2>2 DEF Syncs, Places
  <2> QED BY <1>0, <2>1, <2>3 DEF RunTyped, Online, Running
<1>18. CASE ConflictCopied
  <2>1. /\ sync' = [sync EXCEPT !.at = "again"] /\ up # <<>> /\ up' = Append(Tail(up), Ask)
        /\ UNCHANGED <<phase, queues>>
    BY <1>18 DEF ConflictCopied, Answers
  <2>2. sync' \in Syncs /\ sync'.at = "again"
    BY <1>0, <2>1 DEF Syncs, Places
  <2>3. up' \in Seq(Frames)
    BY <1>0, <2>1, QueueStep
  <2> QED BY <1>0, <2>1, <2>2, <2>3 DEF RunTyped, Online, Running
<1>19. CASE RequestFails
  <2>1. up # <<>> /\ up' = Tail(up) /\ UNCHANGED <<phase, replaying, replay, unheard>>
    BY <1>19 DEF RequestFails
  <2>2. up' \in Seq(Frames)
    BY <1>0, <2>1, QueueFacts
  <2>3. CASE sync.first \/ sync.lost
    <3>1. sync' = NoSync /\ buffered' = <<>>
      BY <1>19, <2>3 DEF RequestFails, SyncFails
    <3> QED BY <1>0, <2>1, <2>2, <3>1 DEF RunTyped, Online, Running
  <2>4. CASE ~(sync.first \/ sync.lost)
    <3>1. buffered' = buffered /\ sync' = [sync EXCEPT !.at = "ending"]
      BY <1>19, <2>4 DEF RequestFails
    <3>2. sync' \in Syncs /\ sync'.at = "ending"
      BY <1>0, <3>1 DEF Syncs, Places
    <3> QED BY <1>0, <2>1, <2>2, <3>1, <3>2 DEF RunTyped, Online, Running
  <2> QED BY <2>3, <2>4
<1>20. CASE SyncEnds
  <2>1. /\ replaying' = FALSE /\ replay' = replay /\ replay = <<>> /\ buffered' = <<>>
        /\ unheard' = (unheard \/ buffered # <<>>) /\ UNCHANGED <<phase, up, sync>>
    BY <1>20 DEF SyncEnds
  <2> QED BY <1>0, <2>1 DEF RunTyped, Online, Running
<1> QED
  BY <1>1, <1>2, <1>3, <1>4, <1>5, <1>6, <1>7, <1>8, <1>9, <1>10, <1>11, <1>12, <1>13, <1>14, <1>15,
     <1>16, <1>17, <1>18, <1>19, <1>20, ByKind

LEMMA FlagsStay ==
  ASSUME TypeOK, ReadTyped, Next
  PROVE  FlagsTyped'
<1>0. FlagsTyped /\ sync \in Syncs /\ sync.dirty \in BOOLEAN
  BY TypeParts, Fields, SyncFields
<1>1. CASE Told
  <2>1. PICK n \in PeerChanges, vv \in Versions : Heeds(n, vv) /\ Broadcast(n, vv)
    BY <1>1 DEF Told
  <2>0. srv' \in Versions /\ peers' \in PeerChanges /\ UNCHANGED <<accepts, drops, starts>>
    BY <2>1, HeedsGives
  <2>2. {timer', unacked', cacheDirty'} \subseteq BOOLEAN /\ UNCHANGED <<edited, dirty>>
    BY <2>0, <2>1, BroadcastGives
  <2> QED BY <1>0, <2>0, <2>2 DEF FlagsTyped
<1>8. CASE Missed
  <2>1. PICK n \in PeerChanges, vv \in Versions : Heeds(n, vv) /\ CatchUpFails(n, vv)
    BY <1>8 DEF Missed
  <2>0. srv' \in Versions /\ peers' \in PeerChanges /\ UNCHANGED <<accepts, drops, starts>>
    BY <2>1, HeedsGives
  <2>2. {timer', unacked'} \subseteq BOOLEAN /\ UNCHANGED <<edited, dirty, cacheDirty>>
    BY <2>1, MissGives
  <2> QED BY <1>0, <2>0, <2>2 DEF FlagsTyped
<1>9. CASE GivesUp
  <2>1. UNCHANGED <<accepts, timer, unacked, dirty, cacheDirty>> /\ edited' = FALSE
    BY <1>9, GivesUpGives
  <2> QED BY <1>0, <2>1 DEF FlagsTyped
<1>2. CASE Here
  <2>1. unacked' \in BOOLEAN
    BY <1>2, LocalGives DEF Here
  <2>2. UNCHANGED <<accepts, edited, cacheDirty>> /\ (timer' = timer \/ timer' = FALSE)
    BY <1>2 DEF Here, DebounceFires, CloseNote, ExternalEdit
  <2>3. dirty' \in BOOLEAN
    BY <1>0, <1>2 DEF Here, DebounceFires, CloseNote, ExternalEdit, Modified, MarkDirty, FlagsTyped
  <2> QED BY <1>0, <2>1, <2>2, <2>3 DEF FlagsTyped
<1>3. CASE Asking \/ Adoption
  <2>1. UNCHANGED <<accepts, push, dirty, cacheDirty>>
    BY <1>3, AskingGives, AdoptionGives
  <2> QED BY <1>0, <2>1 DEF FlagsTyped
<1>4. CASE Merge
  <2>1. {timer', unacked'} \subseteq BOOLEAN /\ UNCHANGED <<accepts, edited, dirty, cacheDirty>>
    BY <1>4, MergeGives
  <2> QED BY <1>0, <2>1 DEF FlagsTyped
<1>5. CASE Unheeded
  <2>1. UNCHANGED <<accepts, push, dirty, cacheDirty>>
    BY <1>5, PeerChangeGives DEF Unheeded
  <2> QED BY <1>0, <2>1 DEF FlagsTyped
<1>6. CASE \/ Start \/ Drop \/ Abort \/ ReplayFails \/ Quit \/ Crash \/ FlushVVCache \/ Connect \/ ServePush
           \/ Listed \/ CleanSkip \/ HashSkip \/ ConflictCopied \/ RequestFails
  BY <1>0, <1>6
     DEF FlagsTyped, Start, LoadVVCache, Drop, SyncFails, Abort, ReplayFails, Quit, Crash, Ended, FlushVVCache, Connect, ServePush, Listed,
         CleanSkip, HashSkip, Skips, ConflictCopied, RequestFails
<1>7. CASE SaveVVCache \/ SaveDirtyPaths \/ SyncEnds \/ Type \/ AutoSave \/ OpenNote
  BY <1>0, <1>7
     DEF FlagsTyped, SaveVVCache, StoreVVCache, SaveDirtyPaths, ReplaceMarks, SyncEnds, Type, MarkDirty,
         AutoSave, OpenNote
<1> QED BY <1>1, <1>2, <1>3, <1>4, <1>5, <1>6, <1>7, <1>8, <1>9, ByKind

(* Lapses are never taken back.                                               *)
LEMMA LapsesGrow ==
  ASSUME TypeOK, ReadTyped, Next
  PROVE  lapses \subseteq lapses' /\ lapses' \subseteq Lapses
<1>0. lapses \subseteq Lapses
  BY Fields
<1>1. CASE Told
  <2>1. PICK n \in PeerChanges, vv \in Versions : Heeds(n, vv) /\ Broadcast(n, vv)
    BY <1>1 DEF Told
  <2>0. srv' \in Versions /\ peers' \in PeerChanges /\ UNCHANGED <<accepts, drops, starts>>
    BY <2>1, HeedsGives
  <2> QED BY <2>0, <2>1, BroadcastGives
<1>8. CASE Missed
  <2>1. PICK n \in PeerChanges, vv \in Versions : Heeds(n, vv) /\ CatchUpFails(n, vv)
    BY <1>8 DEF Missed
  <2>0. srv' \in Versions /\ peers' \in PeerChanges /\ UNCHANGED <<accepts, drops, starts>>
    BY <2>1, HeedsGives
  <2> QED BY <2>1, MissGives
<1>2. CASE Here
  <2>1. Untouched \/ Entering(Shown')
    BY <1>2, LocalGives DEF Here
  <2>2. PICK c \in Texts : c = Shown'
    BY <1>2, LocalGives DEF Here
  <2>3. CASE Untouched
    BY <1>0, <2>3 DEF Untouched
  <2>4. CASE Entering(c)
    BY <2>4, EnteringGives
  <2> QED BY <2>1, <2>2, <2>3, <2>4
<1>3. CASE Asking \/ GivesUp
  BY <1>0, <1>3, AskingGives, GivesUpGives DEF Lapses
<1>4. CASE Adoption \/ Merge
  BY <1>4, AdoptionGives, MergeGives
<1>5. CASE Unheeded
  BY <1>0, <1>5, PeerChangeGives DEF Unheeded
<1>6. CASE \/ Start \/ Drop \/ Abort \/ ReplayFails \/ Quit \/ Crash \/ FlushVVCache \/ Connect \/ ServePush
           \/ (Listed /\ ~Open) \/ CleanSkip \/ HashSkip \/ ConflictCopied \/ RequestFails
  BY <1>0, <1>6
     DEF Start, Drop, Abort, ReplayFails, Quit, Crash, ExemptLost, FlushVVCache, Connect, ServePush, Listed,
         CleanSkip, HashSkip, Skips, ConflictCopied, RequestFails, Lapses
<1>7. CASE SaveVVCache \/ SaveDirtyPaths \/ SyncEnds \/ Type \/ AutoSave \/ OpenNote
  BY <1>0, <1>7
     DEF SaveVVCache, SaveDirtyPaths, SyncEnds, Type, AutoSave, OpenNote, Lapses
<1> QED BY <1>1, <1>2, <1>3, <1>4, <1>5, <1>6, <1>7, <1>8, ByKind

LEMMA CountsStay ==
  ASSUME TypeOK, ReadTyped, Next
  PROVE  CountsTyped'
<1>0. /\ CountsTyped /\ peers \in PeerChanges /\ own \in 0..MaxOwn /\ typed \subseteq OwnChanges
      /\ drops \in 0..MaxDrops /\ starts \in 0..MaxStarts /\ faults \in 0..MaxFaults
      /\ lapses' \subseteq Lapses
  BY TypeParts, LapsesGrow DEF CountsTyped
<1>1. CASE Told
  <2>1. PICK n \in PeerChanges, vv \in Versions : Heeds(n, vv) /\ Broadcast(n, vv)
    BY <1>1 DEF Told
  <2>0. srv' \in Versions /\ peers' \in PeerChanges /\ UNCHANGED <<accepts, drops, starts>>
    BY <2>1, HeedsGives
  <2>2. UNCHANGED <<own, typed, faults>>
    BY <2>0, <2>1, BroadcastGives
  <2> QED BY <1>0, <2>0, <2>2 DEF CountsTyped
<1>9. CASE Missed
  <2>1. PICK n \in PeerChanges, vv \in Versions : Heeds(n, vv) /\ CatchUpFails(n, vv)
    BY <1>9 DEF Missed
  <2>0. srv' \in Versions /\ peers' \in PeerChanges /\ UNCHANGED <<accepts, drops, starts>>
    BY <2>1, HeedsGives
  <2>3. /\ UNCHANGED <<own, typed>>
        /\ faults' = faults \/ (faults' = faults + 1 /\ faults < MaxFaults)
    BY <2>1, MissGives
  <2>2. UNCHANGED <<own, typed>> /\ faults' \in 0..MaxFaults
    BY <1>0, <2>3
  <2> QED BY <1>0, <2>0, <2>2 DEF CountsTyped
<1>2. CASE Unheeded
  <2>1. UNCHANGED <<counters, own, typed>> /\ peers' \in PeerChanges
    BY <1>2, PeerChangeGives DEF Unheeded
  <2> QED BY <1>0, <2>1 DEF CountsTyped
<1>3. CASE Type \/ ExternalEdit
  <2>1. UNCHANGED <<peers, counters>>
    BY <1>3 DEF Type, ExternalEdit
  <2>2. PICK c \in OwnChanges : OwnChange(c) /\ (typed' = typed \cup {c} \/ typed' = typed)
    BY <1>3 DEF Type, ExternalEdit
  <2>3. own' \in 0..MaxOwn
    BY <1>0, <2>2 DEF OwnChange
  <2> QED BY <1>0, <2>1, <2>2, <2>3 DEF CountsTyped
<1>4. CASE Asking \/ GivesUp \/ Adoption \/ Merge
  <2>1. UNCHANGED <<peers, own, typed, counters>>
    BY <1>4, AskingGives, GivesUpGives, AdoptionGives, MergeGives
  <2> QED BY <1>0, <2>1 DEF CountsTyped
<1>5. CASE Drop
  <2>1. UNCHANGED <<peers, own, typed, starts, faults>> /\ drops' \in 0..MaxDrops
    BY <1>0, <1>5 DEF Drop
  <2> QED BY <1>0, <2>1 DEF CountsTyped
<1>6. CASE Quit \/ Crash
  <2>1. UNCHANGED <<peers, own, drops, faults>> /\ starts' \in 0..MaxStarts /\ typed' \subseteq typed
    BY <1>0, <1>6 DEF Quit, Crash, Ended
  <2> QED BY <1>0, <2>1 DEF CountsTyped
<1>7. CASE RequestFails \/ Abort \/ ReplayFails
  <2>1. UNCHANGED <<peers, own, typed, drops, starts>> /\ faults' \in 0..MaxFaults
    BY <1>0, <1>7 DEF RequestFails, Abort, ReplayFails, OtherFails
  <2> QED BY <1>0, <2>1 DEF CountsTyped
<1>8. CASE \/ Start \/ FlushVVCache \/ Connect \/ ServePush \/ Listed \/ CleanSkip \/ HashSkip \/ ConflictCopied
           \/ SaveVVCache \/ SaveDirtyPaths \/ SyncEnds \/ AutoSave \/ OpenNote \/ DebounceFires \/ CloseNote
  <2>1. UNCHANGED <<peers, own, typed, counters>>
    BY <1>8 DEF Start, FlushVVCache, Connect, ServePush, Listed, CleanSkip, HashSkip, Skips, ConflictCopied,
         SaveVVCache, SaveDirtyPaths, SyncEnds, AutoSave, OpenNote, DebounceFires, CloseNote
  <2> QED BY <1>0, <2>1 DEF CountsTyped
<1> QED BY <1>1, <1>2, <1>3, <1>4, <1>5, <1>6, <1>7, <1>8, <1>9, ByKind DEF Here

(* The sync has read the note before it asks.                                 *)
LEMMA ReadTypedStays ==
  ASSUME TypeOK, ReadTyped, Next
  PROVE  ReadTyped'
<1>0. sync \in Syncs /\ NoSync.at = "idle"
  BY Fields, Constants
<1>1. CASE Told \/ Missed \/ Unheeded
  <2>1. sync' = sync
    BY <1>1, HeedsGives, PeerChangeGives DEF Told, Missed, Unheeded
  <2> QED BY <2>1 DEF ReadTyped
<1>2. CASE Asking
  BY <1>2, AskingGives, LocalTyped DEF ReadTyped
<1>3. CASE Adoption \/ Merge
  BY <1>3, AdoptionGives, MergeGives DEF ReadTyped
<1>4. CASE Start \/ Here \/ ReplayFails \/ SyncEnds \/ FlushVVCache \/ ServePush \/ Type \/ AutoSave \/ OpenNote
  <2>1. sync' = sync
    BY <1>4 DEF Start, Here, ReplayFails, SyncEnds, DebounceFires, CloseNote, ExternalEdit, FlushVVCache, ServePush, Type, AutoSave, OpenNote
  <2> QED BY <2>1 DEF ReadTyped
<1>5. CASE Abort \/ Quit \/ Crash \/ GivesUp \/ SaveDirtyPaths
  <2>1. sync' = NoSync
    BY <1>5, GivesUpGives DEF Abort, SyncFails, Quit, Crash, Ended, SaveDirtyPaths
  <2> QED BY <1>0, <2>1 DEF ReadTyped
<1>9. CASE Drop \/ Connect
  <2>1. \/ sync' = NoSync \/ sync' = sync \/ sync' = [sync EXCEPT !.lost = TRUE]
        \/ sync' = [NoSync EXCEPT !.at = "listing", !.dirty = dirty, !.cached = cache]
    BY <1>9 DEF Drop, SyncFails, Connect
  <2>2. \/ sync'.at \in {"idle", "listing"}
        \/ sync'.at = sync.at /\ sync'.read = sync.read
    BY <1>0, <2>1 DEF Syncs, NoSync
  <2> QED BY <2>2 DEF ReadTyped
<1>6. CASE (Listed /\ ~Open) \/ CleanSkip \/ HashSkip \/ SaveVVCache
  <2>1. sync'.at \in {"planned", "ending", "saved"}
    BY <1>0, <1>6, Constants DEF Listed, CleanSkip, HashSkip, SaveVVCache, Syncs
  <2> QED BY <2>1 DEF ReadTyped
<1>7. CASE RequestFails
  <2>1. sync' = NoSync \/ sync' = [sync EXCEPT !.at = "ending"]
    BY <1>7 DEF RequestFails, SyncFails
  <2>2. sync'.at \in {"idle", "ending"}
    BY <1>0, <2>1 DEF Syncs
  <2> QED BY <2>2 DEF ReadTyped
<1>8. CASE ConflictCopied
  <2>1. sync' = [sync EXCEPT !.at = "again"] /\ sync.at = "asked"
    BY <1>8 DEF ConflictCopied, Answers
  <2>2. sync'.read = sync.read
    BY <1>0, <2>1 DEF Syncs
  <2> QED BY <2>1, <2>2 DEF ReadTyped
<1> QED BY <1>1, <1>2, <1>3, <1>4, <1>5, <1>6, <1>7, <1>8, <1>9, ByKind

(* The frames stay in their places.                                           *)
LEMMA ExpectedStays ==
  ASSUME TypeOK, ReadTyped, Expected, Next
  PROVE  Expected'
<1>0. /\ sync \in Syncs /\ up \in Seq(Frames) /\ doc \in Versions /\ Ask \in Frames /\ Ask.kind = "ask"
      /\ (up # <<>> => Online)
  BY Fields, Constants
<1>1. \A f \in Frames : f.kind \notin {"list", "ask"} => Placed(Append(up, f), sync.at)
  BY <1>0, PlacedMore DEF Expected
<1>2. CASE Told \/ Missed
  <2>1. PICK n \in PeerChanges, vv \in Versions : Heeds(n, vv) /\ (Broadcast(n, vv) \/ CatchUpFails(n, vv))
    BY <1>2 DEF Told, Missed
  <2>2. srv' \in Versions /\ sync' = sync
    BY <2>1, HeedsGives
  <2>3. Dispatch(n)
    BY <2>1, <2>2, BroadcastGives, MissGives
  <2>4. /\ Keystrokes \in Frames /\ Keystrokes.kind = "push" /\ Removal(n) \in Frames /\ Removal(n).kind = "push"
    BY DispatchFrames
  <2>5. /\ Append(up, Keystrokes) \in Seq(Frames) /\ Placed(up, sync.at)
        /\ Placed(Append(up, Keystrokes), sync.at) /\ Placed(Append(up, Removal(n)), sync.at)
    BY <1>0, <1>1, <2>4, QueueFacts DEF Expected
  <2>6. Placed(Append(Append(up, Keystrokes), Removal(n)), sync.at)
    BY <2>4, <2>5, PlacedMore
  <2> QED BY <2>2, <2>3, <2>5, <2>6 DEF Dispatch, Expected
<1>3. CASE Here
  <2>1. Untouched \/ Entering(Shown')
    BY <1>3, LocalGives DEF Here
  <2>2. PICK c \in Texts : c = Shown'
    BY <1>3, LocalGives DEF Here
  <2>3. sync' = sync
    BY <1>3 DEF Here, DebounceFires, CloseNote, ExternalEdit
  <2>4. CASE Untouched
    BY <2>3, <2>4 DEF Untouched, Expected
  <2>5. CASE Entering(c)
    <3>1. doc' \in Versions /\ (up' = up \/ up' = Append(up, PushOf("push", doc, doc')))
      BY <2>5, EnteringGives
    <3>2. PICK d \in Versions : d = doc'
      BY <3>1
    <3>3. PushOf("push", doc, d) \in Frames /\ PushOf("push", doc, d).kind = "push"
      BY <1>0, PushFacts
    <3>4. Placed(up', sync.at)
      BY <1>1, <3>1, <3>2, <3>3 DEF Expected
    <3> QED BY <2>3, <3>4 DEF Expected
  <2> QED BY <2>1, <2>2, <2>4, <2>5
<1>4. CASE Asking
  <2>1. sync'.at \in Asked
    BY <1>4, AskingGives DEF Asked
  <2>2. \E q \in Seq(Frames) : Answered(q) /\ up' = Append(q, Ask)
    <3>1. CASE up' = Append(Tail(up), Ask) /\ up # <<>> /\ Head(up).kind = "list"
      <4>1. Tail(up) \in Seq(Frames)
        BY <1>0, <3>1, QueueFacts
      <4>2. Answered(Tail(up))
        BY <1>0, <3>1, PlacedFacts DEF Expected
      <4> QED BY <3>1, <4>1, <4>2
    <3>2. CASE up' = Append(up, Ask) /\ sync.at = "planned"
      BY <1>0, <3>2, PlacedFacts DEF Expected, Asked
    <3> QED BY <1>4, <3>1, <3>2, AskingGives
  <2>3. PICK q \in Seq(Frames) : Answered(q) /\ up' = Append(q, Ask)
    BY <2>2
  <2>4. \A at : at \in Asked => Placed(Append(q, Ask), at)
    BY <1>0, <2>3, PlacedMore
  <2> QED BY <2>1, <2>3, <2>4 DEF Expected
<1>5. CASE Adoption \/ RequestFails
  <2>1. up # <<>> /\ Head(up).kind = "ask" /\ up' = Tail(up)
    BY <1>5, AdoptionGives DEF RequestFails
  <2>2. Answered(Tail(up)) /\ Tail(up) \in Seq(Frames)
    BY <1>0, <2>1, PlacedFacts, QueueFacts DEF Expected
  <2>3. \A at : Placed(Tail(up), at)
    BY <2>2 DEF Placed, Answered
  <2> QED BY <2>1, <2>3 DEF Expected
<1>6. CASE Merge
  <2>1. up # <<>> /\ Head(up).kind = "ask" /\ Tail(up) \in Seq(Frames)
    BY <1>6, MergeSends
  <2>2. Answered(Tail(up))
    BY <1>0, <2>1, PlacedFacts DEF Expected
  <2>3. \A i \in 1..Len(up') : up'[i].kind \notin {"list", "ask"}
    <3>1. /\ OnTheWay(up') \subseteq OnTheWay(Tail(up)) \cup {PushOf("push", doc, Caught), PushOf("exempt", srv, Fetched)}
      BY <1>6, MergeSends
    <3>2. PushOf("push", doc, Caught).kind = "push" /\ PushOf("exempt", srv, Fetched).kind = "exempt"
      BY DEF PushOf
    <3>3. \A f \in OnTheWay(Tail(up)) : f.kind \notin {"list", "ask"}
      BY <2>2 DEF Answered, OnTheWay
    <3>4. \A f \in OnTheWay(up') : f.kind \notin {"list", "ask"}
      BY <3>1, <3>2, <3>3
    <3> QED BY <3>4 DEF OnTheWay
  <2> QED BY <2>3 DEF Expected, Placed
<1>7. CASE ServePush \/ (Listed /\ ~Open)
  <2>1. up # <<>> /\ up' = Tail(up)
    BY <1>7 DEF ServePush, Listed
  <2>2. CASE ServePush
    <3>1. Placed(Tail(up), sync.at) /\ sync' = sync
      BY <1>0, <2>1, <2>2, PlacedFacts DEF Expected, ServePush
    <3> QED BY <2>1, <3>1 DEF Expected
  <2>3. CASE Listed
    <3>1. Answered(Tail(up))
      BY <1>0, <2>1, <2>3, PlacedFacts DEF Expected, Listed
    <3>2. \A at : Placed(Tail(up), at)
      BY <3>1 DEF Placed, Answered
    <3> QED BY <2>1, <3>2 DEF Expected
  <2> QED BY <1>7, <2>2, <2>3
<1>8. CASE Drop \/ Quit \/ Crash
  <2>1. up' = <<>>
    BY <1>8 DEF Drop, Quit, Crash, Ended
  <2> QED BY <2>1, PlacedEmpty DEF Expected
<1>9. CASE Connect
  <2>1. CASE ~Running
    <3>1. up' = <<List>> /\ sync' = [NoSync EXCEPT !.at = "listing", !.dirty = dirty, !.cached = cache]
      BY <1>9, <2>1 DEF Connect
    <3>2. sync'.at = "listing"
      BY <3>1 DEF NoSync
    <3> QED BY <3>1, <3>2, PlacedEmpty DEF Expected
  <2>2. CASE Running
    BY <1>9, <2>2 DEF Connect, Expected
  <2> QED BY <2>1, <2>2
<1>10. CASE CleanSkip \/ HashSkip \/ SaveVVCache \/ SaveDirtyPaths \/ Abort \/ GivesUp
  <2>1. up' = up /\ sync.at \notin {"listing"} \cup Asked
    BY <1>10, GivesUpGives DEF CleanSkip, HashSkip, Skips, SaveVVCache, SaveDirtyPaths, Abort, Asked
  <2>2. Answered(up)
    BY <1>0, <2>1, PlacedFacts DEF Expected
  <2>3. \A at : Placed(up, at)
    BY <2>2 DEF Placed, Answered
  <2> QED BY <2>1, <2>3 DEF Expected
<1>11. CASE ConflictCopied
  <2>1. up # <<>> /\ Head(up).kind = "ask" /\ up' = Append(Tail(up), Ask) /\ sync' = [sync EXCEPT !.at = "again"]
    BY <1>11 DEF ConflictCopied, Answers
  <2>2. Tail(up) \in Seq(Frames) /\ Answered(Tail(up))
    BY <1>0, <2>1, PlacedFacts, QueueFacts DEF Expected
  <2>3. "again" \in Asked /\ sync'.at = "again"
    BY <1>0, <2>1 DEF Syncs, Asked
  <2>4. Placed(Append(Tail(up), Ask), "again")
    BY <1>0, <2>2, <2>3, PlacedMore
  <2> QED BY <2>1, <2>3, <2>4 DEF Expected
<1>12. CASE Start \/ FlushVVCache \/ Type \/ AutoSave \/ OpenNote \/ ReplayFails \/ SyncEnds \/ Unheeded
  <2>1. UNCHANGED <<up, sync>>
    BY <1>12, PeerChangeGives DEF Start, FlushVVCache, Type, AutoSave, OpenNote, ReplayFails, SyncEnds, Unheeded
  <2> QED BY <2>1 DEF Expected
<1> QED
  BY <1>2, <1>3, <1>4, <1>5, <1>6, <1>7, <1>8, <1>9, <1>10, <1>11, <1>12, ByKind

Typed == TypeOK /\ ReadTyped /\ Expected

LEMMA TypedInit == Init => Typed
<1> SUFFICES ASSUME Init PROVE Typed
  OBVIOUS
<1>1. /\ NoCache \in CacheEntries /\ NoSync \in Syncs /\ NoSync.at = "idle" /\ Nothing \in Versions
      /\ {} \in Texts /\ {1} \in Texts /\ 1 \in PeerChanges
  BY Constants, Numbering
<1>2. srv \in Versions
  BY <1>1 DEF Init, Versions
<1>3. [vv |-> srv, hash |-> {1}] \in CacheEntries
  BY <1>1, <1>2, EntryFacts
<1>4. HistoriesTyped
  <2>1. CASE loro = srv /\ stored = [vv |-> srv, hash |-> {1}]
    BY <1>1, <1>2, <1>3, <2>1 DEF Init, HistoriesTyped
  <2>2. CASE loro = Nothing /\ stored = NoCache
    BY <1>1, <1>2, <2>2 DEF Init, HistoriesTyped
  <2> QED BY <2>1, <2>2 DEF Init
<1>5. NoteTyped
  BY <1>1 DEF Init, NoteTyped, Open
<1>6. RunTyped
  BY <1>1, EmptyWay DEF Init, RunTyped, Running
<1>7. FlagsTyped /\ CountsTyped
  <2>1. FlagsTyped
    BY DEF Init, FlagsTyped
  <2>2. 0 \in 0..MaxOwn /\ 0 \in 0..MaxDrops /\ 0 \in 0..MaxStarts /\ 0 \in 0..MaxFaults
    OBVIOUS
  <2>3. CountsTyped
    BY <1>1, <2>2 DEF Init, CountsTyped
  <2> QED BY <2>1, <2>3
<1>8. ReadTyped /\ Expected
  BY <1>1, PlacedEmpty DEF Init, ReadTyped, Expected
<1> QED BY <1>4, <1>5, <1>6, <1>7, <1>8, TypeParts DEF Typed

LEMMA TypedStays == Typed /\ [Next]_vars => Typed'
<1> SUFFICES ASSUME Typed, [Next]_vars PROVE Typed'
  OBVIOUS
<1>1. CASE Next
  <2>1. HistoriesTyped' /\ NoteTyped' /\ RunTyped' /\ FlagsTyped' /\ CountsTyped'
    BY <1>1, HistoriesStay, NoteStays, RunStays, FlagsStay, CountsStay DEF Typed
  <2>2. TypeOK'
    BY <2>1
       DEF TypeOK, HistoriesTyped, NoteTyped, RunTyped, FlagsTyped, CountsTyped, Syncs, Places, Lapses
  <2> QED BY <1>1, <2>2, ReadTypedStays, ExpectedStays DEF Typed
<1>2. CASE UNCHANGED vars
  BY <1>2 DEF vars, Typed, TypeOK, Open, Online, Running, ReadTyped, Expected
<1> QED BY <1>1, <1>2

---------------------------------------------------------------------------
(* The frames on the way.                                                     *)

(* What a new frame carries is in the document, and in no history that is     *)
(* its own.                                                                   *)
Carries(f, d, private) ==
  /\ f.kind \in {"push", "exempt"} /\ f.add.ops \subseteq d.ops /\ f.add.deleted \subseteq d.deleted
  /\ f.kind = "exempt" => f.needs \subseteq srv.ops
  /\ ~private /\ (srv.ops # {} => d.ops # {})

LEMMA PushCarries ==
  ASSUME NEW a \in Versions, NEW b \in Versions, NEW d \in Versions,
         b.ops \subseteq d.ops, b.deleted \subseteq d.deleted
  PROVE  /\ PushOf("push", a, b).kind = "push"
         /\ PushOf("push", a, b).add.ops \subseteq d.ops /\ PushOf("push", a, b).add.deleted \subseteq d.deleted
         /\ PushOf("exempt", a, b).kind = "exempt" /\ PushOf("exempt", a, b).needs \subseteq a.ops
         /\ PushOf("exempt", a, b).add.ops \subseteq d.ops /\ PushOf("exempt", a, b).add.deleted \subseteq d.deleted
  BY PushFacts

(* What a broadcast sends is in the document then.                            *)
LEMMA TakenFrames ==
  ASSUME TypeOK, NEW n \in PeerChanges, NEW vv \in Versions, Heeds(n, vv),
         Broadcast(n, vv) \/ CatchUpFails(n, vv)
  PROVE  /\ fresh' = FALSE /\ n \in doc'.ops /\ OnTheWay(up) \subseteq OnTheWay(up')
         /\ \A f \in OnTheWay(up') : \/ f \in OnTheWay(up)
                                     \/ /\ f.kind = "push" /\ f.add.ops \subseteq doc'.ops
                                        /\ f.add.deleted \subseteq doc'.deleted
<1>0. /\ up \in Seq(Frames) /\ doc \in Versions /\ srv' \in Versions
      /\ Flushed \in Versions /\ Merged(n) \in Versions /\ Reflushed(n) \in Versions
      /\ Merged(n).ops = Taken(n) /\ Reflushed(n).ops = Taken(n)
      /\ Flushed.ops \subseteq Merged(n).ops /\ Merged(n).deleted = Flushed.deleted
      /\ Merged(n).deleted \subseteq Reflushed(n).deleted
      /\ Keystrokes \in Frames /\ Removal(n) \in Frames
  BY Fields, HeedsGives, FlushedGives, MergedGives, ReflushedGives, TakenGives, DispatchFrames
<1>1. /\ fresh' = FALSE /\ doc' \in Versions /\ n \in doc'.ops
  BY <1>0, BroadcastGives, MissGives DEF Taken
<1>2. PICK d \in Versions : d = doc'
  BY <1>1
<1>3. /\ Append(up, Keystrokes) \in Seq(Frames)
      /\ OnTheWay(Append(up, Keystrokes)) = OnTheWay(up) \cup {Keystrokes}
      /\ OnTheWay(Append(up, Removal(n))) = OnTheWay(up) \cup {Removal(n)}
  BY <1>0, QueueFacts, WayFacts
<1>4. OnTheWay(Append(Append(up, Keystrokes), Removal(n))) = OnTheWay(up) \cup {Keystrokes, Removal(n)}
  <2>1. PICK q \in Seq(Frames) : q = Append(up, Keystrokes)
    BY <1>3
  <2>2. OnTheWay(Append(q, Removal(n))) = OnTheWay(q) \cup {Removal(n)}
    BY <1>0, WayFacts
  <2> QED BY <1>3, <2>1, <2>2
<1>5. Sent(doc, Flushed) = up \/ Sent(doc, Flushed) = Append(up, Keystrokes)
  BY <1>0, SentGives DEF Keystrokes
<1>6. CASE Hear(n, vv)
  <2>1. doc' = Merged(n) /\ up' = Sent(doc, Flushed)
    BY <1>6, HearAssigns
  <2>2. /\ Keystrokes.kind = "push" /\ Keystrokes.add.ops \subseteq d.ops
        /\ Keystrokes.add.deleted \subseteq d.deleted
    BY <1>0, <1>2, <2>1, PushCarries DEF Keystrokes
  <2> QED BY <1>1, <1>2, <1>3, <1>5, <2>1, <2>2
<1>7. CASE CatchUp(n, vv) \/ CatchUpFails(n, vv)
  <2>1. up' = ReflushFrames(n) /\ (doc' = Reflushed(n) \/ doc' = Join(Reflushed(n), srv'))
    BY <1>7, CatchUpAssigns DEF CatchUpFails
  <2>2. Reflushed(n).ops \subseteq d.ops /\ Reflushed(n).deleted \subseteq d.deleted
    <3>1. PICK w \in Versions : w = srv'
      BY <1>0
    <3>2. /\ Join(Reflushed(n), w).ops = Reflushed(n).ops \cup w.ops
          /\ Join(Reflushed(n), w).deleted = Reflushed(n).deleted \cup w.deleted
      BY <1>0, JoinFacts
    <3> QED BY <1>2, <2>1, <3>1, <3>2
  <2>3. /\ Keystrokes.kind = "push" /\ Keystrokes.add.ops \subseteq d.ops
        /\ Keystrokes.add.deleted \subseteq d.deleted
    <3>1. Flushed.ops \subseteq d.ops /\ Flushed.deleted \subseteq d.deleted
      BY <1>0, <2>2
    <3> QED BY <1>0, <3>1, PushCarries DEF Keystrokes
  <2>4. /\ Removal(n).kind = "push" /\ Removal(n).add.ops \subseteq d.ops
        /\ Removal(n).add.deleted \subseteq d.deleted
    BY <1>0, <2>2, PushCarries DEF Removal
  <2>5. up' = Sent(doc, Flushed) \/ up' = Append(Sent(doc, Flushed), Removal(n))
    BY <2>1 DEF ReflushFrames, Removal
  <2>6. /\ OnTheWay(up') \subseteq OnTheWay(up) \cup {Keystrokes, Removal(n)}
        /\ OnTheWay(up) \subseteq OnTheWay(up')
    BY <1>3, <1>4, <1>5, <2>5
  <2> QED BY <1>1, <1>2, <2>3, <2>4, <2>6
<1> QED BY <1>6, <1>7 DEF Broadcast

(* Every frame was there before, asks for something, or carries text of the   *)
(* document; and a push of an initial sync stays until the server takes it    *)
(* or the connection is lost.                                                 *)
Unlost(f) == f \in OnTheWay(up') \/ "exempt" \in lapses' \/ (ServePush /\ f = Head(up))

LEMMA WayStep ==
  ASSUME Typed, Next
  PROVE  /\ \A f \in OnTheWay(up') :
              \/ f \in OnTheWay(up)
              \/ f.kind \in {"list", "ask"} /\ f.add = Nothing
              \/ "doubled" \in lapses' /\ f.kind = "push" /\ f.add.ops \subseteq doc'.ops
                 /\ f.add.deleted \subseteq doc'.deleted
              \/ Carries(f, doc', fresh')
         /\ \A f \in OnTheWay(up) : f.kind = "exempt" => Unlost(f)
<1> DEFINE Fine(f) == \/ f \in OnTheWay(up)
                      \/ f.kind \in {"list", "ask"} /\ f.add = Nothing
                      \/ "doubled" \in lapses' /\ f.kind = "push" /\ f.add.ops \subseteq doc'.ops
                         /\ f.add.deleted \subseteq doc'.deleted
                      \/ Carries(f, doc', fresh')
<1>0. /\ TypeOK /\ ReadTyped /\ Expected
      /\ up \in Seq(Frames) /\ doc \in Versions /\ srv \in Versions
      /\ Ask \in Frames /\ Ask.kind = "ask" /\ Ask.add = Nothing
      /\ List \in Frames /\ List.kind = "list" /\ List.add = Nothing
  BY Fields, Constants DEF Typed
<1>1. ASSUME UNCHANGED up
      PROVE  (\A f \in OnTheWay(up') : Fine(f)) /\ (\A f \in OnTheWay(up) : Unlost(f))
  BY <1>1 DEF Unlost
<1>2. ASSUME NEW g \in Frames, up' = Append(up, g), Fine(g)
      PROVE  (\A f \in OnTheWay(up') : Fine(f)) /\ (\A f \in OnTheWay(up) : Unlost(f))
  <2>1. OnTheWay(up') = OnTheWay(up) \cup {g}
    BY <1>0, <1>2, WayFacts
  <2>2. \A f \in OnTheWay(up) : Unlost(f)
    BY <2>1 DEF Unlost
  <2>3. \A f \in OnTheWay(up') : Fine(f)
    BY <1>2, <2>1
  <2> QED BY <2>2, <2>3
<1>3. CASE Told \/ Missed
  <2>1. PICK n \in PeerChanges, vv \in Versions : Heeds(n, vv) /\ (Broadcast(n, vv) \/ CatchUpFails(n, vv))
    BY <1>3 DEF Told, Missed
  <2>2. /\ fresh' = FALSE /\ n \in doc'.ops /\ OnTheWay(up) \subseteq OnTheWay(up')
        /\ \A f \in OnTheWay(up') : \/ f \in OnTheWay(up)
                                    \/ /\ f.kind = "push" /\ f.add.ops \subseteq doc'.ops
                                       /\ f.add.deleted \subseteq doc'.deleted
    BY <1>0, <2>1, TakenFrames
  <2>3. \A f \in OnTheWay(up') : Fine(f)
    BY <2>2 DEF Carries
  <2>4. \A f \in OnTheWay(up) : Unlost(f)
    BY <2>2 DEF Unlost
  <2> QED BY <2>3, <2>4
<1>4. CASE Here
  <2>1. Untouched \/ Entering(Shown')
    BY <1>0, <1>4, LocalGives DEF Here
  <2>2. PICK c \in Texts : c = Shown'
    BY <1>0, <1>4, LocalGives DEF Here
  <2>3. CASE Untouched
    BY <1>1, <2>3 DEF Untouched
  <2>4. CASE Entering(c)
    <3>1. /\ doc' \in Versions /\ fresh' \in BOOLEAN /\ doc.ops \subseteq doc'.ops
          /\ \/ up' = up
             \/ /\ up' = Append(up, PushOf("push", doc, doc'))
                /\ "doubled" \notin lapses' => ~fresh /\ ~fresh' /\ doc.ops # {}
      BY <1>0, <2>4, EnteringGives
    <3>2. PICK d \in Versions : d = doc'
      BY <3>1
    <3>3. /\ PushOf("push", doc, d) \in Frames /\ PushOf("push", doc, d).kind = "push"
          /\ PushOf("push", doc, d).add.ops \subseteq d.ops
          /\ PushOf("push", doc, d).add.deleted \subseteq d.deleted
      BY <1>0, PushFacts, PushCarries
    <3>4. ASSUME up' = Append(up, PushOf("push", doc, doc'))
          PROVE  Fine(PushOf("push", doc, d))
      BY <3>1, <3>2, <3>3, <3>4 DEF Carries
    <3> QED BY <1>1, <1>2, <3>1, <3>2, <3>3, <3>4
  <2> QED BY <2>1, <2>2, <2>3, <2>4
<1>5. ASSUME NEW q \in Seq(Frames), up # <<>>, q = Tail(up), Head(up).kind \in {"list", "ask"}
      PROVE  /\ OnTheWay(q) \subseteq OnTheWay(up)
             /\ \A f \in OnTheWay(up) : f.kind = "exempt" => f \in OnTheWay(q)
             /\ OnTheWay(Append(q, Ask)) = OnTheWay(q) \cup {Ask}
  <2>1. OnTheWay(up) = {Head(up)} \cup OnTheWay(q)
    BY <1>0, <1>5, WayFacts
  <2>2. OnTheWay(Append(q, Ask)) = OnTheWay(q) \cup {Ask}
    BY <1>0, WayFacts
  <2> QED BY <1>5, <2>1, <2>2
<1>6. CASE Asking \/ ConflictCopied \/ (Listed /\ ~Open) \/ Adoption \/ RequestFails
  <2>1. \/ up' = Append(up, Ask)
        \/ /\ up # <<>> /\ Head(up).kind \in {"list", "ask"}
           /\ up' = Append(Tail(up), Ask) \/ up' = Tail(up)
    BY <1>0, <1>6, AskingGives, AdoptionGives DEF ConflictCopied, Listed, RequestFails, Answers
  <2>2. CASE up' = Append(up, Ask)
    BY <1>0, <1>2, <2>2
  <2>3. CASE /\ up # <<>> /\ Head(up).kind \in {"list", "ask"}
             /\ up' = Append(Tail(up), Ask) \/ up' = Tail(up)
    <3>1. PICK q \in Seq(Frames) : q = Tail(up)
      BY <1>0, <2>3, QueueFacts
    <3>2. /\ OnTheWay(q) \subseteq OnTheWay(up)
          /\ \A f \in OnTheWay(up) : f.kind = "exempt" => f \in OnTheWay(q)
          /\ OnTheWay(Append(q, Ask)) = OnTheWay(q) \cup {Ask}
      BY <1>5, <2>3, <3>1
    <3>3. OnTheWay(up') \subseteq OnTheWay(up) \cup {Ask} /\ OnTheWay(q) \subseteq OnTheWay(up')
      BY <2>3, <3>1, <3>2
    <3> QED BY <1>0, <3>2, <3>3 DEF Unlost
  <2> QED BY <2>1, <2>2, <2>3
<1>7. CASE Merge
  <2>1. /\ up # <<>> /\ Head(up).kind = "ask" /\ Tail(up) \in Seq(Frames)
        /\ OnTheWay(Tail(up)) \subseteq OnTheWay(up')
        /\ OnTheWay(up') \subseteq OnTheWay(Tail(up)) \cup {PushOf("push", doc, Caught), PushOf("exempt", srv, Fetched)}
    BY <1>0, <1>7, MergeSends
  <2>2. /\ OnTheWay(Tail(up)) \subseteq OnTheWay(up)
        /\ \A f \in OnTheWay(up) : f.kind = "exempt" => f \in OnTheWay(Tail(up))
    BY <1>5, <2>1
  <2>3. doc' \in Versions /\ doc'.ops = Fetched.ops /\ fresh' = FALSE
    BY <1>0, <1>7, MergeGives
  <2>4. Caught \in Versions /\ Fetched \in Versions /\ Fetched.ops = Caught.ops \cup srv.ops
        /\ Caught.deleted \subseteq Fetched.deleted
    BY <1>0, CaughtGives
  <2>5. Fetched.deleted \subseteq doc'.deleted
    <3>1. CASE doc' = Fetched
      BY <3>1
    <3>2. CASE Open /\ Newer /\ doc' = Synced(Fetched, ShownAfter)
      BY <1>0, <3>2, ShownAfterGives
    <3> QED BY <1>7, <3>1, <3>2, MergeAssigns DEF NoteDone
  <2>6. PICK d \in Versions : d = doc'
    BY <2>3
  <2>7. Carries(PushOf("push", doc, Caught), doc', fresh')
    <3>1. Caught.ops \subseteq d.ops /\ Caught.deleted \subseteq d.deleted
      BY <2>3, <2>4, <2>5, <2>6
    <3>2. /\ PushOf("push", doc, Caught).kind = "push" /\ PushOf("push", doc, Caught).add.ops \subseteq d.ops
          /\ PushOf("push", doc, Caught).add.deleted \subseteq d.deleted
      BY <1>0, <2>4, <3>1, PushCarries
    <3> QED BY <2>3, <2>4, <2>6, <3>2 DEF Carries
  <2>8. Carries(PushOf("exempt", srv, Fetched), doc', fresh')
    <3>1. Fetched.ops \subseteq d.ops /\ Fetched.deleted \subseteq d.deleted
      BY <2>3, <2>5, <2>6
    <3>2. /\ PushOf("exempt", srv, Fetched).kind = "exempt" /\ PushOf("exempt", srv, Fetched).add.ops \subseteq d.ops
          /\ PushOf("exempt", srv, Fetched).add.deleted \subseteq d.deleted
          /\ PushOf("exempt", srv, Fetched).needs \subseteq srv.ops
      BY <1>0, <2>4, <3>1, PushCarries
    <3> QED BY <2>3, <2>4, <2>6, <3>2 DEF Carries
  <2>9. \A f \in OnTheWay(up') : Fine(f)
    BY <2>1, <2>2, <2>7, <2>8
  <2>10. \A f \in OnTheWay(up) : f.kind = "exempt" => Unlost(f)
    BY <2>1, <2>2 DEF Unlost
  <2> QED BY <2>9, <2>10
<1>8. CASE ServePush
  <2>1. up # <<>> /\ up' = Tail(up)
    BY <1>8 DEF ServePush
  <2>2. OnTheWay(up) = {Head(up)} \cup OnTheWay(Tail(up))
    BY <1>0, <2>1, WayFacts
  <2> QED BY <1>8, <2>1, <2>2 DEF Unlost
<1>9. CASE Drop \/ Quit \/ Crash
  <2>1. up' = <<>> /\ ExemptLost \subseteq lapses'
    BY <1>9 DEF Drop, Quit, Crash, Ended
  <2>2. (\E f \in OnTheWay(up) : f.kind = "exempt") => "exempt" \in lapses'
    BY <1>0, <2>1 DEF ExemptLost, OnTheWay
  <2>3. OnTheWay(up') = {}
    BY <2>1, EmptyWay
  <2> QED BY <2>2, <2>3 DEF Unlost
<1>10. CASE Connect
  <2>1. up = <<>> /\ (up' = up \/ up' = <<List>>)
    <3>1. up # <<>> => Online
      BY <1>0, Fields
    <3> QED BY <1>10, <3>1 DEF Connect, Online
  <2>2. <<List>> = Append(<<>>, List)
    OBVIOUS
  <2> QED BY <1>0, <1>1, <1>2, <2>1, <2>2
<1>11. CASE \/ Start \/ FlushVVCache \/ CleanSkip \/ HashSkip \/ SaveVVCache \/ SaveDirtyPaths \/ SyncEnds
            \/ Type \/ AutoSave \/ OpenNote \/ Abort \/ GivesUp \/ ReplayFails \/ Unheeded
  <2>1. UNCHANGED up
    BY <1>0, <1>11, PeerChangeGives, GivesUpGives DEF Unheeded, Abort, ReplayFails, Start, FlushVVCache, CleanSkip, HashSkip, Skips, SaveVVCache, SaveDirtyPaths, SyncEnds, Type,
                 AutoSave, OpenNote
  <2> QED BY <1>1, <2>1
<1> QED
  BY <1>0, <1>3, <1>4, <1>6, <1>7, <1>8, <1>9, <1>10, <1>11, ByKind

---------------------------------------------------------------------------
(* Own text.                                                                  *)

Spared(set) == lapses \cap set = {}

(* The user deletes nothing; unless an old text was taken for a deletion,     *)
(* nothing is deleted anywhere.                                               *)
NoDeletes ==
  "reverted" \notin lapses =>
    /\ doc.deleted = {} /\ loro.deleted = {} /\ srv.deleted = {} /\ sync.listed.deleted = {}
    /\ \A f \in OnTheWay(up) : f.add.deleted = {}

LEMMA SparedBefore ==
  ASSUME Typed, Next
  PROVE  \A set : Spared(set)' => Spared(set)
<1>1. lapses \subseteq lapses'
  BY LapsesGrow DEF Typed
<1> QED BY <1>1 DEF Spared

LEMMA NoDeletesStays ==
  ASSUME Typed, NoDeletes, Next
  PROVE  NoDeletes'
<1> SUFFICES ASSUME "reverted" \notin lapses'
             PROVE  /\ doc'.deleted = {} /\ loro'.deleted = {} /\ srv'.deleted = {} /\ sync'.listed.deleted = {}
                    /\ \A f \in OnTheWay(up') : f.add.deleted = {}
  BY DEF NoDeletes
<1>0. /\ TypeOK /\ ReadTyped /\ doc.deleted = {} /\ loro.deleted = {} /\ srv.deleted = {}
      /\ sync.listed.deleted = {} /\ \A f \in OnTheWay(up) : f.add.deleted = {}
  BY LapsesGrow DEF Typed, NoDeletes
<1>1. sync \in Syncs /\ doc \in Versions /\ NoSync.listed = Nothing /\ Nothing.deleted = {}
  BY <1>0, Fields, Constants
<1>2. /\ doc'.deleted = {} /\ loro'.deleted = {} /\ srv'.deleted = {} /\ sync'.listed.deleted = {}
  <2>1. CASE Told
    <3>1. PICK n \in PeerChanges, vv \in Versions : Heeds(n, vv) /\ Broadcast(n, vv)
      BY <2>1 DEF Told
    <3>2. srv' \in Versions /\ srv'.deleted = {} /\ sync' = sync
      BY <1>0, <3>1, HeedsGives
    <3>3. doc'.deleted = {} /\ loro'.deleted = {}
      BY <1>0, <3>1, <3>2, BroadcastGives
    <3> QED BY <1>0, <3>2, <3>3
  <2>14. CASE Missed
    <3>1. PICK n \in PeerChanges, vv \in Versions : Heeds(n, vv) /\ CatchUpFails(n, vv)
      BY <2>14 DEF Missed
    <3>2. srv'.deleted = {} /\ sync' = sync
      BY <1>0, <3>1, HeedsGives
    <3>3. doc'.deleted = {} /\ loro' = loro
      BY <1>0, <3>1, MissGives
    <3> QED BY <1>0, <3>2, <3>3
  <2>15. CASE GivesUp
    <3>1. doc'.deleted = {} /\ UNCHANGED <<server, persisted>> /\ sync' = NoSync
      BY <1>0, <2>15, GivesUpGives
    <3> QED BY <1>0, <1>1, <3>1
  <2>2. CASE Here
    <3>1. Untouched \/ Entering(Shown')
      BY <1>0, <2>2, LocalGives DEF Here
    <3>2. PICK c \in Texts : c = Shown'
      BY <1>0, <2>2, LocalGives DEF Here
    <3>3. UNCHANGED <<srv, sync>>
      BY <2>2 DEF Here, DebounceFires, CloseNote, ExternalEdit
    <3>4. CASE Untouched
      BY <1>0, <3>3, <3>4 DEF Untouched
    <3>5. CASE Entering(c)
      <4>1. doc'.deleted = {} /\ loro'.deleted = {}
        BY <1>0, <3>5, EnteringGives
      <4> QED BY <1>0, <3>3, <4>1
    <3> QED BY <3>1, <3>2, <3>4, <3>5
  <2>3. CASE Asking
    <3>1. /\ doc'.deleted = {} /\ UNCHANGED <<server, persisted>>
          /\ sync'.listed = srv \/ sync'.listed = sync.listed
      BY <1>0, <2>3, AskingGives
    <3> QED BY <1>0, <3>1
  <2>4. CASE Adoption
    <3>1. /\ doc'.deleted \subseteq doc.deleted \cup srv.deleted /\ loro' = doc' /\ sync'.listed = sync.listed
          /\ UNCHANGED server
      BY <1>0, <2>4, AdoptionGives
    <3> QED BY <1>0, <3>1
  <2>5. CASE Merge
    <3>1. doc'.deleted = {}
      BY <1>0, <2>5, MergeDeletesNothing
    <3>2. loro' = doc' /\ sync'.listed = sync.listed /\ UNCHANGED server
      BY <1>0, <2>5, MergeGives
    <3> QED BY <1>0, <3>1, <3>2
  <2>6. CASE Unheeded
    <3>1. srv'.deleted = srv.deleted /\ UNCHANGED <<doc, persisted, sync>>
      BY <1>0, <2>6, PeerChangeGives DEF Unheeded
    <3> QED BY <1>0, <3>1
  <2>7. CASE ServePush
    <3>1. /\ srv'.deleted \subseteq srv.deleted \cup Head(up).add.deleted /\ up # <<>>
          /\ UNCHANGED <<doc, persisted, sync>>
      BY <1>0, <2>7, ServePushGives
    <3>2. Head(up) \in OnTheWay(up)
      BY <1>0, <3>1, Fields, WayFacts
    <3> QED BY <1>0, <3>1, <3>2
  <2>8. CASE ConflictCopied
    <3>1. doc' = Nothing /\ loro' = Nothing /\ sync' = [sync EXCEPT !.at = "again"] /\ srv' = srv
      BY <2>8 DEF ConflictCopied
    <3>2. sync'.listed = sync.listed
      BY <1>1, <3>1 DEF Syncs
    <3> QED BY <1>0, <1>1, <3>1, <3>2
  <2>9. CASE Start \/ Drop \/ Abort \/ ReplayFails \/ Quit \/ Crash \/ SyncEnds
    <3>1. /\ doc' = doc \/ doc' = loro
          /\ UNCHANGED <<loro, srv>>
          /\ sync' = sync \/ sync' = NoSync \/ sync' = [sync EXCEPT !.lost = TRUE]
      BY <2>9 DEF Start, Drop, SyncFails, Abort, ReplayFails, Quit, Crash, Ended, SyncEnds
    <3>2. sync'.listed = sync.listed \/ sync'.listed = Nothing
      BY <1>1, <3>1 DEF Syncs
    <3> QED BY <1>0, <1>1, <3>1, <3>2
  <2>10. CASE Connect
    <3>1. UNCHANGED <<doc, loro, srv>> /\ (sync' = sync \/ sync'.listed = Nothing)
      BY <2>10 DEF Connect, NoSync
    <3> QED BY <1>0, <1>1, <3>1
  <2>11. CASE Listed /\ ~Open
    <3>1. UNCHANGED <<doc, loro, srv>>
      BY <2>11 DEF Listed
    <3>2. sync'.listed = srv
      BY <1>1, <2>11 DEF Listed, Syncs
    <3> QED BY <1>0, <3>1, <3>2
  <2>12. CASE CleanSkip \/ HashSkip \/ RequestFails \/ SaveVVCache \/ SaveDirtyPaths
    <3>1. UNCHANGED <<doc, loro, srv>>
      BY <2>12 DEF CleanSkip, HashSkip, Skips, RequestFails, SaveVVCache, SaveDirtyPaths
    <3>2. sync'.listed = sync.listed \/ sync'.listed = Nothing
      BY <1>1, <2>12 DEF CleanSkip, HashSkip, RequestFails, SyncFails, SaveVVCache, SaveDirtyPaths, Syncs
    <3> QED BY <1>0, <1>1, <3>1, <3>2
  <2>13. CASE FlushVVCache \/ Type \/ AutoSave \/ OpenNote
    <3>1. UNCHANGED <<doc, loro, srv, sync>>
      BY <2>13 DEF FlushVVCache, Type, AutoSave, OpenNote
    <3> QED BY <1>0, <3>1
  <2> QED
    BY <1>0, <2>1, <2>2, <2>3, <2>4, <2>5, <2>6, <2>7, <2>8, <2>9, <2>10, <2>11, <2>12, <2>13,
       <2>14, <2>15, ByKind
<1>3. \A f \in OnTheWay(up') : f.add.deleted = {}
  BY <1>0, <1>1, <1>2, WayStep DEF Carries
<1> QED BY <1>2, <1>3

(* The text that the sync has read is in the document when the answer to the  *)
(* request comes, or in a copy.                                               *)
ReadCarried ==
  /\ sync.at = "asked" => sync.read \subseteq doc.ops /\ sync.sent.ops \subseteq doc.ops
  /\ sync.at = "again" => sync.read \subseteq copies

(* The document loses nothing, but when it is dropped or loaded.              *)
LEMMA DocStep ==
  ASSUME Typed, Next
  PROVE  \/ doc.ops \subseteq doc'.ops
         \/ Start \/ ConflictCopied \/ Disjoint
<1>0. TypeOK /\ ReadTyped
  BY DEF Typed
<1>1. CASE Told \/ Missed
  <2>1. PICK n \in PeerChanges, vv \in Versions : Heeds(n, vv) /\ (Broadcast(n, vv) \/ CatchUpFails(n, vv))
    BY <1>1 DEF Told, Missed
  <2>2. srv' \in Versions
    BY <1>0, <2>1, HeedsGives
  <2>3. Taken(n) \subseteq doc'.ops
    BY <1>0, <2>1, <2>2, BroadcastGives, MissGives
  <2> QED BY <2>3 DEF Taken
<1>2. CASE Here
  <2>1. Untouched \/ Entering(Shown')
    BY <1>0, <1>2, LocalGives DEF Here
  <2>2. PICK c \in Texts : c = Shown'
    BY <1>0, <1>2, LocalGives DEF Here
  <2>3. CASE Untouched
    BY <2>3 DEF Untouched
  <2>4. CASE Entering(c)
    BY <1>0, <2>4, EnteringGives
  <2> QED BY <2>1, <2>2, <2>3, <2>4
<1>3. CASE Asking \/ GivesUp
  BY <1>0, <1>3, AskingGives, GivesUpGives
<1>4. CASE Merge
  BY <1>0, <1>4, MergeGives, CaughtGives
<1>5. CASE Adopt \/ Readopt
  <2>1. doc' = Join(doc, srv)
    BY <1>5 DEF Adopt, Readopt, NoteDone
  <2> QED BY <2>1 DEF Join
<1>6. CASE \/ Unheeded \/ Drop \/ Abort \/ ReplayFails \/ Quit \/ Crash \/ FlushVVCache \/ Connect \/ ServePush
           \/ (Listed /\ ~Open) \/ CleanSkip \/ HashSkip \/ RequestFails \/ SaveVVCache \/ SaveDirtyPaths
           \/ SyncEnds \/ Type \/ AutoSave \/ OpenNote
  <2>1. doc' = doc
    BY <1>0, <1>6, PeerChangeGives DEF Unheeded, Drop, Abort, ReplayFails, Quit, Crash, FlushVVCache, Connect, ServePush, Listed, CleanSkip, HashSkip, Skips,
                RequestFails, SaveVVCache, SaveDirtyPaths, SyncEnds, Type, AutoSave, OpenNote
  <2> QED BY <2>1
<1> QED BY <1>0, <1>1, <1>2, <1>3, <1>4, <1>5, <1>6, ByKind DEF Adoption

(* Copies are never taken away.                                               *)
LEMMA CopiesStep ==
  ASSUME Typed, Next
  PROVE  copies \subseteq copies'
<1>0. TypeOK /\ ReadTyped
  BY DEF Typed
<1>1. CASE Told
  <2>1. PICK n \in PeerChanges, vv \in Versions : Heeds(n, vv) /\ Broadcast(n, vv)
    BY <1>1 DEF Told
  <2>2. srv' \in Versions
    BY <1>0, <2>1, HeedsGives
  <2> QED BY <1>0, <2>1, <2>2, BroadcastWrites
<1>2. CASE Adoption \/ Merge
  BY <1>0, <1>2, AdoptionWrites, MergeWrites
<1>3. CASE ConflictCopied
  BY <1>3 DEF ConflictCopied
<1>4. CASE Missed \/ Asking \/ GivesUp \/ Unheeded
  <2>1. copies' = copies
    BY <1>0, <1>4, MissGives, AskingGives, GivesUpGives, PeerChangeGives DEF Missed, Unheeded
  <2> QED BY <2>1
<1>5. CASE \/ Here \/ Start \/ Drop \/ Abort \/ ReplayFails \/ Quit \/ Crash \/ FlushVVCache \/ Connect
           \/ ServePush \/ (Listed /\ ~Open) \/ CleanSkip \/ HashSkip \/ RequestFails \/ SaveVVCache
           \/ SaveDirtyPaths \/ SyncEnds \/ Type \/ AutoSave \/ OpenNote
  <2>1. copies' = copies
    BY <1>5 DEF Here, Start, Drop, Abort, ReplayFails, Quit, Crash, Ended, FlushVVCache, Connect, ServePush,
                Listed, CleanSkip, HashSkip, Skips, RequestFails, SaveVVCache, SaveDirtyPaths,
                SyncEnds, Type, DebounceFires, AutoSave, OpenNote, CloseNote, ExternalEdit
  <2> QED BY <2>1
<1> QED BY <1>0, <1>1, <1>2, <1>3, <1>4, <1>5, ByKind

LEMMA ListedGives ==
  ASSUME TypeOK, Listed, ~Open
  PROVE  /\ sync'.at = "planned" /\ sync'.cached = sync.cached /\ sync'.listed = srv
         /\ sync'.read = NotSet \/ sync'.read = disk
<1>0. sync \in Syncs
  BY Fields
<1>1. PICK s \in Syncs : s = [sync EXCEPT !.listed = srv, !.first = Open]
  <2>1. [sync EXCEPT !.listed = srv, !.first = Open] \in Syncs
    BY <1>0, Fields DEF Syncs, Open
  <2> QED BY <2>1
<1>2. sync' = [s EXCEPT !.at = "planned", !.read = IF Unchanged(s) /\ ~s.dirty THEN NotSet ELSE disk]
  BY <1>1 DEF Listed
<1>3. s.cached = sync.cached /\ s.listed = srv
  BY <1>0, <1>1 DEF Syncs
<1>4. /\ sync'.at = "planned" /\ sync'.cached = s.cached /\ sync'.listed = s.listed
      /\ sync'.read = NotSet \/ sync'.read = disk
  BY <1>2 DEF Syncs
<1> QED BY <1>3, <1>4

(* The places that a sync comes to, and by which steps.                       *)
LEMMA SyncStep ==
  ASSUME Typed, Next
  PROVE  \/ sync' = sync
         \/ sync' = NoSync
         \/ sync'.at = "listing" /\ Connect /\ sync'.cached = cache /\ sync'.listed = Nothing
         \/ sync'.at = "planned" /\ Listed /\ ~Open /\ sync'.cached = sync.cached /\ sync'.listed = srv
            /\ (sync'.read = NotSet \/ sync'.read = disk)
         \/ Asking
         \/ sync'.at = "again" /\ ConflictCopied /\ sync'.read = sync.read /\ sync'.cached = sync.cached
            /\ sync'.listed = sync.listed
         \/ sync'.at = "ending" /\ (Adoption \/ Merge)
         \/ sync'.at = "ending" /\ (CleanSkip \/ HashSkip) /\ sync'.cached = sync.cached /\ sync'.listed = sync.listed
            /\ sync'.hash = sync.cached.hash
         \/ sync'.at = "ending" /\ RequestFails /\ sync'.cached = sync.cached /\ sync'.listed = sync.listed
         \/ sync'.at = "saved" /\ SaveVVCache /\ sync'.cached = sync.cached /\ sync'.listed = sync.listed
            /\ sync'.hash = sync.hash
         \/ sync' = [sync EXCEPT !.lost = TRUE] /\ Drop /\ sync.at \in {"planned", "ending", "saved"}
<1>0. TypeOK /\ ReadTyped /\ sync \in Syncs
  BY Fields DEF Typed
<1>1. CASE Told \/ Missed \/ Unheeded \/ Here \/ Start \/ FlushVVCache \/ ServePush \/ Type
           \/ AutoSave \/ OpenNote \/ ReplayFails \/ SyncEnds
  <2>1. CASE Told \/ Missed
    BY <1>0, <2>1, HeedsGives DEF Told, Missed
  <2>2. CASE ~(Told \/ Missed)
    BY <1>1, <2>2 DEF Unheeded, PeerChange, Here, DebounceFires, CloseNote, ExternalEdit, Start, FlushVVCache,
                      ServePush, Type, AutoSave, OpenNote, ReplayFails, SyncEnds
  <2> QED BY <2>1, <2>2
<1>2. CASE Drop \/ Abort \/ Quit \/ Crash \/ SaveDirtyPaths \/ GivesUp
  <2>1. sync' = NoSync \/ sync' = sync \/ (sync' = [sync EXCEPT !.lost = TRUE] /\ Drop /\ ~Waits /\ Running)
    BY <1>0, <1>2, GivesUpGives DEF Drop, Abort, SyncFails, Quit, Crash, Ended, SaveDirtyPaths
  <2>2. ~Waits /\ Running => sync.at \in {"planned", "ending", "saved"}
    BY <1>0 DEF Syncs, Places, Waits, Running
  <2> QED BY <2>1, <2>2
<1>3. CASE Connect
  <2>1. sync' = sync \/ sync' = [NoSync EXCEPT !.at = "listing", !.dirty = dirty, !.cached = cache]
    BY <1>3 DEF Connect
  <2>2. sync' = sync \/ (sync'.at = "listing" /\ sync'.cached = cache /\ sync'.listed = Nothing)
    BY <2>1 DEF NoSync
  <2> QED BY <1>3, <2>2
<1>4. CASE Listed /\ ~Open
  BY <1>0, <1>4, ListedGives
<1>5. CASE CleanSkip
  <2>1. sync' = [sync EXCEPT !.at = "ending", !.hash = sync.cached.hash]
    BY <1>5 DEF CleanSkip
  <2>2. sync'.at = "ending" /\ sync'.cached = sync.cached /\ sync'.listed = sync.listed /\ sync'.hash = sync.cached.hash
    BY <1>0, <2>1 DEF Syncs
  <2> QED BY <1>5, <2>2
<1>6. CASE HashSkip
  <2>1. sync' = [sync EXCEPT !.at = "ending", !.hash = Effective, !.dirty = FALSE] /\ Effective = sync.cached.hash
    BY <1>6 DEF HashSkip
  <2>2. sync'.at = "ending" /\ sync'.cached = sync.cached /\ sync'.listed = sync.listed /\ sync'.hash = sync.cached.hash
    BY <1>0, <2>1 DEF Syncs
  <2> QED BY <1>6, <2>2
<1>7. CASE ConflictCopied
  <2>1. sync' = [sync EXCEPT !.at = "again"]
    BY <1>7 DEF ConflictCopied
  <2>2. sync'.at = "again" /\ sync'.read = sync.read /\ sync'.cached = sync.cached /\ sync'.listed = sync.listed
    BY <1>0, <2>1 DEF Syncs
  <2> QED BY <1>7, <2>2
<1>8. CASE Adoption \/ Merge
  BY <1>0, <1>8, AdoptionGives, MergeGives
<1>9. CASE RequestFails
  <2>1. sync' = NoSync \/ sync' = [sync EXCEPT !.at = "ending"]
    BY <1>9 DEF RequestFails, SyncFails
  <2>2. sync' = NoSync \/ (sync'.at = "ending" /\ sync'.cached = sync.cached /\ sync'.listed = sync.listed)
    BY <1>0, <2>1 DEF Syncs
  <2> QED BY <1>9, <2>2
<1>10. CASE SaveVVCache
  <2>1. sync' = [sync EXCEPT !.at = "saved"]
    BY <1>10 DEF SaveVVCache
  <2>2. sync'.at = "saved" /\ sync'.cached = sync.cached /\ sync'.listed = sync.listed /\ sync'.hash = sync.hash
    BY <1>0, <2>1 DEF Syncs
  <2> QED BY <1>10, <2>2
<1> QED
  BY <1>0, <1>1, <1>2, <1>3, <1>4, <1>5, <1>6, <1>7, <1>8, <1>9, <1>10, ByKind

LEMMA ReadCarriedStays ==
  ASSUME Typed, ReadCarried, Next
  PROVE  ReadCarried'
<1>0. TypeOK /\ ReadTyped /\ copies \subseteq copies' /\ NoSync.at = "idle"
  BY CopiesStep, Constants DEF Typed
<1>1. CASE Asking
  BY <1>0, <1>1, AskingGives DEF ReadCarried
<1>2. CASE ConflictCopied
  <2>1. sync'.read = sync.read /\ sync'.at = "again"
    <3>1. sync' = [sync EXCEPT !.at = "again"] /\ sync \in Syncs
      BY <1>0, <1>2, Fields DEF ConflictCopied
    <3> QED BY <3>1 DEF Syncs
  <2>2. sync.read \subseteq copies'
    BY <1>2 DEF ConflictCopied
  <2> QED BY <2>1, <2>2 DEF ReadCarried
<1>3. CASE sync' = sync /\ ~Asking /\ ~ConflictCopied
  <2>1. sync.at = "asked" => ~Start
    BY <1>0, Fields DEF Start, Running
  <2>2. ~Disjoint
    <3>1. Disjoint => sync'.at = "ending" /\ sync.at = "asked"
      BY <1>0, AdoptionGives DEF Adoption, Disjoint, Answers
    <3> QED BY <1>3, <3>1
  <2>3. sync.at = "asked" => doc.ops \subseteq doc'.ops
    BY <1>3, <2>1, <2>2, DocStep
  <2> QED BY <1>0, <1>3, <2>3 DEF ReadCarried
<1>4. CASE sync'.at \notin {"asked", "again"}
  BY <1>4 DEF ReadCarried
<1>5. CASE sync' = [sync EXCEPT !.lost = TRUE] /\ sync.at \in {"planned", "ending", "saved"}
  <2>1. sync'.at = sync.at
    BY <1>0, <1>5, Fields DEF Syncs
  <2> QED BY <1>4, <1>5, <2>1
<1> QED BY <1>0, <1>1, <1>2, <1>3, <1>4, <1>5, SyncStep

(* Own changes that were made are before the eyes of the user, or in a copy.  *)
Own == (MaxPeer + 1)..(MaxPeer + own)
Whole == Spared({"unsaved", "rewound", "reverted"})
Kept == Whole => Own \subseteq Shown \cup copies

LEMMA OwnStep ==
  ASSUME Typed, Next
  PROVE  /\ Own \subseteq Own' /\ Own' \subseteq Own \cup Shown'
         /\ typed' \subseteq typed \cup (Own' \cap Shown')
<1>0. TypeOK /\ ReadTyped /\ own \in 0..MaxOwn
  BY Fields DEF Typed
<1>1. CASE Type \/ ExternalEdit
  <2>1. PICK c \in OwnChanges : /\ OwnChange(c) /\ typed' \subseteq typed \cup {c}
                              /\ \/ Type /\ editor' = editor \cup {c}
                                 \/ ExternalEdit /\ disk' = disk \cup {c}
    <3>1. CASE Type
      BY <3>1 DEF Type
    <3>2. CASE ExternalEdit
      BY <3>2 DEF ExternalEdit, Modified
    <3> QED BY <1>1, <3>1, <3>2
  <2>2. c = MaxPeer + own + 1 /\ own' = own + 1
    BY <2>1 DEF OwnChange
  <2>3. Own' = Own \cup {c}
    BY <1>0, <2>2 DEF Own
  <2>4. c \in Shown'
    <3>1. CASE Type /\ editor' = editor \cup {c}
      <4>1. c # 0 /\ c \in editor'
        BY <1>0, <2>2, <3>1
      <4> QED BY <4>1, ShownNext DEF Closed
    <3>2. CASE ExternalEdit /\ disk' = disk \cup {c}
      <4>1. ~Open'
        BY <3>2 DEF ExternalEdit, Open
      <4> QED BY <3>2, <4>1, ShownNext
    <3> QED BY <2>1, <3>1, <3>2
  <2> QED BY <2>1, <2>3, <2>4
<1>2. CASE ~Type /\ ~ExternalEdit
  <2>1. CASE Told
    <3>1. PICK n \in PeerChanges, vv \in Versions : Heeds(n, vv) /\ Broadcast(n, vv)
      BY <2>1 DEF Told
    <3>2. UNCHANGED <<own, typed>>
      BY <1>0, <3>1, HeedsGives, BroadcastGives
    <3> QED BY <3>2 DEF Own
  <2>2. CASE Missed
    <3>1. PICK n \in PeerChanges, vv \in Versions : Heeds(n, vv) /\ CatchUpFails(n, vv)
      BY <2>2 DEF Missed
    <3>2. UNCHANGED <<own, typed>>
      BY <3>1 DEF CatchUpFails
    <3> QED BY <3>2 DEF Own
  <2>3. CASE ~Told /\ ~Missed
    <3>1. own' = own /\ typed' \subseteq typed
      BY <1>0, <1>2, <2>3, ByKind
         DEF Unheeded, PeerChange, Here, Asking, GivesUp, Adoption, Start, Drop, Abort, ReplayFails, Quit, Crash,
             Ended, FlushVVCache, Connect, ServePush, Listed, CleanSkip, HashSkip, Skips, FullSync, Adopt,
             ConflictCopied, Readopt, Disjoint, Merge, RequestFails, SaveVVCache, SaveDirtyPaths, SyncEnds,
             DebounceFires, AutoSave, OpenNote, CloseNote
    <3> QED BY <3>1 DEF Own
  <2> QED BY <2>1, <2>2, <2>3
<1> QED BY <1>1, <1>2

(* Nothing goes from before the user's eyes, but what is copied.              *)
LEMMA ShownStep ==
  ASSUME Typed, NoDeletes, ReadCarried, Next, Whole'
  PROVE  Shown \subseteq Shown' \cup copies'
<1>0. TypeOK /\ ReadTyped /\ "reverted" \notin lapses' /\ "rewound" \notin lapses' /\ "unsaved" \notin lapses'
  BY DEF Typed, Whole, Spared
<1>1. Shown = IF Open THEN editor ELSE disk
  BY DEF Shown
<1>2. CASE Told
  <2>1. PICK n \in PeerChanges, vv \in Versions : Heeds(n, vv) /\ Broadcast(n, vv)
    BY <1>2 DEF Told
  <2>2. srv' \in Versions /\ srv'.deleted = {}
    BY <1>0, <2>1, HeedsGives, LapsesGrow DEF NoDeletes
  <2>3. /\ Open' = Open
        /\ ~Open => disk \subseteq disk' \cup copies'
        /\ Open => editor \subseteq editor' \cup copies'
    BY <1>0, <2>1, <2>2, BroadcastWrites
  <2> QED BY <1>1, <2>3, ShownNext
<1>3. CASE Here
  BY <1>0, <1>3, LocalGives DEF Here
<1>4. CASE Adoption
  <2>1. /\ Open' = Open
        /\ ~Open => disk \subseteq disk' \cup copies'
        /\ Open => editor \subseteq editor' \cup copies'
    BY <1>0, <1>4, AdoptionWrites DEF ReadCarried
  <2> QED BY <1>1, <2>1, ShownNext
<1>5. CASE Merge
  <2>1. Text(Fetched) = Fetched.ops /\ doc.ops \subseteq Fetched.ops
    <3>1. doc.deleted = {} /\ srv.deleted = {}
      BY <1>0, <1>5, LapsesGrow DEF NoDeletes
    <3>2. Text(Fetched) = Fetched.ops
      BY <1>0, <1>5, <3>1, MergeDeletesNothing
    <3> QED BY <1>0, <3>2, CaughtGives
  <2>2. sync.read \subseteq Text(Fetched)
    BY <1>5, <2>1, MergeAssigns DEF ReadCarried, Answers
  <2>3. /\ Open' = Open
        /\ ~Open => disk \subseteq disk' \cup copies'
        /\ Open => editor \subseteq editor' \cup copies'
    BY <1>0, <1>5, <2>2, MergeWrites
  <2> QED BY <1>1, <2>3, ShownNext
<1>6. CASE Quit \/ Crash
  <2>1. ~Open' /\ (disk' = Shown \/ (Crash /\ disk' = disk))
    BY <1>1, <1>6 DEF Quit, Crash, Ended, Open
  <2>2. Crash => Shown = disk
    BY <1>0, <1>1 DEF Crash
  <2> QED BY <2>1, <2>2, ShownNext
<1>7. CASE Type
  <2>1. PICK c \in OwnChanges : editor' = editor \cup {c}
    BY <1>7 DEF Type
  <2>2. c # 0
    BY DEF OwnChanges
  <2>3. Open /\ Open'
    BY <1>7, <2>1, <2>2, ShownNext DEF Type, Closed
  <2> QED BY <1>1, <2>1, <2>3, ShownNext
<1>8. CASE OpenNote \/ AutoSave
  BY <1>0, <1>1, <1>8, ShownNext, Fields, Numbering DEF OpenNote, AutoSave, Open
<1>9. CASE \/ Missed \/ Unheeded \/ Asking \/ GivesUp \/ Start \/ Drop \/ Abort \/ ReplayFails
           \/ FlushVVCache \/ Connect \/ ServePush \/ Listed \/ CleanSkip \/ HashSkip \/ ConflictCopied
           \/ RequestFails \/ SaveVVCache \/ SaveDirtyPaths \/ SyncEnds
  <2>1. UNCHANGED <<editor, disk>>
    BY <1>0, <1>9, PeerChangeGives
       DEF Missed, CatchUpFails, Unheeded, Asking, GivesUp, Start, Drop, Abort, ReplayFails, FlushVVCache, Connect,
           ServePush, Listed, CleanSkip, HashSkip, Skips, FullSync, ConflictCopied, RequestFails, SaveVVCache,
           SaveDirtyPaths, SyncEnds
  <2> QED BY <2>1 DEF Shown, Open
<1> QED BY <1>0, <1>2, <1>3, <1>4, <1>5, <1>6, <1>7, <1>8, <1>9, ByKind

LEMMA KeptStays ==
  ASSUME Typed, NoDeletes, ReadCarried, Kept, Next
  PROVE  Kept'
<1> SUFFICES ASSUME Whole' PROVE Own' \subseteq Shown' \cup copies'
  BY DEF Kept
<1>1. Whole
  BY SparedBefore DEF Whole
<1> QED BY <1>1, ShownStep, OwnStep, CopiesStep DEF Kept

KeptInv == Typed /\ NoDeletes /\ ReadCarried /\ Kept

LEMMA KeptInit == Init => NoDeletes /\ ReadCarried /\ Kept
<1> SUFFICES ASSUME Init PROVE NoDeletes /\ ReadCarried /\ Kept
  OBVIOUS
<1>1. NoDeletes
  BY Constants, EmptyWay DEF Init, NoDeletes
<1>2. ReadCarried
  BY Constants DEF Init, ReadCarried
<1>3. Kept
  BY DEF Init, Kept, Own
<1> QED BY <1>1, <1>2, <1>3

LEMMA KeptStep == KeptInv /\ [Next]_vars => KeptInv'
<1> SUFFICES ASSUME KeptInv, [Next]_vars PROVE KeptInv'
  OBVIOUS
<1>1. CASE Next
  BY <1>1, TypedStays, NoDeletesStays, ReadCarriedStays, KeptStays DEF KeptInv
<1>2. CASE UNCHANGED vars
  <2>1. Typed'
    BY <1>2, TypedStays DEF KeptInv
  <2> QED
    BY <1>2, <2>1 DEF vars, KeptInv, NoDeletes, ReadCarried, Kept, Whole, Spared, Own, Shown, Open, OnTheWay
<1> QED BY <1>1, <1>2

(* Every variable has its type, in every state.                               *)
THEOREM TypeCorrect == Spec => []TypeOK
<1>1. Typed => TypeOK
  BY DEF Typed
<1> QED BY <1>1, TypedInit, TypedStays, PTL DEF Spec

(* Text of this device is in the file, in an editor, in a conflict copy or    *)
(* in the document, unless a crash or setValue took it (sync-initial.ts,      *)
(* writeServerText and the conflict copies).                                  *)
THEOREM OwnTextSurvives == Spec => []OwnTextIsKept
<1>1. KeptInv => OwnTextIsKept
  BY DEF KeptInv, Kept, Whole, Spared, Own, OwnTextIsKept
<1>2. Init => KeptInv
  BY TypedInit, KeptInit DEF KeptInv
<1> QED BY <1>1, <1>2, KeptStep, PTL DEF Spec

---------------------------------------------------------------------------
(* What is known of the changes of others, and of versions.                   *)

(* What the sync has read is before the user's eyes.                          *)
ReadShown == sync.at \in {"planned"} \cup Asked /\ sync.read # NotSet => sync.read \subseteq Shown

LEMMA LocalShown ==
  ASSUME Typed, ReadShown, Asking \/ GivesUp
  PROVE  LocalText \subseteq Shown
<1>1. CASE Open
  BY <1>1 DEF LocalText, Local, Shown
<1>2. CASE ~Open
  <2>1. sync.at = "planned"
    BY <1>2 DEF Asking, GivesUp, FullSync
  <2> QED BY <1>2, <2>1 DEF ReadShown, LocalText, Local, Effective, Shown
<1> QED BY <1>1, <1>2

(* No sync runs while another one replays what it buffered, unless the lapse  *)
(* "overlapped" tells of it.                                                  *)
Alone == "overlapped" \notin lapses
Single == ~(replaying /\ Running)

LEMMA SyncAlive ==
  ASSUME Typed, Next, sync'.at # "idle"
  PROVE  sync.at # "idle" \/ Connect
<1>0. TypeOK /\ ReadTyped /\ sync \in Syncs /\ up \in Seq(Frames) /\ NoSync.at = "idle"
  BY Fields, Constants DEF Typed
<1>1. Listed => sync.at = "listing"
  <2>1. ASSUME Listed PROVE sync.at = "listing"
    <3>1. Head(up) = up[1] /\ 1 \in 1..Len(up) /\ Head(up).kind = "list"
      BY <1>0, <2>1, QueueFacts DEF Listed
    <3> QED BY <3>1 DEF Typed, Expected, Placed
  <2> QED BY <2>1
<1>2. Asking \/ (Listed /\ ~Open) \/ Adoption \/ Merge \/ CleanSkip \/ HashSkip \/ ConflictCopied \/ RequestFails
        \/ SaveVVCache => sync.at # "idle"
  BY <1>1 DEF Asking, FullSync, Adoption, Adopt, Readopt, Disjoint, Merge, Answers, CleanSkip, HashSkip,
              ConflictCopied, RequestFails, SaveVVCache
<1> QED BY <1>0, <1>2, SyncStep

LEMMA SingleStays ==
  ASSUME Typed, Single, Next, Alone'
  PROVE  Single'
<1>0. TypeOK /\ ReadTyped /\ NoSync.at = "idle"
  BY Constants DEF Typed
<1>1. ASSUME sync'.at # "idle", replaying' PROVE FALSE
  <2>1. ~Connect \/ ~replaying
    BY DEF Connect, Alone
  <2>2. CASE replaying
    BY <1>1, <2>1, <2>2, SyncAlive DEF Single, Running
  <2>3. CASE ~replaying
    <3>1. ~SaveDirtyPaths
      BY <1>0, <1>1 DEF SaveDirtyPaths
    <3>2. ~Replay
      BY <2>3 DEF Replay
    <3>3. CASE PeerChange
      BY <1>0, <1>1, <2>3, <3>3, PeerChangeGives
    <3> QED
      BY <1>0, <1>1, <2>3, <3>1, <3>2, <3>3
         DEF Next, Start, Drop, Abort, ReplayFails, Quit, Crash, Ended, FlushVVCache, Connect, ServePush, Listed,
             CleanSkip, HashSkip, Skips, FullSync, Adopt, ConflictCopied, Readopt, Disjoint, Merge, RequestFails,
             SaveVVCache, SyncEnds, Type, DebounceFires, AutoSave, OpenNote, CloseNote, ExternalEdit
  <2> QED BY <2>2, <2>3
<1> QED BY <1>1 DEF Single, Running

(* A change is heard, or missed, while no sync runs.                          *)
LEMMA HeardAlone ==
  ASSUME Typed, Single, Told \/ Missed
  PROVE  ~Running /\ sync' = sync
<1>0. TypeOK
  BY DEF Typed
<1>1. PICK n \in PeerChanges, vv \in Versions : Heeds(n, vv)
  BY DEF Told, Missed
<1>2. ~Running
  BY <1>1 DEF Heeds, Replay, Single
<1> QED BY <1>0, <1>1, <1>2, HeedsGives

(* While the sync is with the note nothing else writes it.                    *)
LEMMA ShownStill ==
  ASSUME Typed, Single, Next, sync'.at = sync.at, sync.at \in {"planned"} \cup Asked
  PROVE  Shown \subseteq Shown'
<1>0. TypeOK /\ ReadTyped /\ sync \in Syncs /\ Running /\ NoSync.at = "idle"
  BY Fields, Constants DEF Typed, Running, Asked
<1>1. ~Adoption /\ ~Merge /\ ~Told /\ ~Missed /\ ~Quit /\ ~Crash
  <2>1. Adoption \/ Merge => sync'.at = "ending"
    BY <1>0, AdoptionGives, MergeGives
  <2>2. ~Told /\ ~Missed
    BY <1>0, HeardAlone
  <2>3. Quit \/ Crash => sync' = NoSync
    BY DEF Quit, Crash, Ended
  <2> QED BY <1>0, <2>1, <2>2, <2>3 DEF Asked
<1>3. CASE Here
  BY <1>0, <1>3, LocalGives DEF Here
<1>4. CASE Type
  <2>1. PICK c \in OwnChanges : editor' = editor \cup {c}
    BY <1>4 DEF Type
  <2>2. c # 0
    BY DEF OwnChanges
  <2>3. Open /\ Open'
    BY <1>4, <2>1, <2>2, ShownNext DEF Type, Closed
  <2> QED BY <2>1, <2>3, ShownNext DEF Shown
<1>5. CASE OpenNote \/ AutoSave
  BY <1>0, <1>5, ShownNext, Fields, Numbering DEF OpenNote, AutoSave, Open, Shown
<1>6. CASE ~Here /\ ~Type /\ ~OpenNote /\ ~AutoSave
  <2>1. UNCHANGED <<editor, disk>>
    BY <1>0, <1>1, <1>6, ByKind, PeerChangeGives
       DEF Unheeded, Asking, GivesUp, Start, Drop, Abort, ReplayFails, FlushVVCache, Connect, ServePush, Listed,
           CleanSkip, HashSkip, Skips, FullSync, ConflictCopied, RequestFails, SaveVVCache, SaveDirtyPaths, SyncEnds
  <2> QED BY <2>1 DEF Shown, Open
<1> QED BY <1>3, <1>4, <1>5, <1>6

LEMMA ReadShownStays ==
  ASSUME Typed, Single, ReadShown, Next
  PROVE  ReadShown'
<1>0. TypeOK /\ ReadTyped /\ sync \in Syncs /\ NoSync.at = "idle" /\ NoSync.read = NotSet
  BY Fields, Constants DEF Typed
<1>1. CASE sync' = sync \/ sync' = [sync EXCEPT !.lost = TRUE]
  <2>1. sync'.at = sync.at /\ sync'.read = sync.read
    BY <1>0, <1>1 DEF Syncs
  <2>2. sync.at \in {"planned"} \cup Asked => Shown \subseteq Shown'
    BY <2>1, ShownStill
  <2> QED BY <2>1, <2>2 DEF ReadShown
<1>2. CASE Asking
  <2>1. sync'.read = LocalText /\ UNCHANGED text
    BY <1>0, <1>2, AskingGives
  <2>2. Shown' = Shown
    BY <2>1 DEF Shown, Open
  <2> QED BY <1>2, <2>1, <2>2, LocalShown DEF ReadShown
<1>3. CASE Listed /\ ~Open /\ sync'.read \in {NotSet, disk}
  <2>1. Shown' = disk
    BY <1>3 DEF Listed, Shown, Open
  <2> QED BY <1>3, <2>1 DEF ReadShown
<1>4. CASE ConflictCopied /\ sync'.read = sync.read
  <2>1. Shown' = Shown /\ sync.at = "asked"
    BY <1>4 DEF ConflictCopied, Shown, Open, Answers
  <2> QED BY <1>4, <2>1 DEF ReadShown, Asked
<1>5. CASE sync'.at \notin {"planned", "asked", "adopting", "again"}
  BY <1>5 DEF ReadShown, Asked
<1> QED BY <1>0, <1>1, <1>2, <1>3, <1>4, <1>5, SyncStep

(* The file of the document is at most the document.                          *)
LoroBehind == loro.ops \subseteq doc.ops

(* It is written with the document, or left while that grows.                 *)
LEMMA LoroStep ==
  ASSUME Typed, Next
  PROVE  loro' = doc' \/ (loro' = loro /\ doc.ops \subseteq doc'.ops)
<1>0. TypeOK /\ ReadTyped
  BY DEF Typed
<1>1. CASE Told \/ Missed
  <2>1. PICK n \in PeerChanges, vv \in Versions : Heeds(n, vv) /\ (Broadcast(n, vv) \/ CatchUpFails(n, vv))
    BY <1>1 DEF Told, Missed
  <2>2. srv' \in Versions
    BY <1>0, <2>1, HeedsGives
  <2>3. CASE Broadcast(n, vv)
    BY <1>0, <2>1, <2>2, <2>3, BroadcastGives
  <2>4. CASE CatchUpFails(n, vv)
    <3>1. loro' = loro /\ doc'.ops = Taken(n)
      BY <1>0, <2>4, MissGives
    <3> QED BY <3>1 DEF Taken
  <2> QED BY <2>1, <2>3, <2>4
<1>2. CASE Here
  <2>1. Untouched \/ loro' = doc'
    BY <1>0, <1>2, LocalGives DEF Here, Entering
  <2> QED BY <2>1 DEF Untouched
<1>3. CASE Adoption \/ Merge
  BY <1>0, <1>3, AdoptionGives, MergeGives
<1>4. CASE Asking \/ GivesUp
  BY <1>0, <1>4, AskingGives, GivesUpGives
<1>5. CASE Start \/ ConflictCopied
  BY <1>5 DEF Start, ConflictCopied
<1>6. CASE \/ Unheeded \/ Drop \/ Abort \/ ReplayFails \/ Quit \/ Crash \/ FlushVVCache \/ Connect \/ ServePush
           \/ (Listed /\ ~Open) \/ CleanSkip \/ HashSkip \/ RequestFails \/ SaveVVCache \/ SaveDirtyPaths
           \/ SyncEnds \/ Type \/ AutoSave \/ OpenNote
  <2>1. UNCHANGED <<doc, loro>>
    BY <1>0, <1>6, PeerChangeGives
       DEF Unheeded, Drop, Abort, ReplayFails, Quit, Crash, FlushVVCache, Connect, ServePush, Listed, CleanSkip,
           HashSkip, Skips, RequestFails, SaveVVCache, SaveDirtyPaths, SyncEnds, Type, AutoSave, OpenNote
  <2> QED BY <2>1
<1> QED BY <1>0, <1>1, <1>2, <1>3, <1>4, <1>5, <1>6, ByKind

LEMMA LoroBehindStays ==
  ASSUME Typed, LoroBehind, Next
  PROVE  LoroBehind'
BY LoroStep DEF LoroBehind

(* The server only learns.                                                    *)
LEMMA SrvStep ==
  ASSUME Typed, Next
  PROVE  /\ srv.ops \subseteq srv'.ops /\ srv' \in Versions
         /\ ~PeerChange /\ ~ServePush => srv' = srv /\ peers' = peers
         /\ ServePush => peers' = peers
<1>0. TypeOK /\ ReadTyped /\ srv \in Versions
  BY Fields DEF Typed
<1>1. CASE PeerChange
  BY <1>0, <1>1, PeerChangeGives DEF ServePush
<1>2. CASE ServePush
  BY <1>0, <1>2, ServePushGives
<1>3. CASE ~PeerChange /\ ~ServePush
  <2>1. UNCHANGED server
    BY <1>3 DEF Next, Start, Drop, Abort, ReplayFails, Quit, Crash, Ended, FlushVVCache, Connect, Listed, CleanSkip,
         HashSkip, Skips, FullSync, Adopt, ConflictCopied, Readopt, Disjoint, Merge, RequestFails, SaveVVCache, SaveDirtyPaths, Replay,
         SyncEnds, Type, DebounceFires, AutoSave, OpenNote, CloseNote, ExternalEdit
  <2> QED BY <1>0, <1>3, <2>1
<1> QED BY <1>0, <1>1, <1>2, <1>3

(* The changes that wait to be heard.                                         *)
Waiting == OnTheWay(buffered) \cup OnTheWay(replay)

LEMMA WaitingStep ==
  ASSUME Typed, Next
  PROVE  \A b \in Waiting' : b \in Waiting \/ (PeerChange /\ b.change = peers' /\ b.vv = srv')
<1>0. TypeOK /\ ReadTyped /\ buffered \in Seq(Queued) /\ replay \in Seq(Queued)
  BY Fields DEF Typed
<1>1. Waiting' = OnTheWay(buffered') \cup OnTheWay(replay')
  BY DEF Waiting, OnTheWay
<1>2. CASE PeerChange
  <2>1. replay' = replay
    BY <1>0, <1>2, PeerChangeGives
  <2>2. CASE buffered' = buffered
    BY <1>1, <2>1, <2>2 DEF Waiting
  <2>3. ASSUME NEW c \in Queued, c.change = peers', c.vv = srv', buffered' = Append(buffered, c)
        PROVE  \A b \in Waiting' : b \in Waiting \/ (PeerChange /\ b.change = peers' /\ b.vv = srv')
    <3>1. OnTheWay(buffered') = OnTheWay(buffered) \cup {c}
      BY <1>0, <2>3, WayFacts
    <3> QED BY <1>1, <1>2, <2>1, <2>3, <3>1 DEF Waiting
  <2> QED BY <1>0, <1>2, <2>2, <2>3, PeerChangeGives
<1>3. CASE Replay
  <2>1. /\ buffered' = buffered /\ replay # <<>>
        /\ replay' = Tail(replay) \/ replay' = <<>>
    BY <1>3 DEF Replay
  <2>2. OnTheWay(replay') \subseteq OnTheWay(replay)
    BY <1>0, <2>1, WayFacts, EmptyWay
  <2> QED BY <1>1, <2>1, <2>2 DEF Waiting
<1>4. CASE ~PeerChange /\ ~Replay
  <2>1. /\ buffered' = buffered \/ buffered' = <<>>
        /\ replay' = replay \/ replay' = <<>> \/ replay' = buffered
    BY <1>4 DEF Next, Start, Drop, SyncFails, Abort, ReplayFails, Quit, Crash, Ended, FlushVVCache, Connect, ServePush,
         Listed, CleanSkip, HashSkip, Skips, FullSync, Adopt, ConflictCopied, Readopt, Disjoint, Merge, RequestFails,
         SaveVVCache, SaveDirtyPaths, SyncEnds, Type, DebounceFires, AutoSave, OpenNote, CloseNote, ExternalEdit
  <2> QED BY <1>1, <2>1, EmptyWay DEF Waiting
<1> QED BY <1>2, <1>3, <1>4

(* The next change to be heard is one of them, or a new one.                  *)
LEMMA HeedsWaiting ==
  ASSUME Typed, NEW n \in PeerChanges, NEW vv \in Versions, Heeds(n, vv)
  PROVE  \/ PeerChange /\ n = peers' /\ vv = srv'
         \/ Replay /\ \E b \in Waiting : n = b.change /\ vv = b.vv
<1>1. CASE Replay /\ replay # <<>> /\ n = Head(replay).change /\ vv = Head(replay).vv
  <2>1. replay \in Seq(Queued)
    BY Fields DEF Typed
  <2>2. Head(replay) \in OnTheWay(replay)
    BY <1>1, <2>1, WayFacts
  <2> QED BY <1>1, <2>2 DEF Waiting
<1> QED BY <1>1 DEF Heeds

(* The changes of the others that have been made are known to the server;     *)
(* nobody knows any other.                                                    *)
PeersKnown ==
  /\ 1..peers \subseteq srv.ops
  /\ (srv.ops \cup doc.ops \cup disk \cup editor) \cap PeerChanges \subseteq 1..peers
  /\ \A f \in OnTheWay(up) : f.add.ops \cap PeerChanges \subseteq 1..peers
  /\ \A b \in Waiting : b.change \in 1..peers

(* Where the contents of the note come from.                                  *)
LEMMA NoteStep ==
  ASSUME Typed, ReadShown, LoroBehind, Next
  PROVE  \/ (doc'.ops \cup disk' \cup editor') \cap PeerChanges \subseteq doc.ops \cup disk \cup editor \cup srv.ops
         \/ \E n \in PeerChanges :
              /\ n = peers' \/ \E b \in Waiting : n = b.change
              /\ (doc'.ops \cup disk' \cup editor') \cap PeerChanges
                   \subseteq doc.ops \cup disk \cup editor \cup srv.ops \cup {n}
<1>0. TypeOK /\ ReadTyped /\ Closed \cap PeerChanges = {} /\ PeerChanges \cap OwnChanges = {}
      /\ Shown \subseteq disk \cup editor
  BY Numbering DEF Typed, Shown
<1>1. CASE Told \/ Missed
  <2>1. PICK n \in PeerChanges, vv \in Versions : Heeds(n, vv) /\ (Broadcast(n, vv) \/ CatchUpFails(n, vv))
    BY <1>1 DEF Told, Missed
  <2>2. /\ n = peers' \/ \E b \in Waiting : n = b.change
        /\ srv' \in Versions
        /\ srv' = srv \/ srv'.ops = srv.ops \cup {n}
    <3>1. CASE PeerChange /\ n = peers'
      BY <1>0, <2>1, <3>1, HeedsGives, PeerChangeGives
    <3>2. CASE Replay /\ \E b \in Waiting : n = b.change
      BY <1>0, <2>1, <3>2, HeedsGives DEF Replay
    <3> QED BY <2>1, <3>1, <3>2, HeedsWaiting
  <2>3. /\ (disk' \cup editor') \subseteq disk \cup editor \cup doc'.ops
        /\ doc'.ops \subseteq Taken(n) \cup srv'.ops
    <3>1. CASE Broadcast(n, vv)
      <4>1. doc'.ops \subseteq Taken(n) \cup srv'.ops
        BY <1>0, <2>2, <3>1, BroadcastGives
      <4>2. (disk' \cup editor') \subseteq disk \cup editor \cup doc'.ops
        BY <1>0, <2>2, <3>1, BroadcastWrites
      <4> QED BY <4>1, <4>2
    <3>2. CASE CatchUpFails(n, vv)
      <4>1. UNCHANGED <<disk, editor>>
        BY <3>2 DEF CatchUpFails
      <4> QED BY <1>0, <3>2, <4>1, MissGives
    <3> QED BY <2>1, <3>1, <3>2
  <2>4. doc'.ops \subseteq doc.ops \cup editor \cup srv.ops \cup {n}
    BY <2>2, <2>3 DEF Taken
  <2> QED BY <2>2, <2>3, <2>4
<1>2. CASE Here
  <2>1. /\ Untouched \/ Entering(Shown')
        /\ Shown' \in Texts /\ Shown' \cap PeerChanges \subseteq Shown /\ (disk' = disk \/ ~Open')
    BY <1>0, <1>2, LocalGives DEF Here
  <2>2. doc'.ops \subseteq doc.ops \cup Shown'
    <3>1. CASE Untouched
      BY <3>1 DEF Untouched
    <3>2. CASE Entering(Shown')
      <4>1. PICK c \in Texts : c = Shown'
        BY <2>1
      <4>2. Entering(c)
        BY <3>2, <4>1
      <4> QED BY <1>0, <4>1, <4>2, EnteringGives
    <3> QED BY <2>1, <3>1, <3>2
  <2>3. (disk' \cup editor') \cap PeerChanges \subseteq disk \cup editor
    BY <1>0, <2>1, ShownNext
  <2> QED BY <1>0, <2>1, <2>2, <2>3
<1>3. CASE Asking
  <2>1. UNCHANGED text /\ doc'.ops \subseteq doc.ops \cup LocalText
    BY <1>0, <1>3, AskingGives
  <2> QED BY <1>0, <1>3, <2>1, LocalShown
<1>10. CASE GivesUp
  <2>1. UNCHANGED text /\ doc'.ops \subseteq doc.ops \cup LocalText
    BY <1>0, <1>10, GivesUpGives
  <2> QED BY <1>0, <1>10, <2>1, LocalShown
<1>4. CASE Adoption
  BY <1>0, <1>4, AdoptionGives, AdoptionWrites
<1>5. CASE Merge
  <2>1. (disk' \cup editor') \subseteq disk \cup editor \cup Fetched.ops /\ doc'.ops = Fetched.ops
    BY <1>0, <1>5, MergeWrites, MergeGives
  <2>2. Fetched.ops \subseteq doc.ops \cup editor \cup srv.ops
    BY <1>0, CaughtGives
  <2> QED BY <2>1, <2>2
<1>6. CASE Start \/ ConflictCopied
  <2>1. UNCHANGED <<disk, editor>> /\ (doc' = loro \/ doc' = Nothing)
    BY <1>6 DEF Start, ConflictCopied
  <2> QED BY <2>1, Constants DEF LoroBehind
<1>7. CASE Quit \/ Crash \/ AutoSave \/ OpenNote
  <2>1. doc' = doc /\ disk' \in {disk, editor} /\ editor' \in {editor, disk, Closed}
    BY <1>7 DEF Quit, Crash, Ended, AutoSave, OpenNote
  <2> QED BY <1>0, <2>1
<1>8. CASE Type
  <2>1. PICK c \in OwnChanges : editor' = editor \cup {c}
    BY <1>8 DEF Type
  <2>2. doc' = doc /\ disk' = disk
    BY <1>8 DEF Type
  <2> QED BY <1>0, <2>1, <2>2
<1>9. CASE \/ Unheeded \/ Drop \/ Abort \/ ReplayFails \/ FlushVVCache \/ Connect \/ ServePush
           \/ (Listed /\ ~Open) \/ CleanSkip \/ HashSkip \/ RequestFails \/ SaveVVCache \/ SaveDirtyPaths
           \/ SyncEnds
  <2>1. UNCHANGED <<doc, disk, editor>>
    BY <1>0, <1>9, PeerChangeGives
       DEF Unheeded, Drop, Abort, ReplayFails, FlushVVCache, Connect, ServePush, Listed, CleanSkip, HashSkip, Skips,
           RequestFails, SaveVVCache, SaveDirtyPaths, SyncEnds
  <2> QED BY <2>1
<1> QED BY <1>0, <1>1, <1>2, <1>3, <1>4, <1>5, <1>6, <1>7, <1>8, <1>9, <1>10, ByKind

LEMMA PeersKnownStays ==
  ASSUME Typed, ReadShown, LoroBehind, PeersKnown, Next
  PROVE  PeersKnown'
<1>0. /\ TypeOK /\ ReadTyped /\ peers \in PeerChanges /\ up \in Seq(Frames)
      /\ peers \in Nat /\ Nothing.ops = {}
  BY Fields, Constants DEF Typed, PeerChanges
<1>1. peers' \in Nat /\ 1..peers \subseteq 1..peers' /\ (peers' = peers \/ PeerChange)
  <2>1. CASE PeerChange
    BY <1>0, <2>1, PeerChangeGives
  <2>2. CASE ~PeerChange
    BY <1>0, <2>2, SrvStep
  <2> QED BY <2>1, <2>2
<1>2. 1..peers' \subseteq srv'.ops /\ srv'.ops \cap PeerChanges \subseteq 1..peers'
  <2>1. CASE PeerChange
    <3>1. srv'.ops = srv.ops \cup {peers'} /\ peers' = peers + 1
      BY <1>0, <2>1, PeerChangeGives
    <3>2. 1..peers' = 1..peers \cup {peers'}
      BY <1>0, <3>1
    <3> QED BY <3>1, <3>2 DEF PeersKnown
  <2>2. CASE ServePush
    <3>1. /\ up # <<>> /\ srv.ops \subseteq srv'.ops /\ srv'.ops \subseteq srv.ops \cup Head(up).add.ops
          /\ peers' = peers
      BY <1>0, <2>2, ServePushGives
    <3>2. Head(up) \in OnTheWay(up)
      BY <1>0, <3>1, WayFacts
    <3> QED BY <3>1, <3>2 DEF PeersKnown
  <2>3. CASE ~PeerChange /\ ~ServePush
    BY <2>3, SrvStep DEF PeersKnown
  <2> QED BY <2>1, <2>2, <2>3
<1>3. (doc'.ops \cup disk' \cup editor') \cap PeerChanges \subseteq 1..peers'
  <2>1. CASE (doc'.ops \cup disk' \cup editor') \cap PeerChanges \subseteq doc.ops \cup disk \cup editor \cup srv.ops
    BY <1>1, <2>1 DEF PeersKnown
  <2>2. ASSUME NEW n \in PeerChanges, n = peers' \/ \E b \in Waiting : n = b.change,
               (doc'.ops \cup disk' \cup editor') \cap PeerChanges
                 \subseteq doc.ops \cup disk \cup editor \cup srv.ops \cup {n}
        PROVE  (doc'.ops \cup disk' \cup editor') \cap PeerChanges \subseteq 1..peers'
    <3>1. n \in 1..peers'
      <4>1. CASE n = peers'
        BY <1>1, <4>1 DEF PeerChanges
      <4>2. CASE \E b \in Waiting : n = b.change
        BY <1>1, <4>2 DEF PeersKnown
      <4> QED BY <2>2, <4>1, <4>2
    <3> QED BY <1>1, <2>2, <3>1 DEF PeersKnown
  <2> QED BY <2>1, <2>2, NoteStep
<1>4. \A f \in OnTheWay(up') : f.add.ops \cap PeerChanges \subseteq 1..peers'
  <2>1. \A f \in OnTheWay(up) : f.add.ops \cap PeerChanges \subseteq 1..peers'
    BY <1>1 DEF PeersKnown
  <2>2. \A f \in OnTheWay(up') : f \in OnTheWay(up) \/ f.add = Nothing \/ f.add.ops \subseteq doc'.ops
    BY WayStep DEF Carries
  <2> QED BY <1>0, <1>3, <2>1, <2>2
<1>5. \A b \in Waiting' : b.change \in 1..peers'
  <2>1. ASSUME NEW b \in Waiting', PeerChange, b.change = peers' PROVE b.change \in 1..peers'
    <3>1. peers' \in PeerChanges
      BY <1>0, <2>1, PeerChangeGives
    <3> QED BY <1>1, <2>1, <3>1 DEF PeerChanges
  <2> QED BY <1>1, <2>1, WaitingStep DEF PeersKnown
<1> QED BY <1>2, <1>3, <1>4, <1>5 DEF PeersKnown

---------------------------------------------------------------------------
(* The caches.                                                                *)

LEMMA CachedStep ==
  ASSUME Typed, Next
  PROVE  /\ sync'.cached \in {sync.cached, cache, NoCache}
         /\ sync'.listed \in {sync.listed, Nothing, srv}
<1>0. TypeOK /\ ReadTyped
  BY DEF Typed
<1>1. CASE Asking
  BY <1>0, <1>1, AskingGives
<1>2. CASE Adoption \/ Merge
  BY <1>0, <1>2, AdoptionGives, MergeGives
<1>3. CASE sync' = NoSync
  BY <1>3, Constants
<1>4. CASE sync' = [sync EXCEPT !.lost = TRUE]
  BY <1>0, <1>4, Fields DEF Syncs
<1>5. CASE ~Asking /\ ~Adoption /\ ~Merge /\ sync' # NoSync /\ sync' # [sync EXCEPT !.lost = TRUE]
  BY <1>5, SyncStep
<1> QED BY <1>1, <1>2, <1>3, <1>4, <1>5

(* Where the entries of the caches come from.                                 *)
LEMMA EntriesStep ==
  ASSUME Typed, Next
  PROVE  \A e \in {cache', stored', sync'.cached} :
           \/ e \in {cache, stored, sync.cached, NoCache}
           \/ SaveVVCache /\ e = [vv |-> lastVV, hash |-> sync.hash]
           \/ Told /\ e = cache'
<1>0. TypeOK /\ ReadTyped
  BY DEF Typed
<1>1. sync'.cached \in {sync.cached, cache, NoCache}
  BY CachedStep
<1>2. CASE Told
  <2>1. PICK n \in PeerChanges, vv \in Versions : Heeds(n, vv) /\ Broadcast(n, vv)
    BY <1>2 DEF Told
  <2>2. stored' = stored
    BY <1>0, <2>1, HeedsGives, BroadcastGives
  <2> QED BY <1>1, <1>2, <2>2
<1>3. CASE SaveVVCache
  <2>1. /\ cache' = NoCache \/ cache' = [vv |-> lastVV, hash |-> sync.hash]
        /\ stored' = cache'
    BY <1>3 DEF SaveVVCache, StoreVVCache
  <2> QED BY <1>1, <1>3, <2>1
<1>4. CASE Start \/ Quit \/ Crash \/ FlushVVCache
  <2>1. cache' \in {cache, stored} /\ stored' \in {cache, stored, NoCache}
    BY <1>4 DEF Start, LoadVVCache, Quit, Crash, Torn, FlushVVCache
  <2> QED BY <1>1, <2>1
<1>5. CASE ~Told /\ ~SaveVVCache /\ ~Start /\ ~Quit /\ ~Crash /\ ~FlushVVCache
  <2>1. UNCHANGED <<cache, stored>>
    BY <1>0, <1>5, ByKind, PeerChangeGives
       DEF Missed, CatchUpFails, Unheeded, Here, Asking, GivesUp, Adoption, Drop, Abort, ReplayFails, Connect,
           ServePush, Listed, CleanSkip, HashSkip, Skips, FullSync, Adopt, ConflictCopied, Readopt, Disjoint, Merge,
           RequestFails, SaveDirtyPaths, SyncEnds, Type, DebounceFires, AutoSave, OpenNote, CloseNote, ExternalEdit
  <2> QED BY <1>1, <2>1
<1> QED BY <1>2, <1>3, <1>4, <1>5

(* Where the version vectors come from.                                       *)
Vectors == {cache.vv, stored.vv, lastVV, sync.cached.vv}

LEMMA LastStep ==
  ASSUME Typed, Next
  PROVE  \/ lastVV' = lastVV
         \/ lastVV' = Nothing /\ Start
         \/ lastVV' = sync.cached.vv /\ (CleanSkip \/ HashSkip)
         \/ lastVV' = srv /\ (Adoption \/ Merge)
         \/ Told \/ Missed
<1>0. TypeOK /\ ReadTyped
  BY DEF Typed
<1>1. CASE Adoption \/ Merge
  BY <1>0, <1>1, AdoptionGives, MergeGives
<1>2. CASE CleanSkip \/ HashSkip
  BY <1>2 DEF CleanSkip, HashSkip, Skips, Clean, Unchanged
<1>3. CASE Start
  BY <1>3 DEF Start
<1>4. CASE Unheeded \/ Asking \/ GivesUp
  BY <1>0, <1>4, PeerChangeGives, AskingGives, GivesUpGives DEF Unheeded
<1>5. CASE \/ Here \/ Drop \/ Abort \/ ReplayFails \/ Quit \/ Crash \/ FlushVVCache \/ Connect \/ ServePush
           \/ (Listed /\ ~Open) \/ ConflictCopied \/ RequestFails \/ SaveVVCache \/ SaveDirtyPaths \/ SyncEnds
           \/ Type \/ AutoSave \/ OpenNote
  <2>1. lastVV' = lastVV
    BY <1>5 DEF Here, Drop, Abort, ReplayFails, Quit, Crash, FlushVVCache, Connect, ServePush, Listed, ConflictCopied,
         RequestFails, SaveVVCache, SaveDirtyPaths, SyncEnds, Type, DebounceFires, AutoSave, OpenNote, CloseNote,
         ExternalEdit
  <2> QED BY <2>1
<1> QED BY <1>0, <1>1, <1>2, <1>3, <1>4, <1>5, ByKind

(* The version vectors of broadcasts.                                         *)
LEMMA ToldVector ==
  ASSUME Typed, Told \/ Missed
  PROVE  /\ lastVV' = srv' \/ \E b \in Waiting : lastVV' = b.vv
         /\ Told => cache'.vv = lastVV' /\ lastVV'.ops \subseteq doc'.ops /\ loro' = doc' /\ ~fresh'
<1>0. TypeOK
  BY DEF Typed
<1>1. ASSUME NEW n \in PeerChanges, NEW vv \in Versions, Heeds(n, vv), Broadcast(n, vv)
      PROVE  /\ lastVV' = srv' \/ \E b \in Waiting : lastVV' = b.vv
             /\ cache'.vv = lastVV' /\ lastVV'.ops \subseteq doc'.ops /\ loro' = doc' /\ ~fresh'
  <2>1. /\ doc' \in Versions /\ lastVV' \in Versions /\ loro' = doc' /\ ~fresh' /\ Covers(doc', lastVV')
        /\ cache' = [vv |-> lastVV', hash |-> Text(doc')] /\ (lastVV' = vv \/ lastVV' = srv')
    BY <1>0, <1>1, HeedsGives, BroadcastGives
  <2>2. lastVV'.ops \subseteq doc'.ops
    BY <2>1, CoverFacts
  <2> QED BY <1>1, <2>1, <2>2, HeedsWaiting
<1>2. ASSUME NEW n \in PeerChanges, NEW vv \in Versions, Heeds(n, vv), CatchUpFails(n, vv)
      PROVE  lastVV' = srv' \/ \E b \in Waiting : lastVV' = b.vv
  <2>1. lastVV' = vv
    BY <1>0, <1>2, MissGives
  <2> QED BY <1>2, <2>1, HeedsWaiting
<1>3. CASE Told
  BY <1>1, <1>3 DEF Told
<1>4. CASE ~Told /\ Missed
  BY <1>2, <1>4 DEF Missed
<1> QED BY <1>3, <1>4

LEMMA VectorsStep ==
  ASSUME Typed, Next
  PROVE  \A v \in Vectors' :
           \/ v \in Vectors \/ v = Nothing \/ v = srv
           \/ (Told \/ Missed) /\ v = lastVV'
<1>1. ASSUME NEW e \in {cache', stored', sync'.cached}
      PROVE  e.vv \in Vectors \/ e.vv = Nothing \/ (Told /\ e.vv = lastVV')
  <2>1. Told => cache'.vv = lastVV'
    BY ToldVector
  <2> QED BY <2>1, EntriesStep, Constants DEF Vectors
<1>2. Vectors' = {cache'.vv, stored'.vv, lastVV', sync'.cached.vv}
  BY DEF Vectors
<1>3. lastVV' \in Vectors \/ lastVV' = Nothing \/ lastVV' = srv \/ Told \/ Missed
  BY LastStep DEF Vectors
<1> QED BY <1>1, <1>2, <1>3

(* No cache is ahead of the server.                                           *)
Heard ==
  /\ \A v \in Vectors : v.ops \subseteq srv.ops
  /\ sync.listed.ops \subseteq srv.ops
  /\ \A b \in Waiting : b.vv.ops \subseteq srv.ops

LEMMA HeardStays ==
  ASSUME Typed, Heard, Next
  PROVE  Heard'
<1>0. TypeOK /\ srv.ops \subseteq srv'.ops /\ Nothing.ops = {}
  BY SrvStep, Constants DEF Typed
<1>1. ASSUME NEW v \in Vectors' PROVE v.ops \subseteq srv'.ops
  <2>1. CASE (Told \/ Missed) /\ v = lastVV'
    BY <1>0, <2>1, ToldVector DEF Heard
  <2> QED BY <1>0, <1>1, <2>1, VectorsStep DEF Heard
<1>2. sync'.listed.ops \subseteq srv'.ops
  BY <1>0, CachedStep DEF Heard
<1>3. \A b \in Waiting' : b.vv.ops \subseteq srv'.ops
  BY <1>0, WaitingStep DEF Heard
<1> QED BY <1>1, <1>2, <1>3 DEF Heard

---------------------------------------------------------------------------
(* The queues.                                                                *)

(* A request carries no text.                                                 *)
Bare == \A f \in OnTheWay(up) : f.kind \in {"list", "ask"} => f.add.ops = {}

LEMMA BareStays ==
  ASSUME Typed, Bare, Next
  PROVE  Bare'
<1>1. Nothing.ops = {}
  BY Constants
<1>2. ASSUME NEW f \in OnTheWay(up'), f.kind \in {"list", "ask"} PROVE f.add.ops = {}
  BY <1>1, <1>2, WayStep DEF Bare, Carries
<1> QED BY <1>2 DEF Bare, OnTheWay

---------------------------------------------------------------------------
(* Regular runs: nothing failed, nothing was lost in a crash, no text was     *)
(* taken for another, and no replay met a sync.                               *)
Regular == Spared({"failed", "unsaved", "reverted", "doubled", "overlapped"})

LEMMA RegularFacts ==
  ASSUME Typed, NoDeletes, Next, Regular'
  PROVE  /\ Regular
         /\ "failed" \notin lapses' /\ "unsaved" \notin lapses' /\ "reverted" \notin lapses' /\ "doubled" \notin lapses'
         /\ Alone'
         /\ doc.deleted = {} /\ loro.deleted = {} /\ srv.deleted = {} /\ sync.listed.deleted = {}
         /\ doc'.deleted = {} /\ loro'.deleted = {} /\ srv'.deleted = {}
         /\ Text(doc) = doc.ops /\ Text(srv) = srv.ops /\ Text(doc') = doc'.ops
<1>0. TypeOK /\ TypeOK'
  BY TypedStays DEF Typed
<1>1. Regular
  BY SparedBefore DEF Regular
<1>2. /\ "failed" \notin lapses' /\ "unsaved" \notin lapses' /\ "reverted" \notin lapses' /\ "doubled" \notin lapses'
      /\ Alone'
  BY DEF Regular, Spared, Alone
<1>3. doc.deleted = {} /\ loro.deleted = {} /\ srv.deleted = {} /\ sync.listed.deleted = {}
  BY <1>1 DEF NoDeletes, Regular, Spared
<1>4. doc'.deleted = {} /\ loro'.deleted = {} /\ srv'.deleted = {}
  BY <1>2, NoDeletesStays DEF NoDeletes
<1>5. doc \in Versions /\ srv \in Versions /\ doc' \in Versions
  BY <1>0, TypedStays, Fields, HistoriesStay DEF Typed, HistoriesTyped
<1>6. Text(doc) = doc.ops /\ Text(srv) = srv.ops /\ Text(doc') = doc'.ops
  BY <1>3, <1>4, <1>5, VersionFacts
<1> QED BY <1>1, <1>2, <1>3, <1>4, <1>6

(* Only a text that enters an empty document begins a history.                *)
LEMMA FreshStep ==
  ASSUME Typed, Next
  PROVE  fresh' => fresh \/ (Here /\ Entering(Shown') /\ doc.ops = {})
<1>0. TypeOK /\ ReadTyped
  BY DEF Typed
<1>1. CASE Told \/ Missed
  <2>1. PICK n \in PeerChanges, vv \in Versions : Heeds(n, vv) /\ (Broadcast(n, vv) \/ CatchUpFails(n, vv))
    BY <1>1 DEF Told, Missed
  <2> QED BY <1>0, <2>1, HeedsGives, BroadcastGives, MissGives
<1>2. CASE Here
  <2>1. PICK c \in Texts : c = Shown' /\ (Untouched \/ Entering(c))
    BY <1>0, <1>2, LocalGives DEF Here
  <2>2. CASE Untouched
    BY <2>2 DEF Untouched
  <2>3. CASE Entering(c)
    BY <1>0, <1>2, <2>1, <2>3, EnteringGives
  <2> QED BY <2>1, <2>2, <2>3
<1>3. CASE Adoption \/ Merge
  BY <1>0, <1>3, AdoptionGives, MergeGives
<1>4. CASE ConflictCopied
  BY <1>4 DEF ConflictCopied
<1>5. CASE ~Told /\ ~Missed /\ ~Here /\ ~Adoption /\ ~Merge /\ ~ConflictCopied
  <2>1. fresh' = fresh
    BY <1>0, <1>5, ByKind, PeerChangeGives, AskingGives, GivesUpGives
       DEF Unheeded, Start, Drop, Abort, ReplayFails, Quit, Crash, FlushVVCache, Connect, ServePush, Listed,
           CleanSkip, HashSkip, Skips, RequestFails, SaveVVCache, SaveDirtyPaths, SyncEnds, Type, AutoSave, OpenNote
  <2> QED BY <2>1
<1> QED BY <1>1, <1>2, <1>3, <1>4, <1>5

(* A text that enters the document while nothing can be sent: nothing is on   *)
(* the way.                                                                   *)
LEMMA EnteringSends ==
  ASSUME TypeOK, NEW c \in Texts, Entering(c)
  PROVE  /\ ~Online => up = <<>> /\ up' = <<>>
         /\ Online /\ (fresh \/ doc.ops = {}) /\ doc.deleted = {} /\ "reverted" \notin lapses' => "doubled" \in lapses'
<1>0. doc \in Versions /\ Synced(doc, c) \in Versions /\ (up # <<>> => Online)
  BY Fields, SyncedFacts
<1>1. ~Online => up = <<>> /\ up' = <<>>
  BY <1>0, SentGives DEF Entering
<1>2. ASSUME Online, fresh \/ doc.ops = {}, doc.deleted = {}, "reverted" \notin lapses'
      PROVE  "doubled" \in lapses'
  <2>1. Synced(doc, c) # doc /\ Synced(doc, c).deleted = {}
    <3>1. doc'.deleted = {}
      BY <1>2, EnteringGives
    <3> QED BY <3>1 DEF Entering
  <2>2. Synced(doc, c).ops # doc.ops
    BY <1>0, <1>2, <2>1, VersionFacts
  <2>3. Begins(doc, Synced(doc, c))
    BY <1>2, <2>2 DEF Begins
  <2> QED BY <1>2, <2>3 DEF Entering, Doubled
<1> QED BY <1>1, <1>2

(* After a conflict the sync waits for the second answer only.                *)
LEMMA AgainStep ==
  ASSUME Typed, Single, Next, sync.at = "again", "failed" \notin lapses'
  PROVE  \/ sync' = sync /\ (Here \/ ServePush)
         \/ sync' = sync /\ UNCHANGED <<up, doc>>
         \/ Readopt
         \/ sync' = NoSync /\ up' = <<>>
<1>0. TypeOK /\ ReadTyped /\ Expected /\ Running /\ Online /\ up \in Seq(Frames)
  BY Fields DEF Typed, Running, Online
<1>1. ~Listed
  <2>1. ASSUME Listed PROVE FALSE
    <3>1. up # <<>> /\ up[1].kind = "list" /\ 1 \in 1..Len(up)
      BY <1>0, <2>1, QueueFacts DEF Listed
    <3> QED BY <1>0, <3>1 DEF Expected, Placed
  <2> QED BY <2>1
<1>2. CASE Here
  <2>1. sync' = sync
    BY <1>2 DEF Here, DebounceFires, CloseNote, ExternalEdit
  <2> QED BY <1>2, <2>1
<1>3. CASE Unheeded
  BY <1>0, <1>3, PeerChangeGives DEF Unheeded
<1>4. CASE Drop \/ Quit \/ Crash
  BY <1>4 DEF Drop, Waits, SyncFails, Quit, Crash, Ended
<1>5. CASE ServePush
  BY <1>5 DEF ServePush
<1>6. CASE FlushVVCache \/ Type \/ AutoSave \/ OpenNote \/ ReplayFails \/ SyncEnds
  BY <1>6 DEF FlushVVCache, Type, AutoSave, OpenNote, ReplayFails, SyncEnds
<1>7. ~Start /\ ~Connect
  BY <1>0 DEF Start, Connect, Online
<1>8. /\ ~CleanSkip /\ ~HashSkip /\ ~FullSync /\ ~Adopt /\ ~ConflictCopied /\ ~Disjoint /\ ~Merge /\ ~SaveVVCache
      /\ ~SaveDirtyPaths /\ ~Abort
  BY DEF CleanSkip, HashSkip, FullSync, Adopt, ConflictCopied, Disjoint, Merge, SaveVVCache, SaveDirtyPaths,
         Abort, Answers
<1>9. ~RequestFails
  BY DEF RequestFails
<1>10. ~Told /\ ~Missed
  BY <1>0, HeardAlone
<1> QED BY <1>0, <1>1, <1>2, <1>3, <1>4, <1>5, <1>6, <1>7, <1>8, <1>9, <1>10, ByKind DEF Asking, GivesUp, Adoption

---------------------------------------------------------------------------
(* What is on the way, in a regular run.                                      *)

(* Nothing is on its way to the server from a history of its own, or from an  *)
(* empty document.                                                            *)
Quiet ==
  Regular /\ (fresh \/ (doc.ops = {} /\ sync.at # "again")) =>
    \A f \in OnTheWay(up) : f.kind \in {"list", "ask"}

(* After a conflict the document is empty until the answer, and that is the   *)
(* last thing on the way.                                                     *)
Latest ==
  Regular /\ sync.at = "again" =>
    /\ doc = Nothing /\ ~fresh
    /\ \A i \in 1..Len(up) : up[i].kind = "ask" => i = Len(up)

LEMMA ReadoptAlone ==
  ASSUME Typed, Latest, Regular, Readopt
  PROVE  up' = <<>>
<1>0. up \in Seq(Frames)
  BY Fields DEF Typed
<1>1. up # <<>> /\ Head(up).kind = "ask" /\ up' = Tail(up) /\ sync.at = "again"
  BY DEF Readopt, Answers
<1>2. Len(up) \in Nat /\ Len(up) # 0 /\ Head(up) = up[1] /\ Len(Tail(up)) = Len(up) - 1 /\ Tail(up) \in Seq(Frames)
  BY <1>0, <1>1, QueueFacts
<1>3. 1 = Len(up)
  <2>1. 1 \in 1..Len(up) /\ up[1].kind = "ask"
    BY <1>1, <1>2
  <2>2. \A i \in 1..Len(up) : up[i].kind = "ask" => i = Len(up)
    BY <1>1 DEF Latest
  <2> QED BY <2>1, <2>2
<1>4. Len(Tail(up)) = 0
  <2>1. Len(Tail(up)) = Len(up) - 1
    BY <1>2
  <2> QED BY <1>3, <2>1
<1>5. Tail(up) = <<>>
  BY <1>2, <1>4, EmptyQueue
<1> QED BY <1>1, <1>5

(* How the document and the queue change together.                            *)
LEMMA DocLeaves ==
  ASSUME Typed, Single, NoDeletes, Latest, PeersKnown, Next, Regular'
  PROVE  \/ up' = <<>>
         \/ doc.ops \subseteq doc'.ops /\ (doc'.ops # {} => sync.at # "again") /\ (sync.at = "again" => sync'.at = "again")
         \/ ConflictCopied
         \/ Disjoint
<1>0. /\ TypeOK /\ ReadTyped /\ Regular /\ "failed" \notin lapses' /\ "doubled" \notin lapses' /\ "reverted" \notin lapses'
      /\ doc.deleted = {} /\ Nothing.ops = {}
  BY RegularFacts, Constants DEF Typed
<1>1. CASE sync.at = "again"
  <2>1. doc = Nothing /\ doc.ops = {} /\ Online
    BY <1>0, <1>1, Fields DEF Latest, Running, Online
  <2>2. CASE sync' = sync /\ (Here \/ ServePush)
    <3>1. doc'.ops = {}
      <4>1. CASE Here
        <5>1. PICK c \in Texts : c = Shown' /\ (Untouched \/ Entering(c))
          BY <1>0, <4>1, LocalGives DEF Here
        <5>2. ~Entering(c)
          <6>1. ASSUME Entering(c) PROVE FALSE
            BY <1>0, <2>1, <6>1, EnteringSends
          <6> QED BY <6>1
        <5> QED BY <2>1, <5>1, <5>2 DEF Untouched
      <4>2. CASE ServePush
        BY <2>1, <4>2 DEF ServePush
      <4> QED BY <2>2, <4>1, <4>2
    <3> QED BY <1>1, <2>1, <2>2, <3>1
  <2>3. CASE sync' = sync /\ UNCHANGED <<up, doc>>
    BY <1>1, <2>1, <2>3
  <2>4. CASE Readopt
    BY <1>0, <2>4, ReadoptAlone
  <2> QED BY <1>0, <1>1, <2>2, <2>3, <2>4, AgainStep
<1>2. CASE sync.at # "again"
  <2>1. Start => up' = <<>>
    BY <1>0, Fields DEF Start, Online
  <2> QED BY <1>2, <2>1, DocStep
<1> QED BY <1>1, <1>2

(* A frame that is new carries what is in the document.                       *)
LEMMA NewFrames ==
  ASSUME Typed, NoDeletes, PeersKnown, Next, Regular'
  PROVE  \A f \in OnTheWay(up') :
           \/ f \in OnTheWay(up)
           \/ f.kind \in {"list", "ask"} /\ f.add.ops = {}
           \/ f.add.ops \subseteq doc'.ops /\ ~fresh' /\ doc'.ops # {}
<1>1. "doubled" \notin lapses' /\ Nothing.ops = {}
  BY RegularFacts, Constants
<1>2. srv.ops # {}
  <2>1. peers \in PeerChanges
    BY Fields DEF Typed
  <2>2. 1 \in 1..peers
    BY <2>1 DEF PeerChanges
  <2> QED BY <2>2 DEF PeersKnown
<1> QED BY <1>1, <1>2, WayStep DEF Carries

LEMMA QuietStays ==
  ASSUME Typed, Single, NoDeletes, PeersKnown, Quiet, Latest, Bare, Next
  PROVE  Quiet'
<1> SUFFICES ASSUME Regular', fresh' \/ (doc'.ops = {} /\ sync'.at # "again"), NEW f \in OnTheWay(up')
             PROVE  f.kind \in {"list", "ask"}
  BY DEF Quiet, OnTheWay
<1>0. /\ TypeOK /\ ReadTyped /\ Regular /\ "failed" \notin lapses' /\ "doubled" \notin lapses' /\ "reverted" \notin lapses'
      /\ doc.deleted = {} /\ up' # <<>>
  BY RegularFacts, EmptyWay DEF Typed
<1>1. f \in OnTheWay(up) \/ f.kind \in {"list", "ask"}
  BY NewFrames
<1>2. fresh \/ (doc.ops = {} /\ sync.at # "again")
  <2>1. CASE fresh'
    <3>1. CASE Here /\ Entering(Shown') /\ doc.ops = {}
      <4>1. PICK c \in Texts : c = Shown'
        BY <1>0, <3>1, LocalGives DEF Here
      <4> QED BY <1>0, <3>1, <4>1, EnteringSends
    <3> QED BY <2>1, <3>1, FreshStep
  <2>2. CASE doc'.ops = {} /\ sync'.at # "again"
    <3>1. ~ConflictCopied
      <4>1. ConflictCopied => sync'.at = "again"
        BY <1>0, Fields DEF ConflictCopied, Syncs
      <4> QED BY <2>2, <4>1
    <3>2. Disjoint => fresh
      BY DEF Disjoint
    <3> QED BY <1>0, <2>2, <3>1, <3>2, DocLeaves
  <2> QED BY <2>1, <2>2
<1> QED BY <1>0, <1>1, <1>2 DEF Quiet

LEMMA LatestStays ==
  ASSUME Typed, Single, NoDeletes, PeersKnown, Latest, Next
  PROVE  Latest'
<1> SUFFICES ASSUME Regular', sync'.at = "again"
             PROVE  doc' = Nothing /\ ~fresh' /\ \A i \in 1..Len(up') : up'[i].kind = "ask" => i = Len(up')
  BY DEF Latest
<1>0. /\ TypeOK /\ ReadTyped /\ Expected /\ Regular /\ "failed" \notin lapses' /\ "doubled" \notin lapses'
      /\ "reverted" \notin lapses' /\ doc.deleted = {} /\ up \in Seq(Frames) /\ Ask \in Frames /\ Nothing.ops = {}
      /\ NoSync.at = "idle"
  BY RegularFacts, Fields, Constants DEF Typed
<1>1. CASE ConflictCopied
  <2>1. doc' = Nothing /\ fresh' = FALSE /\ up' = Append(Tail(up), Ask) /\ up # <<>> /\ Head(up).kind = "ask"
    BY <1>1 DEF ConflictCopied, Answers
  <2>2. PICK q \in Seq(Frames) : q = Tail(up) /\ Len(q) \in Nat
    <3>1. Tail(up) \in Seq(Frames)
      BY <1>0, <2>1, QueueFacts
    <3>2. Len(Tail(up)) \in Nat
      BY <3>1, QueueFacts
    <3> QED BY <3>1, <3>2, Zenon
  <2>3. Answered(q)
    BY <1>0, <2>1, <2>2, PlacedFacts DEF Expected
  <2>4. Len(up') = Len(q) + 1 /\ \A i \in 1..Len(q) : up'[i] = q[i]
    BY <1>0, <2>1, <2>2, QueueFacts
  <2>5. ASSUME NEW i \in 1..Len(up'), up'[i].kind = "ask" PROVE i = Len(up')
    BY <2>2, <2>3, <2>4, <2>5 DEF Answered
  <2> QED BY <2>1, <2>5
<1>2. CASE ~ConflictCopied
  <2>1. sync.at = "again" /\ sync' = sync
    <3>1. ~Asking
      BY <1>0, AskingGives
    <3>2. sync' # [sync EXCEPT !.lost = TRUE] \/ sync.at \notin {"planned", "ending", "saved"}
      BY <1>0, Fields DEF Syncs
    <3>3. sync' = sync
      BY <1>0, <1>2, <3>1, <3>2, SyncStep
    <3> QED BY <3>3
  <2>2. doc = Nothing /\ ~fresh /\ Online /\ ~Readopt
    <3>1. ~Readopt
      <4>1. Readopt => sync'.at = "ending"
        BY <1>0, AdoptionGives DEF Adoption
      <4> QED BY <4>1
    <3> QED BY <1>0, <2>1, <3>1, Fields DEF Latest, Running, Online
  <2>3. CASE Here
    <3>1. PICK c \in Texts : c = Shown' /\ (Untouched \/ Entering(c))
      BY <1>0, <2>3, LocalGives DEF Here
    <3>2. ~Entering(c)
      <4>1. ASSUME Entering(c) PROVE FALSE
        BY <1>0, <2>2, <4>1, EnteringSends
      <4> QED BY <4>1
    <3> QED BY <1>0, <2>1, <2>2, <3>1, <3>2 DEF Untouched, Latest
  <2>4. CASE ServePush
    <3>1. doc' = doc /\ fresh' = fresh /\ up # <<>> /\ up' = Tail(up)
      BY <2>4 DEF ServePush
    <3>2. PICK q \in Seq(Frames) : q = Tail(up)
      BY <1>0, <3>1, QueueFacts
    <3>3. Len(up) \in Nat /\ Len(q) = Len(up) - 1 /\ \A i \in 1..Len(q) : q[i] = up[i + 1]
      BY <1>0, <3>1, <3>2, QueueFacts
    <3>4. ASSUME NEW i \in 1..Len(q), q[i].kind = "ask" PROVE i = Len(q)
      <4>1. i + 1 \in 1..Len(up) /\ up[i + 1].kind = "ask"
        BY <3>3, <3>4
      <4>2. i + 1 = Len(up)
        BY <1>0, <2>1, <4>1 DEF Latest
      <4> QED BY <3>3, <4>2
    <3> QED BY <2>2, <3>1, <3>2, <3>4
  <2>5. CASE UNCHANGED <<up, doc>> /\ ~Here
    <3>1. ~fresh'
      BY <2>2, <2>5, FreshStep
    <3> QED BY <1>0, <2>1, <2>2, <2>5, <3>1 DEF Latest
  <2>6. sync' # NoSync
    BY <1>0, <2>1
  <2> QED BY <1>0, <2>1, <2>2, <2>3, <2>4, <2>5, <2>6, AgainStep
<1> QED BY <1>1, <1>2
---------------------------------------------------------------------------
(* What the note shows, in a regular run.                                     *)

(* What the file of the document has is before the user's eyes, and so is the *)
(* document while the sync waits for the note.                                *)
DocShown == Regular => loro.ops \subseteq Shown /\ (sync.at \in Asked => doc.ops \subseteq Shown)

(* An editor has all of the file that the server has, or will have.           *)
EditorLeads ==
  Regular /\ Open =>
    /\ disk \cap srv.ops \subseteq editor
    /\ \A f \in OnTheWay(up) : disk \cap f.add.ops \subseteq editor

(* A text that is compared with the document has all of it.                   *)
LEMMA FlushShown ==
  ASSUME TypeOK, NEW n \in PeerChanges, NEW vv \in Versions, Broadcast(n, vv) \/ CatchUpFails(n, vv),
         "reverted" \notin lapses', doc.deleted = {}, Open
  PROVE  doc.ops \subseteq editor
<1>1. doc \in Versions
  BY Fields
<1>2. FlushLapses \subseteq lapses'
  BY DEF Broadcast, Hear, CatchUp, CatchUpFails, ReflushLapses
<1>3. Flushed.deleted = Text(doc) \ editor
  BY FlushedGives
<1>4. Text(doc) \subseteq editor
  <2>1. CASE Flushed = doc
    BY <1>3, <2>1
  <2>2. CASE Flushed # doc
    BY <1>2, <2>2 DEF FlushLapses, Reverted
  <2> QED BY <2>1, <2>2
<1> QED BY <1>1, <1>4, VersionFacts

LEMMA LocalCovers ==
  ASSUME TypeOK, Asking \/ GivesUp, "reverted" \notin lapses', doc.deleted = {}
  PROVE  doc.ops \subseteq LocalText
<1>1. doc \in Versions
  BY Fields
<1>2. Compare(LocalText)
  <2>1. CASE Listed /\ Open
    <3>1. LocalText = editor
      BY <2>1 DEF LocalText, Local
    <3> QED BY <2>1, <3>1 DEF Listed, Request
  <2>2. CASE FullSync
    BY <2>2 DEF FullSync, Request, LocalText
  <2> QED BY <2>1, <2>2 DEF Asking, GivesUp
<1>3. doc.ops # {} => Text(doc) \subseteq LocalText
  BY <1>2 DEF Compare, Reverted
<1> QED BY <1>1, <1>3, VersionFacts

(* A change that is heard, or missed, with the editor open.                   *)
LEMMA HeardShown ==
  ASSUME Typed, NoDeletes, Next, Regular', Told \/ Missed
  PROVE  /\ Open' = Open
         /\ Open => editor \subseteq editor' /\ doc'.ops \subseteq editor' /\ (disk' = disk \/ disk' = editor')
         /\ ~Open => (Told /\ disk' = Text(doc')) \/ (disk' = disk /\ loro' = loro)
<1>0. /\ TypeOK /\ "reverted" \notin lapses' /\ doc.deleted = {} /\ srv'.deleted = {} /\ doc'.deleted = {}
  BY RegularFacts DEF Typed
<1>1. CASE Told
  <2>1. PICK n \in PeerChanges, vv \in Versions : Heeds(n, vv) /\ Broadcast(n, vv)
    BY <1>1 DEF Told
  <2>2. srv' \in Versions
    BY <1>0, <2>1, HeedsGives
  <2>3. Open => doc.ops \subseteq editor
    BY <1>0, <2>1, FlushShown
  <2> QED BY <1>0, <1>1, <2>1, <2>2, <2>3, BroadcastWrites
<1>2. CASE Missed
  <2>1. PICK n \in PeerChanges, vv \in Versions : CatchUpFails(n, vv)
    BY <1>2 DEF Missed
  <2>2. UNCHANGED text /\ loro' = loro
    BY <2>1 DEF CatchUpFails
  <2>3. doc'.ops = Taken(n)
    BY <1>0, <2>1, MissGives
  <2>4. ASSUME Open PROVE n \in editor /\ doc.ops \subseteq editor
    <3>1. ReflushLapses(n) \subseteq lapses'
      BY <2>1 DEF CatchUpFails
    <3>2. Text(Merged(n)) \subseteq editor
      BY <1>0, <2>4, <3>1 DEF ReflushLapses, Reverted
    <3>3. Merged(n).deleted = {} /\ n \in Merged(n).ops
      BY <1>0, <3>1, TakenGives DEF ReflushLapses, Taken
    <3>4. doc.ops \subseteq editor
      BY <1>0, <2>1, <2>4, FlushShown
    <3> QED BY <3>2, <3>3, <3>4 DEF Text
  <2>5. Open' = Open /\ editor' = editor /\ disk' = disk
    BY <2>2 DEF Open
  <2> QED BY <2>2, <2>3, <2>4, <2>5 DEF Taken
<1> QED BY <1>1, <1>2

LEMMA DocShownStays ==
  ASSUME Typed, Single, NoDeletes, ReadCarried, ReadShown, LoroBehind, DocShown, EditorLeads, Next
  PROVE  DocShown'
<1> SUFFICES ASSUME Regular' PROVE loro'.ops \subseteq Shown' /\ (sync'.at \in Asked => doc'.ops \subseteq Shown')
  BY DEF DocShown
<1>0. /\ TypeOK /\ ReadTyped /\ Regular /\ "unsaved" \notin lapses' /\ "doubled" \notin lapses' /\ "reverted" \notin lapses'
      /\ doc.deleted = {} /\ srv.deleted = {} /\ doc'.deleted = {} /\ Text(doc) = doc.ops /\ Text(srv) = srv.ops
      /\ Text(doc') = doc'.ops /\ Nothing.ops = {} /\ NoSync.at = "idle" /\ sync \in Syncs
  BY RegularFacts, Constants, Fields DEF Typed
<1>1. /\ loro.ops \subseteq Shown /\ (sync.at \in Asked => doc.ops \subseteq Shown)
      /\ Shown = IF Open THEN editor ELSE disk
  BY <1>0 DEF DocShown, Shown
<1>2. CASE Told \/ Missed
  <2>1. sync'.at \notin Asked
    BY <1>2, HeardAlone DEF Running, Asked
  <2>2. loro'.ops \subseteq doc'.ops
    BY LoroBehindStays DEF LoroBehind
  <2>3. CASE Open
    BY <1>2, <2>1, <2>2, <2>3, HeardShown, ShownNext
  <2>4. CASE ~Open
    BY <1>0, <1>1, <1>2, <2>1, <2>2, <2>4, HeardShown, ShownNext
  <2> QED BY <2>3, <2>4
<1>3. CASE Here
  <2>1. PICK c \in Texts : c = Shown' /\ Shown \subseteq c /\ (Untouched \/ Entering(c))
    BY <1>0, <1>3, LocalGives DEF Here
  <2>2. sync' = sync
    BY <1>3 DEF Here, DebounceFires, CloseNote, ExternalEdit
  <2>3. CASE Untouched
    BY <1>1, <2>1, <2>2, <2>3 DEF Untouched
  <2>4. CASE Entering(c)
    BY <1>0, <1>1, <2>1, <2>4, EnteringGives
  <2> QED BY <2>1, <2>3, <2>4
<1>4. CASE Asking \/ GivesUp
  <2>1. UNCHANGED text /\ loro' = loro /\ (doc' = doc \/ doc'.ops = doc.ops \cup LocalText)
    BY <1>0, <1>4, AskingGives, GivesUpGives
  <2>2. Shown' = Shown
    BY <2>1 DEF Shown, Open
  <2>3. doc.ops \subseteq LocalText /\ LocalText \subseteq Shown
    BY <1>0, <1>4, LocalCovers, LocalShown
  <2> QED BY <1>1, <2>1, <2>2, <2>3
<1>5. CASE Adoption
  <2>1. doc'.ops = srv.ops /\ loro' = doc' /\ sync.at \in {"asked", "adopting", "again"}
    BY <1>0, <1>5, AdoptionGives
  <2>2. sync.read \subseteq Shown
    BY <1>0, <2>1, Numbering DEF ReadShown, ReadTyped, Asked
  <2>3. Open /\ disk = Text(srv) => Text(srv) \subseteq editor
    BY <1>0 DEF EditorLeads
  <2>4. Text(srv) \subseteq Shown'
    BY <1>0, <1>5, <2>2, <2>3, AdoptionWrites
  <2> QED BY <1>0, <2>1, <2>4
<1>6. CASE Merge
  <2>1. sync.at = "asked" /\ loro' = doc'
    BY <1>0, <1>6, MergeGives
  <2>2. sync.read \subseteq Shown /\ sync.sent.ops \subseteq doc.ops /\ doc.ops \subseteq Shown
    BY <1>0, <1>1, <2>1, Numbering DEF ReadShown, ReadTyped, Asked, ReadCarried
  <2> QED BY <1>0, <1>1, <1>6, <2>1, <2>2, MergeShows
<1>7. CASE Quit \/ Crash
  <2>1. loro' = loro /\ ~Open' /\ (disk' = Shown \/ (Crash /\ disk' = disk)) /\ sync' = NoSync
    BY <1>1, <1>7 DEF Quit, Crash, Ended, Open
  <2>2. Crash => Shown = disk
    BY <1>0, <1>1 DEF Crash
  <2> QED BY <1>0, <1>1, <2>1, <2>2, ShownNext DEF Asked
<1>8. CASE Type
  <2>1. PICK c \in OwnChanges : editor' = editor \cup {c} /\ UNCHANGED <<doc, loro, sync>>
    BY <1>8 DEF Type
  <2>2. c # 0
    BY DEF OwnChanges
  <2>3. Open /\ Open'
    BY <1>8, <2>1, <2>2, ShownNext DEF Type, Closed
  <2> QED BY <1>1, <2>1, <2>3, ShownNext
<1>9. CASE OpenNote \/ AutoSave
  <2>1. UNCHANGED <<doc, loro, sync>> /\ Shown' = Shown
    BY <1>0, <1>1, <1>9, ShownNext, Fields, Numbering DEF OpenNote, AutoSave, Open
  <2> QED BY <1>1, <2>1
<1>10. CASE \/ Unheeded \/ Start \/ Drop \/ Abort \/ ReplayFails \/ FlushVVCache \/ Connect \/ ServePush
            \/ (Listed /\ ~Open) \/ CleanSkip \/ HashSkip \/ ConflictCopied \/ RequestFails \/ SaveVVCache
            \/ SaveDirtyPaths \/ SyncEnds
  <2>1. /\ UNCHANGED <<editor, disk>> /\ (loro' = loro \/ loro' = Nothing)
        /\ doc' \in {doc, Nothing} \/ (Start /\ doc' = loro)
    BY <1>0, <1>10, PeerChangeGives
       DEF Unheeded, Start, Drop, Abort, ReplayFails, FlushVVCache, Connect, ServePush, Listed, CleanSkip, HashSkip,
           Skips, ConflictCopied, RequestFails, SaveVVCache, SaveDirtyPaths, SyncEnds
  <2>2. Shown' = Shown
    BY <2>1 DEF Shown, Open
  <2>3. sync'.at \in Asked => sync.at \in Asked
    <3>1. CASE Unheeded \/ Start \/ ReplayFails \/ FlushVVCache \/ ServePush \/ SyncEnds
      <4>1. sync' = sync
        BY <3>1 DEF Unheeded, PeerChange, Start, ReplayFails, FlushVVCache, ServePush, SyncEnds
      <4> QED BY <4>1
    <3>2. CASE Drop
      <4>1. sync' = sync \/ sync' = NoSync \/ sync' = [sync EXCEPT !.lost = TRUE]
        BY <3>2 DEF Drop, SyncFails
      <4> QED BY <1>0, <4>1 DEF Syncs, Asked
    <3>3. CASE Abort \/ SaveDirtyPaths
      BY <1>0, <3>3 DEF Abort, SyncFails, SaveDirtyPaths, Asked
    <3>4. CASE Connect
      BY <1>0, <3>4 DEF Connect, NoSync, Asked
    <3>5. CASE (Listed /\ ~Open) \/ CleanSkip \/ HashSkip \/ SaveVVCache
      BY <1>0, <3>5 DEF Listed, CleanSkip, HashSkip, SaveVVCache, Syncs, Asked
    <3>6. CASE RequestFails
      BY <1>0, <3>6 DEF RequestFails, SyncFails, Syncs, Asked
    <3>7. CASE ConflictCopied
      BY <3>7 DEF ConflictCopied, Answers, Asked
    <3> QED BY <1>10, <3>1, <3>2, <3>3, <3>4, <3>5, <3>6, <3>7
  <2> QED BY <1>0, <1>1, <2>1, <2>2, <2>3
<1> QED BY <1>0, <1>2, <1>3, <1>4, <1>5, <1>6, <1>7, <1>8, <1>9, <1>10, ByKind

(* Nothing goes from an open editor that the server has, or will have.        *)
LEMMA EditorStep ==
  ASSUME Typed, Single, NoDeletes, ReadCarried, ReadShown, DocShown, Next, Regular', Open'
  PROVE  \/ editor \subseteq editor' /\ disk' \subseteq disk \cup editor' /\ Open
         \/ disk' \subseteq editor'
         \/ Adoption /\ editor' = Text(srv)
<1>0. /\ TypeOK /\ ReadTyped /\ Regular /\ "doubled" \notin lapses' /\ "reverted" \notin lapses'
      /\ doc.deleted = {} /\ srv.deleted = {}
  BY RegularFacts DEF Typed
<1>1. (sync.at \in Asked => doc.ops \subseteq Shown) /\ Shown = IF Open THEN editor ELSE disk
  BY <1>0 DEF DocShown, Shown
<1>2. CASE Told \/ Missed
  BY <1>2, HeardShown
<1>3. CASE Here
  <2>1. DebounceFires /\ UNCHANGED <<editor, disk>>
    BY <1>3, ShownNext DEF Here, DebounceFires, CloseNote, ExternalEdit, Open
  <2> QED BY <2>1, ShownNext DEF Open
<1>4. CASE Adoption
  <2>1. Open /\ ((editor' = editor /\ disk' = disk) \/ editor' = Text(srv))
    BY <1>0, <1>4, AdoptionWrites
  <2> QED BY <1>4, <2>1
<1>5. CASE Merge
  <2>1. sync.at = "asked"
    BY <1>0, <1>5, MergeGives
  <2>2. sync.read \subseteq Shown /\ sync.sent.ops \subseteq doc.ops /\ doc.ops \subseteq Shown
    BY <1>0, <1>1, <2>1, Numbering DEF ReadShown, ReadTyped, Asked, ReadCarried
  <2>3. Open /\ (disk' = disk \/ disk' = editor')
    BY <1>0, <1>5, MergeWrites
  <2>4. editor \subseteq editor'
    BY <1>0, <1>1, <1>5, <2>2, <2>3, MergeShows
  <2> QED BY <2>3, <2>4
<1>6. CASE Quit \/ Crash
  BY <1>6, ShownNext DEF Quit, Crash, Ended
<1>7. CASE Type \/ AutoSave
  BY <1>7 DEF Type, AutoSave
<1>8. CASE OpenNote
  BY <1>8 DEF OpenNote
<1>9. CASE \/ Unheeded \/ Asking \/ GivesUp \/ Start \/ Drop \/ Abort \/ ReplayFails \/ FlushVVCache \/ Connect
           \/ ServePush \/ Listed \/ CleanSkip \/ HashSkip \/ ConflictCopied \/ RequestFails \/ SaveVVCache
           \/ SaveDirtyPaths \/ SyncEnds
  <2>1. UNCHANGED <<editor, disk>>
    BY <1>0, <1>9, PeerChangeGives
       DEF Unheeded, Asking, GivesUp, Start, Drop, Abort, ReplayFails, FlushVVCache, Connect, ServePush, Listed,
           CleanSkip, HashSkip, Skips, FullSync, ConflictCopied, RequestFails, SaveVVCache, SaveDirtyPaths, SyncEnds
  <2> QED BY <2>1 DEF Open
<1> QED BY <1>0, <1>2, <1>3, <1>4, <1>5, <1>6, <1>7, <1>8, <1>9, ByKind

(* What a new frame carries is in the open editor.                            *)
LEMMA FramesShown ==
  ASSUME Typed, Single, NoDeletes, ReadCarried, ReadShown, LoroBehind, PeersKnown, DocShown, EditorLeads, Next,
         Regular', Open'
  PROVE  \A f \in OnTheWay(up') : f \in OnTheWay(up) \/ f.add.ops \subseteq editor'
<1>0. /\ TypeOK /\ ReadTyped /\ "reverted" \notin lapses' /\ doc.deleted = {} /\ Text(doc) = doc.ops /\ Nothing.ops = {}
      /\ up \in Seq(Frames) /\ List \in Frames /\ Ask \in Frames /\ List.add.ops = {} /\ Ask.add.ops = {}
  BY RegularFacts, Constants, Fields DEF Typed
<1>1. CASE doc'.ops \subseteq editor'
  BY <1>1, NewFrames
<1>2. CASE Told \/ Missed
  <2>1. Open
    BY <1>2, HeardShown
  <2> QED BY <1>1, <1>2, <2>1, HeardShown
<1>3. CASE Adoption \/ Merge
  <2>1. loro'.ops \subseteq Shown' /\ loro' = doc'
    BY <1>0, <1>3, DocShownStays, AdoptionGives, MergeGives DEF DocShown
  <2> QED BY <1>1, <2>1, ShownNext
<1>4. CASE Here
  <2>1. PICK c \in Texts : c = Shown' /\ (Untouched \/ Entering(c))
    BY <1>0, <1>4, LocalGives DEF Here
  <2>2. CASE Untouched
    BY <2>2 DEF Untouched
  <2>3. CASE Entering(c)
    BY <1>0, <1>1, <2>1, <2>3, EnteringGives, ShownNext
  <2> QED BY <2>1, <2>2, <2>3
<1>5. CASE Asking \/ ConflictCopied
  <2>1. \E q \in Seq(Frames) : up' = Append(q, Ask) /\ OnTheWay(q) \subseteq OnTheWay(up)
    <3>1. up # <<>> => Tail(up) \in Seq(Frames) /\ OnTheWay(Tail(up)) \subseteq OnTheWay(up)
      BY <1>0, QueueFacts, WayFacts
    <3>2. (up' = Append(Tail(up), Ask) /\ up # <<>>) \/ up' = Append(up, Ask)
      BY <1>0, <1>5, AskingGives DEF ConflictCopied, Answers
    <3> QED BY <1>0, <3>1, <3>2
  <2>2. OnTheWay(up') \subseteq OnTheWay(up) \cup {Ask}
    BY <1>0, <2>1, WayFacts
  <2> QED BY <1>0, <2>2
<1>6. CASE Connect
  <2>1. up' = up \/ up' = <<List>>
    BY <1>6 DEF Connect
  <2>2. OnTheWay(<<List>>) = {List}
    BY DEF OnTheWay
  <2> QED BY <1>0, <2>1, <2>2
<1>7. CASE \/ Unheeded \/ GivesUp \/ Start \/ Drop \/ Abort \/ ReplayFails \/ FlushVVCache \/ ServePush \/ Quit \/ Crash
           \/ (Listed /\ ~Open) \/ CleanSkip \/ HashSkip \/ RequestFails \/ SaveVVCache
           \/ SaveDirtyPaths \/ SyncEnds \/ Type \/ AutoSave \/ OpenNote
  <2>1. up' = up \/ up' = <<>> \/ (up # <<>> /\ up' = Tail(up))
    BY <1>0, <1>7, PeerChangeGives, GivesUpGives
       DEF Unheeded, Start, Drop, Abort, ReplayFails, FlushVVCache, ServePush, Quit, Crash, Ended, Listed, CleanSkip,
           HashSkip, Skips, RequestFails, SaveVVCache, SaveDirtyPaths, SyncEnds, Type, AutoSave, OpenNote
  <2>2. OnTheWay(up') \subseteq OnTheWay(up)
    BY <1>0, <2>1, WayFacts, EmptyWay
  <2> QED BY <2>2
<1> QED BY <1>0, <1>2, <1>3, <1>4, <1>5, <1>6, <1>7, ByKind

LEMMA EditorLeadsStays ==
  ASSUME Typed, Single, NoDeletes, ReadCarried, ReadShown, LoroBehind, PeersKnown, Bare, Quiet, Latest, DocShown,
         EditorLeads, Next
  PROVE  EditorLeads'
<1> SUFFICES ASSUME Regular', Open'
             PROVE  /\ disk' \cap srv'.ops \subseteq editor'
                    /\ \A f \in OnTheWay(up') : disk' \cap f.add.ops \subseteq editor'
  BY DEF EditorLeads, OnTheWay
<1>0. TypeOK /\ ReadTyped /\ Regular /\ Text(srv) = srv.ops /\ "doubled" \notin lapses' /\ srv' \in Versions
  BY RegularFacts, SrvStep DEF Typed
<1>2. CASE editor \subseteq editor' /\ disk' \subseteq disk \cup editor' /\ Open
  <2>1. /\ disk' \cap srv.ops \subseteq editor'
        /\ \A f \in OnTheWay(up) : disk' \cap f.add.ops \subseteq editor'
    BY <1>0, <1>2 DEF EditorLeads
  <2>2. \A f \in OnTheWay(up') : disk' \cap f.add.ops \subseteq editor'
    BY <2>1, FramesShown
  <2>3. disk' \cap srv'.ops \subseteq editor'
    <3>1. CASE PeerChange
      <4>1. srv'.ops = srv.ops \cup {peers'} /\ peers' = peers + 1 /\ peers' \in PeerChanges /\ peers \in Nat
        BY <1>0, <3>1, PeerChangeGives, Fields DEF PeerChanges
      <4>2. peers' \notin disk
        <5>1. peers' \notin 1..peers
          BY <4>1
        <5> QED BY <4>1, <5>1 DEF PeersKnown
      <4> QED BY <1>2, <2>1, <4>1, <4>2
    <3>2. CASE ServePush
      <4>1. up # <<>> /\ srv'.ops \subseteq srv.ops \cup Head(up).add.ops /\ up \in Seq(Frames)
        BY <1>0, <3>2, ServePushGives, Fields
      <4>2. Head(up) \in OnTheWay(up)
        BY <4>1, WayFacts
      <4> QED BY <2>1, <4>1, <4>2
    <3>3. CASE ~PeerChange /\ ~ServePush
      BY <2>1, <3>3, SrvStep
    <3> QED BY <3>1, <3>2, <3>3
  <2> QED BY <2>2, <2>3
<1>3. CASE disk' \subseteq editor'
  BY <1>3
<1>4. CASE Adoption /\ editor' = Text(srv)
  <2>1. srv' = srv /\ up \in Seq(Frames)
    BY <1>0, <1>4, AdoptionGives, Fields
  <2>2. \A f \in OnTheWay(up') : f.add.ops = {}
    <3>1. CASE Readopt
      BY <1>0, <3>1, ReadoptAlone, EmptyWay
    <3>2. CASE ~Readopt
      <4>1. /\ up # <<>> /\ up' = Tail(up)
            /\ fresh \/ (doc.ops = {} /\ sync.at # "again")
        BY <1>0, <1>4, <3>2, AdoptionGives DEF Adoption, Adopt, Disjoint, Answers
      <4>2. OnTheWay(up') \subseteq OnTheWay(up)
        BY <1>0, <1>4, <2>1, WayFacts, AdoptionGives
      <4> QED BY <1>0, <4>1, <4>2 DEF Quiet, Bare
    <3> QED BY <3>1, <3>2
  <2> QED BY <1>0, <1>4, <2>1, <2>2
<1> QED BY <1>2, <1>3, <1>4, EditorStep
---------------------------------------------------------------------------
(* What the caches prove, in a regular run.                                   *)

(* What is on its way is in the file of the document, unless a change may     *)
(* have passed unheard.                                                       *)
Pushes ==
  Regular /\ ~unheard /\ sync.at # "again" => \A f \in OnTheWay(up) : f.add.ops \subseteq loro.ops

(* Only a new connection with a sync of its own starts afresh.                *)
LEMMA UnheardStep ==
  ASSUME Typed, Next, ~unheard'
  PROVE  /\ ~Missed
         /\ ~unheard \/ (Connect /\ ~Running /\ up' = <<List>>)
<1>0. TypeOK
  BY DEF Typed
<1>1. ~Missed
  BY DEF Missed
<1>2. CASE PeerChange
  <2>1. unheard => unheard'
    BY <1>0, <1>2, PeerChangeGives
  <2> QED BY <1>1, <2>1
<1>3. CASE Replay
  <2>1. unheard => unheard'
    BY <1>3 DEF Replay
  <2> QED BY <1>1, <2>1
<1>4. CASE ~PeerChange /\ ~Replay
  <2>1. ~unheard \/ (Connect /\ ~Running /\ up' = <<List>>)
    BY <1>4 DEF Next, Start, Drop, Abort, ReplayFails, Quit, Crash, Ended, FlushVVCache, Connect, ServePush, Listed,
         CleanSkip, HashSkip, Skips, FullSync, Adopt, ConflictCopied, Readopt, Disjoint, Merge, RequestFails,
         SaveVVCache, SaveDirtyPaths, SyncEnds, Type, DebounceFires, AutoSave, OpenNote, CloseNote, ExternalEdit,
         queues
  <2> QED BY <1>1, <2>1
<1> QED BY <1>2, <1>3, <1>4

(* A frame with text leaves when the file of the document is written.         *)
LEMMA NewKept ==
  ASSUME Typed, Next, ~Missed, NEW f \in OnTheWay(up'), f \notin OnTheWay(up), f.kind \notin {"list", "ask"}
  PROVE  loro' = doc'
<1>0. /\ TypeOK /\ ReadTyped /\ up \in Seq(Frames) /\ List \in Frames /\ Ask \in Frames
      /\ List.kind = "list" /\ Ask.kind = "ask" /\ f \in OnTheWay(up')
  BY Fields, Constants DEF Typed
<1>1. CASE Told \/ Adoption \/ Merge
  BY <1>0, <1>1, ToldVector, AdoptionGives, MergeGives
<1>2. CASE Here
  <2>1. PICK c \in Texts : c = Shown' /\ (Untouched \/ Entering(c))
    BY <1>0, <1>2, LocalGives DEF Here
  <2>2. ~Untouched
    BY <1>0 DEF Untouched
  <2> QED BY <1>0, <2>1, <2>2, EnteringGives
<1>3. CASE Asking \/ ConflictCopied \/ (Listed /\ ~Open) \/ RequestFails \/ ServePush
  <2>1. \/ up' = Append(up, Ask)
        \/ up # <<>> /\ (up' = Append(Tail(up), Ask) \/ up' = Tail(up))
    BY <1>0, <1>3, AskingGives DEF ConflictCopied, Listed, RequestFails, Answers, ServePush
  <2>2. CASE up' = Append(up, Ask)
    BY <1>0, <2>2, WayFacts
  <2>3. CASE up # <<>> /\ (up' = Append(Tail(up), Ask) \/ up' = Tail(up))
    <3>1. PICK q \in Seq(Frames) : q = Tail(up)
      BY <1>0, <2>3, QueueFacts
    <3>2. OnTheWay(up) = {Head(up)} \cup OnTheWay(q)
      BY <1>0, <2>3, <3>1, WayFacts
    <3>3. OnTheWay(Append(q, Ask)) = OnTheWay(q) \cup {Ask}
      BY <1>0, WayFacts
    <3> QED BY <1>0, <2>3, <3>1, <3>2, <3>3
  <2> QED BY <2>1, <2>2, <2>3
<1>4. CASE Drop \/ Quit \/ Crash \/ Connect
  <2>1. up' = up \/ up' = <<>> \/ up' = Append(<<>>, List)
    BY <1>4 DEF Drop, Quit, Crash, Ended, Connect
  <2>2. <<>> \in Seq(Frames) /\ OnTheWay(<<>>) = {}
    BY EmptyWay
  <2>3. PICK q \in Seq(Frames) : q = <<>>
    BY <2>2
  <2>4. OnTheWay(Append(q, List)) = OnTheWay(q) \cup {List}
    BY <1>0, WayFacts
  <2> QED BY <1>0, <2>1, <2>2, <2>3, <2>4
<1>5. CASE \/ Start \/ FlushVVCache \/ CleanSkip \/ HashSkip \/ SaveVVCache \/ SaveDirtyPaths \/ SyncEnds
           \/ Type \/ AutoSave \/ OpenNote \/ Abort \/ GivesUp \/ ReplayFails \/ Unheeded
  <2>1. UNCHANGED up
    BY <1>0, <1>5, PeerChangeGives, GivesUpGives
       DEF Unheeded, Abort, ReplayFails, Start, FlushVVCache, CleanSkip, HashSkip, Skips, SaveVVCache, SaveDirtyPaths,
           SyncEnds, Type, AutoSave, OpenNote
  <2> QED BY <1>0, <2>1
<1> QED BY <1>0, <1>1, <1>2, <1>3, <1>4, <1>5, ByKind

(* The file of the document grows, too.                                       *)
LEMMA LoroGrows ==
  ASSUME Typed, LoroBehind, Next, doc.ops \subseteq doc'.ops
  PROVE  loro.ops \subseteq loro'.ops
BY LoroStep DEF LoroBehind

LEMMA PushesStays ==
  ASSUME Typed, Single, NoDeletes, LoroBehind, PeersKnown, Quiet, Latest, Bare, Pushes, Next
  PROVE  Pushes'
<1> SUFFICES ASSUME Regular', ~unheard', sync'.at # "again", NEW f \in OnTheWay(up')
             PROVE  f.add.ops \subseteq loro'.ops
  BY DEF Pushes, OnTheWay
<1>0. Regular /\ up' # <<>> /\ TypeOK /\ ~Missed
  BY RegularFacts, EmptyWay, UnheardStep DEF Typed
<1>1. CASE f \in OnTheWay(up)
  <2>1. ~ConflictCopied
    <3>1. ConflictCopied => sync'.at = "again"
      BY <1>0, Fields DEF ConflictCopied, Syncs
    <3> QED BY <3>1
  <2>2. ~unheard
    <3>1. Connect => up = <<>>
      BY <1>0, Fields DEF Connect, Online
    <3>2. up # <<>>
      BY <1>1, EmptyWay
    <3> QED BY <3>1, <3>2, UnheardStep
  <2>3. CASE Disjoint
    BY <1>0, <1>1, <2>3 DEF Disjoint, Quiet, Bare
  <2>4. CASE doc.ops \subseteq doc'.ops /\ sync.at # "again"
    BY <1>0, <1>1, <2>2, <2>4, LoroGrows DEF Pushes
  <2> QED BY <1>0, <2>1, <2>3, <2>4, DocLeaves
<1>2. CASE f \notin OnTheWay(up)
  <2>1. f.add.ops = {} \/ f.add.ops \subseteq doc'.ops
    BY <1>2, NewFrames
  <2>2. CASE f.kind \in {"list", "ask"}
    BY <1>2, <2>2, BareStays DEF Bare, OnTheWay
  <2>3. CASE f.kind \notin {"list", "ask"}
    BY <1>0, <1>2, <2>1, <2>3, NewKept
  <2> QED BY <2>2, <2>3
<1> QED BY <1>1, <1>2

(* A sync that lost its socket and meets another connection has missed what   *)
(* was between them.                                                          *)
LostHeard == sync.lost /\ Online => unheard

LEMMA LostStep ==
  ASSUME Typed, Next
  PROVE  sync'.lost => sync.lost \/ Drop
<1>0. TypeOK /\ ReadTyped /\ sync \in Syncs /\ NoSync.lost = FALSE
  BY Fields DEF Typed, NoSync
<1>1. CASE Asking
  <2>1. ASSUME NEW s, NEW local, NEW frames, Request(s, local, frames), s \in Syncs, s.lost = sync.lost
        PROVE  sync'.lost = sync.lost
    BY <2>1 DEF Request, Syncs
  <2>2. CASE Listed /\ Open
    <3>1. PICK s : s = [sync EXCEPT !.listed = srv, !.first = Open]
      OBVIOUS
    <3>2. s \in Syncs /\ s.lost = sync.lost
      BY <1>0, <3>1, Fields DEF Syncs, Open
    <3>3. Request(s, editor, Tail(up))
      BY <2>2, <3>1 DEF Listed
    <3> QED BY <2>1, <3>2, <3>3
  <2>3. CASE FullSync /\ Online
    <3>1. PICK s : s = [sync EXCEPT !.hash = IF Unchanged(sync) THEN Effective ELSE @]
      OBVIOUS
    <3>2. s \in Syncs /\ s.lost = sync.lost
      <4>1. Effective \in Texts \cup {NotSet}
        BY <1>0, Fields DEF Effective, Syncs
      <4> QED BY <1>0, <3>1, <4>1 DEF Syncs
    <3>3. Request(s, Local(Effective), up)
      BY <2>3, <3>1 DEF FullSync
    <3> QED BY <2>1, <3>2, <3>3
  <2> QED BY <1>1, <2>2, <2>3 DEF Asking
<1>2. CASE Adoption \/ Merge
  <2>1. PICK d, k : NoteDone(d, k)
    <3>1. CASE Merge
      BY <3>1, MergeAssigns
    <3>2. CASE Adoption
      BY <3>2 DEF Adoption, Adopt, Readopt, Disjoint
    <3> QED BY <1>2, <3>1, <3>2
  <2> QED BY <1>0, <2>1 DEF NoteDone, Syncs
<1>3. CASE Listed /\ ~Open
  <2>1. PICK s : s = [sync EXCEPT !.listed = srv, !.first = Open]
    OBVIOUS
  <2>2. s \in Syncs /\ s.lost = sync.lost
    BY <1>0, <2>1, Fields DEF Syncs, Open
  <2>3. sync' = [s EXCEPT !.at = "planned", !.read = IF Unchanged(s) /\ ~s.dirty THEN NotSet ELSE disk]
    BY <1>3, <2>1 DEF Listed
  <2> QED BY <2>2, <2>3 DEF Syncs
<1>4. CASE CleanSkip \/ HashSkip \/ ConflictCopied \/ RequestFails \/ SaveVVCache
  <2>1. CASE sync' = NoSync
    BY <1>0, <2>1
  <2>2. CASE sync' = [sync EXCEPT !.at = "ending", !.hash = sync.cached.hash]
    BY <1>0, <2>2 DEF Syncs
  <2>3. CASE sync' = [sync EXCEPT !.at = "ending", !.hash = Effective, !.dirty = FALSE]
    BY <1>0, <2>3 DEF Syncs
  <2>4. CASE sync' = [sync EXCEPT !.at = "again"] \/ sync' = [sync EXCEPT !.at = "ending"]
    BY <1>0, <2>4 DEF Syncs
  <2>5. CASE sync' = [sync EXCEPT !.at = "saved"]
    BY <1>0, <2>5 DEF Syncs
  <2> QED
    BY <1>4, <2>1, <2>2, <2>3, <2>4, <2>5 DEF CleanSkip, HashSkip, ConflictCopied, RequestFails, SyncFails, SaveVVCache
<1>5. CASE Connect
  <2>1. sync' = sync \/ sync' = [NoSync EXCEPT !.at = "listing", !.dirty = dirty, !.cached = cache]
    BY <1>5 DEF Connect
  <2> QED BY <2>1 DEF NoSync
<1>6. CASE sync' = sync \/ sync' = NoSync \/ Drop
  BY <1>0, <1>6
<1> QED BY <1>1, <1>2, <1>3, <1>4, <1>5, <1>6, SyncStep

LEMMA OnlineStep ==
  ASSUME Typed, Next, Online'
  PROVE  /\ Online \/ Connect
         /\ ~Drop /\ ~Quit /\ ~Crash /\ ~Start
<1>0. TypeOK /\ phase' = "online"
  BY DEF Typed, Online
<1>1. ~Drop /\ ~Quit /\ ~Crash /\ ~Start
  BY <1>0 DEF Drop, Quit, Crash, Ended, Start
<1>2. CASE PeerChange
  BY <1>0, <1>1, <1>2, PeerChangeGives DEF Online
<1>3. CASE ~PeerChange /\ ~Connect
  <2>1. phase' = phase
    BY <1>1, <1>3 DEF Next, Abort, ReplayFails, FlushVVCache, ServePush, Listed, CleanSkip, HashSkip, Skips, FullSync,
         Adopt, ConflictCopied, Readopt, Disjoint, Merge, RequestFails, SaveVVCache, SaveDirtyPaths, Replay, SyncEnds,
         Type, DebounceFires, AutoSave, OpenNote, CloseNote, ExternalEdit
  <2> QED BY <1>0, <1>1, <2>1 DEF Online
<1> QED BY <1>1, <1>2, <1>3

LEMMA LostHeardStays ==
  ASSUME Typed, LostHeard, Next
  PROVE  LostHeard'
<1> SUFFICES ASSUME sync'.lost, Online', ~unheard' PROVE FALSE
  BY Fields, TypedStays DEF LostHeard, Typed
<1>0. TypeOK /\ phase' = "online"
  BY DEF Typed, Online
<1>1. ~Drop
  BY <1>0 DEF Drop
<1>2. sync.lost
  BY <1>1, LostStep
<1>3. ~Connect
  <2>1. ASSUME Connect PROVE FALSE
    <3>1. ~Running
      BY <2>1 DEF Connect
    <3>2. sync' = [NoSync EXCEPT !.at = "listing", !.dirty = dirty, !.cached = cache]
      BY <2>1, <3>1 DEF Connect
    <3> QED BY <3>2 DEF NoSync
  <2> QED BY <2>1
<1>4. ~unheard
  BY <1>3, UnheardStep
<1>5. Online
  BY <1>0, <1>1, <1>3, OnlineStep DEF Online
<1> QED BY <1>2, <1>4, <1>5 DEF LostHeard

(* The vectors that a later sync compares with, those in the caches and that  *)
(* of a sync that is about to store it.                                       *)
Proven == {cache.vv, stored.vv, sync.cached.vv} \cup (IF sync.at = "ending" THEN {lastVV} ELSE {})

LEMMA EndingStep ==
  ASSUME Typed, Single, Next, "failed" \notin lapses', sync'.at = "ending"
  PROVE  lastVV' \in Proven \/ (lastVV' = srv /\ (Adoption \/ Merge))
<1>0. TypeOK /\ ReadTyped /\ sync \in Syncs /\ NoSync.at = "idle"
  BY Fields, Constants DEF Typed
<1>1. CASE Adoption \/ Merge
  BY <1>0, <1>1, AdoptionGives, MergeGives
<1>2. CASE CleanSkip \/ HashSkip
  <2>1. lastVV' = sync.cached.vv
    BY <1>2 DEF CleanSkip, HashSkip, Skips, Clean, Unchanged
  <2> QED BY <2>1 DEF Proven
<1>3. CASE ~Adoption /\ ~Merge /\ ~CleanSkip /\ ~HashSkip
  <2>1. ~RequestFails
    BY DEF RequestFails
  <2>2. ~Asking
    BY <1>0, AskingGives
  <2>3. sync' = sync \/ sync' = [sync EXCEPT !.lost = TRUE]
    BY <1>0, <1>3, <2>1, <2>2, SyncStep
  <2>4. sync.at = "ending"
    BY <1>0, <2>3 DEF Syncs
  <2>5. ~Told /\ ~Missed /\ ~Start
    <3>1. Running
      BY <2>4 DEF Running
    <3> QED BY <1>0, <3>1, HeardAlone, Fields DEF Start
  <2>6. lastVV' = lastVV
    BY <1>3, <2>5, LastStep
  <2> QED BY <2>4, <2>6 DEF Proven
<1> QED BY <1>1, <1>2, <1>3

LEMMA ProvenStep ==
  ASSUME Typed, Single, Next, "failed" \notin lapses'
  PROVE  \A v \in Proven' :
           \/ v \in Proven \/ v = Nothing
           \/ v = srv /\ (Adoption \/ Merge)
           \/ Told /\ v = lastVV'
<1>1. ASSUME NEW e \in {cache', stored', sync'.cached}
      PROVE  e.vv \in Proven \/ e.vv = Nothing \/ (Told /\ e.vv = lastVV')
  <2>1. CASE e \in {cache, stored, sync.cached, NoCache}
    BY <2>1, Constants DEF Proven
  <2>2. CASE SaveVVCache /\ e = [vv |-> lastVV, hash |-> sync.hash]
    BY <2>2 DEF SaveVVCache, Proven
  <2>3. CASE Told /\ e = cache'
    BY <2>3, ToldVector
  <2> QED BY <2>1, <2>2, <2>3, EntriesStep
<1>2. Proven' = {cache'.vv, stored'.vv, sync'.cached.vv} \cup (IF sync'.at = "ending" THEN {lastVV'} ELSE {})
  BY DEF Proven
<1> QED BY <1>1, <1>2, EndingStep

(* A vector of those that is the server's: the file of the document has all   *)
(* that the server has. A sync that takes the note for unchanged: it has all  *)
(* that was listed.                                                           *)
Bound ==
  Regular =>
    /\ \A v \in Proven : v = srv =>
         srv.ops \subseteq loro.ops /\ ~fresh /\ (sync.at = "asked" => srv.ops \subseteq sync.sent.ops)
    /\ sync.at = "planned" /\ Unchanged(sync) => sync.listed.ops \subseteq loro.ops

LEMMA OneHeard ==
  ASSUME Typed, PeersKnown
  PROVE  1 \in srv.ops
<1>1. peers \in PeerChanges
  BY Fields DEF Typed
<1>2. 1 \in 1..peers
  BY <1>1 DEF PeerChanges
<1> QED BY <1>2 DEF PeersKnown

(* A version without deletions is the set of its changes.                     *)
LEMMA SameOps ==
  ASSUME NEW a \in Versions, NEW b \in Versions, a.deleted = {}, b.deleted = {}, a.ops = b.ops
  PROVE  a = b
BY VersionFacts

LEMMA PlannedBound ==
  ASSUME Typed, Single, NoDeletes, LoroBehind, Bound, Next, Regular', sync'.at = "planned", Unchanged(sync')
  PROVE  sync'.listed.ops \subseteq loro'.ops
<1>0. /\ TypeOK /\ ReadTyped /\ Regular /\ sync \in Syncs /\ NoSync.at = "idle"
      /\ sync'.cached # NoCache /\ sync'.listed = sync'.cached.vv
  BY RegularFacts, Fields, Constants DEF Typed, Unchanged
<1>1. CASE Listed /\ ~Open
  <2>1. sync'.cached = sync.cached /\ sync'.listed = srv
    BY <1>0, <1>1, ListedGives
  <2>2. sync.cached.vv \in Proven /\ sync.cached.vv = srv /\ loro' = loro
    BY <1>0, <1>1, <2>1 DEF Proven, Listed
  <2> QED BY <1>0, <2>1, <2>2 DEF Bound
<1>2. CASE sync' = sync \/ sync' = [sync EXCEPT !.lost = TRUE]
  <2>1. sync.at = "planned" /\ sync'.cached = sync.cached /\ sync'.listed = sync.listed
    BY <1>0, <1>2 DEF Syncs
  <2>2. sync.listed.ops \subseteq loro.ops
    BY <1>0, <2>1 DEF Bound, Unchanged
  <2>3. ~Start /\ ~ConflictCopied /\ ~Disjoint
    BY <1>0, <2>1, Fields DEF Start, Running, ConflictCopied, Disjoint, Answers
  <2> QED BY <2>1, <2>2, <2>3, DocStep, LoroGrows
<1>3. ~Asking
  BY <1>0, AskingGives
<1> QED BY <1>0, <1>1, <1>2, <1>3, SyncStep

LEMMA BoundStays ==
  ASSUME Typed, Single, NoDeletes, ReadShown, PeersKnown, LoroBehind, Heard, Bound, Next
  PROVE  Bound'
<1>a. ASSUME Regular', NEW v \in Proven', v = srv'
      PROVE  srv'.ops \subseteq loro'.ops /\ ~fresh' /\ (sync'.at = "asked" => srv'.ops \subseteq sync'.sent.ops)
  <2>0. /\ TypeOK /\ ReadTyped /\ Regular /\ srv.deleted = {} /\ srv'.deleted = {} /\ srv \in Versions
        /\ srv' \in Versions /\ Nothing.ops = {} /\ "failed" \notin lapses'
    BY <1>a, RegularFacts, SrvStep, Fields, Constants DEF Typed
  <2>1. v # Nothing
    <3>1. 1 \in srv'.ops
      BY OneHeard, SrvStep
    <3> QED BY <1>a, <2>0, <3>1
  <2>2. CASE Adoption \/ Merge
    <3>1. srv' = srv /\ loro' = doc' /\ fresh' = FALSE /\ srv.ops \subseteq doc'.ops /\ sync'.at = "ending"
      <4>1. CASE Adoption
        BY <2>0, <4>1, AdoptionGives
      <4>2. CASE Merge
        BY <2>0, <4>2, MergeGives, CaughtGives
      <4> QED BY <2>2, <4>1, <4>2
    <3> QED BY <3>1
  <2>3. CASE Told /\ v = lastVV'
    <3>1. sync'.at # "asked"
      BY <2>3, HeardAlone DEF Running
    <3>2. lastVV'.ops \subseteq doc'.ops /\ loro' = doc' /\ ~fresh'
      BY <2>3, ToldVector
    <3> QED BY <1>a, <2>3, <3>1, <3>2
  <2>4. CASE v \in Proven
    <3>1. srv' = srv
      <4>1. v \in Vectors
        BY <2>4 DEF Proven, Vectors
      <4>2. srv'.ops \subseteq srv.ops
        BY <1>a, <4>1 DEF Heard
      <4>3. srv'.ops = srv.ops
        BY <4>2, SrvStep
      <4> QED BY <2>0, <4>3, SameOps
    <3>2. srv.ops \subseteq loro.ops /\ ~fresh /\ (sync.at = "asked" => srv.ops \subseteq sync.sent.ops)
      BY <1>a, <2>0, <2>4, <3>1 DEF Bound
    <3>3. 1 \in doc.ops /\ srv.ops \subseteq doc.ops
      BY <3>2, OneHeard DEF LoroBehind
    <3>4. ~fresh'
      BY <3>2, <3>3, FreshStep
    <3>5. ~ConflictCopied
      <4>1. ASSUME ConflictCopied PROVE FALSE
        <5>1. sync.at = "asked" /\ Newer
          BY <4>1 DEF ConflictCopied, Conflicts, Answers
        <5>2. sync.sent \in Versions /\ srv.ops \subseteq sync.sent.ops
          BY <2>0, <3>2, <5>1, Fields, SyncFields
        <5>3. Covers(sync.sent, srv)
          BY <2>0, <5>2, CoverFacts
        <5> QED BY <3>2, <5>1, <5>3 DEF Newer
      <4> QED BY <4>1
    <3>6. ~Disjoint
      BY <3>2 DEF Disjoint
    <3>7. srv.ops \subseteq loro'.ops
      <4>1. CASE loro' = loro
        BY <3>2, <4>1
      <4>2. CASE loro' = doc' /\ loro' # loro
        <5>1. doc.ops \subseteq doc'.ops
          BY <3>5, <3>6, <4>2, DocStep DEF Start
        <5> QED BY <3>3, <4>2, <5>1
      <4> QED BY <4>1, <4>2, LoroStep
    <3>8. sync'.at = "asked" => srv.ops \subseteq sync'.sent.ops
      <4>1. CASE sync' = sync
        BY <3>2, <4>1
      <4>2. CASE Asking
        BY <2>0, <3>3, <4>2, AskingGives
      <4>3. CASE sync' = [sync EXCEPT !.lost = TRUE] /\ sync.at \in {"planned", "ending", "saved"}
        <5>1. sync'.at = sync.at
          BY <2>0, <4>3, Fields DEF Syncs
        <5> QED BY <4>3, <5>1
      <4>4. CASE sync'.at # "asked"
        BY <4>4
      <4> QED BY <4>1, <4>2, <4>3, <4>4, SyncStep, Constants
    <3> QED BY <3>1, <3>4, <3>7, <3>8
  <2> QED BY <2>0, <2>1, <2>2, <2>3, <2>4, <1>a, ProvenStep
<1>b. ASSUME Regular', sync'.at = "planned", Unchanged(sync') PROVE sync'.listed.ops \subseteq loro'.ops
  BY <1>b, PlannedBound
<1> QED BY <1>a, <1>b DEF Bound, Proven, Unchanged

(* The changes that wait to be heard.                                         *)
Late == {b.change : b \in Waiting}

(* After the sync the file of the document has all that the server has, or    *)
(* the document waits to be told, or something passed unheard; and so has one *)
(* that the cache lets the sync pass over.                                    *)
Caughtup == ~Running \/ sync.at \in {"ending", "saved"} \/ (sync.at = "planned" /\ Unchanged(sync))
Gap == Regular /\ Online /\ ~unheard /\ Caughtup => srv.ops \subseteq loro.ops \cup Late

LEMMA CaughtupStep ==
  ASSUME Typed, LostHeard, Next, "failed" \notin lapses', Online', ~unheard', Caughtup'
  PROVE  \/ Adoption \/ Merge
         \/ Listed /\ ~Open /\ sync.cached.vv = srv
         \/ /\ Online /\ ~unheard /\ Caughtup /\ sync.at \notin Asked
            /\ ~Missed /\ ~Connect /\ ~Start /\ ~Drop /\ ~Abort /\ ~Quit /\ ~Crash /\ ~GivesUp /\ ~RequestFails
            /\ ~ConflictCopied /\ ~Disjoint
<1>0. /\ TypeOK /\ ReadTyped /\ sync \in Syncs /\ NoSync.at = "idle"
      /\ sync'.at \in {"idle", "ending", "saved", "planned"}
      /\ sync'.at = "planned" => sync'.cached # NoCache /\ sync'.listed = sync'.cached.vv
  BY Fields, Constants DEF Typed, Caughtup, Running, Unchanged
<1>1. CASE Adoption \/ Merge
  BY <1>1
<1>2. CASE Listed /\ ~Open
  <2>1. sync'.at = "planned" /\ sync'.listed = srv /\ sync'.cached = sync.cached
    BY <1>0, <1>2, ListedGives
  <2> QED BY <1>0, <1>2, <2>1
<1>3. CASE ~Adoption /\ ~Merge /\ ~(Listed /\ ~Open)
  <2>1. ~Drop /\ ~Quit /\ ~Crash /\ ~Start
    BY OnlineStep
  <2>2. ~Connect
    <3>1. ASSUME Connect PROVE FALSE
      <4>1. ~Running
        BY <3>1 DEF Connect
      <4>2. sync' = [NoSync EXCEPT !.at = "listing", !.dirty = dirty, !.cached = cache]
        BY <3>1, <4>1 DEF Connect
      <4>3. sync'.at = "listing"
        BY <4>2 DEF NoSync
      <4> QED BY <1>0, <4>3
    <3> QED BY <3>1
  <2>3. Online /\ ~unheard /\ ~Missed
    BY <2>2, OnlineStep, UnheardStep
  <2>4. ~Abort /\ ~GivesUp /\ ~RequestFails /\ ~Disjoint /\ ~ConflictCopied /\ ~Asking
    <3>1. ~Abort
      BY <2>3 DEF Abort, LostHeard
    <3>2. ~GivesUp
      BY <2>3 DEF GivesUp
    <3>3. ~RequestFails
      BY DEF RequestFails
    <3>4. ~ConflictCopied
      BY <1>0 DEF ConflictCopied, Syncs
    <3>5. ~Asking
      BY <1>0, AskingGives
    <3> QED BY <1>3, <3>1, <3>2, <3>3, <3>4, <3>5 DEF Adoption
  <2>5. CASE CleanSkip \/ HashSkip \/ SaveVVCache \/ SaveDirtyPaths
    <3>1. Caughtup /\ sync.at \notin Asked
      BY <2>5 DEF CleanSkip, HashSkip, Clean, SaveVVCache, SaveDirtyPaths, Caughtup, Asked
    <3> QED BY <2>1, <2>2, <2>3, <2>4, <3>1
  <2>6. CASE ~CleanSkip /\ ~HashSkip /\ ~SaveVVCache /\ ~SaveDirtyPaths
    <3>1. sync' = sync
      <4>1. CASE Told
        BY <1>0, <4>1, HeedsGives DEF Told
      <4>2. CASE Unheeded
        BY <1>0, <4>2, PeerChangeGives DEF Unheeded
      <4>3. CASE Here \/ ReplayFails \/ FlushVVCache \/ ServePush \/ SyncEnds \/ Type \/ AutoSave \/ OpenNote
        BY <4>3 DEF Here, ReplayFails, FlushVVCache, ServePush, SyncEnds, Type, DebounceFires, AutoSave, OpenNote,
                    CloseNote, ExternalEdit
      <4> QED BY <1>0, <1>3, <2>1, <2>2, <2>3, <2>4, <2>6, <4>1, <4>2, <4>3, ByKind
    <3>2. Caughtup
      BY <3>1 DEF Caughtup, Unchanged, Running
    <3>3. sync.at \notin Asked
      BY <1>0, <3>1 DEF Asked
    <3> QED BY <2>1, <2>2, <2>3, <2>4, <3>2, <3>3
  <2> QED BY <2>5, <2>6
<1> QED BY <1>1, <1>2, <1>3

LEMMA LateNext == Late' = {b.change : b \in OnTheWay(buffered') \cup OnTheWay(replay')}
BY DEF Late, Waiting, OnTheWay

LEMMA LateStep ==
  ASSUME Typed, Regular, Pushes, Online, Online', ~unheard, ~unheard', sync.at # "again", Next, loro.ops \subseteq loro'.ops,
         srv.ops \subseteq loro.ops \cup Late,
         ~Missed, ~Connect, ~Start, ~Drop, ~Abort, ~Quit, ~Crash, ~GivesUp, ~RequestFails
  PROVE  srv'.ops \subseteq loro'.ops \cup Late'
<1>0. /\ TypeOK /\ ReadTyped /\ buffered \in Seq(Queued) /\ replay \in Seq(Queued) /\ up \in Seq(Frames)
      /\ (replay # <<>> => replaying) /\ OnTheWay(<<>>) = {}
  BY Fields, EmptyWay DEF Typed
<1>1. CASE UNCHANGED <<buffered, replay>>
  <2>1. Late' = Late
    BY <1>1, LateNext DEF Late, Waiting
  <2>2. CASE PeerChange
    <3>1. srv'.ops = srv.ops \cup {peers'} /\ peers' \in PeerChanges
      BY <1>0, <2>2, PeerChangeGives
    <3>2. Online /\ ~Running
      <4>1. ASSUME Running PROVE FALSE
        <5>1. PICK c \in Queued : buffered' = Append(buffered, c)
          BY <1>0, <2>2, <4>1, PeerChangeGives
        <5>2. Len(Append(buffered, c)) = Len(buffered) + 1 /\ Len(buffered) \in Nat
          BY <1>0, QueueFacts
        <5>3. Len(buffered') = Len(buffered)
          BY <1>1
        <5> QED BY <5>1, <5>2, <5>3
      <4> QED BY <4>1
    <3>3. PICK n \in PeerChanges, vv \in Versions : n = peers' /\ Broadcast(n, vv) /\ srv' \in Versions
      <4>1. srv' \in Versions /\ (Broadcast(peers', srv') \/ unheard' = TRUE)
        BY <1>0, <2>2, <3>2, PeerChangeGives
      <4>2. PICK n \in PeerChanges, vv \in Versions : n = peers' /\ vv = srv'
        BY <3>1, <4>1
      <4> QED BY <4>1, <4>2
    <3>4. peers' \in loro'.ops
      <4>1. Taken(n) \subseteq doc'.ops /\ loro' = doc'
        BY <1>0, <3>3, BroadcastGives
      <4> QED BY <3>3, <4>1 DEF Taken
    <3> QED BY <2>1, <3>1, <3>4
  <2>3. CASE ServePush
    <3>1. up # <<>> /\ srv'.ops \subseteq srv.ops \cup Head(up).add.ops
      BY <1>0, <2>3, ServePushGives
    <3>2. Head(up) \in OnTheWay(up)
      BY <1>0, <3>1, WayFacts
    <3>3. Head(up).add.ops \subseteq loro.ops
      BY <3>2 DEF Pushes
    <3> QED BY <2>1, <3>1, <3>3
  <2>4. CASE ~PeerChange /\ ~ServePush
    BY <2>1, <2>4, SrvStep
  <2> QED BY <2>2, <2>3, <2>4
<1>2. CASE PeerChange
  <2>1. srv'.ops = srv.ops \cup {peers'} /\ replay' = replay
    BY <1>0, <1>2, PeerChangeGives
  <2>2. CASE Online /\ ~Running
    BY <1>0, <1>1, <1>2, <2>2, PeerChangeGives
  <2>3. CASE Online /\ Running
    <3>1. PICK c \in Queued : c.change = peers' /\ buffered' = Append(buffered, c)
      BY <1>0, <1>2, <2>3, PeerChangeGives
    <3>2. OnTheWay(buffered') = OnTheWay(buffered) \cup {c}
      BY <1>0, <3>1, WayFacts
    <3>3. Late \cup {peers'} \subseteq Late'
      BY <2>1, <3>1, <3>2, LateNext DEF Late, Waiting
    <3> QED BY <2>1, <3>3
  <2> QED BY <2>2, <2>3
<1>3. CASE Replay
  <2>1. PICK n \in PeerChanges, vv \in Versions : n = Head(replay).change /\ Broadcast(n, vv) /\ srv' = srv
                                                  /\ replay # <<>> /\ replay' = Tail(replay) /\ buffered' = buffered
    <3>1. replay # <<>> /\ srv' = srv /\ buffered' = buffered
      BY <1>3 DEF Replay, server
    <3>2. Head(replay) \in Queued
      BY <1>0, <3>1, QueueFacts
    <3>3. PICK n \in PeerChanges, vv \in Versions : n = Head(replay).change /\ vv = Head(replay).vv
      BY <3>2 DEF Queued
    <3>4. \/ Broadcast(n, vv) /\ replay' = Tail(replay)
          \/ unheard' = TRUE
      BY <1>3, <3>3 DEF Replay
    <3> QED BY <3>1, <3>3, <3>4
  <2>2. n \in loro'.ops
    <3>1. srv' \in Versions
      BY <1>0, <2>1, Fields
    <3>2. Taken(n) \subseteq doc'.ops /\ loro' = doc'
      BY <1>0, <2>1, <3>1, BroadcastGives
    <3> QED BY <3>2 DEF Taken
  <2>3. OnTheWay(replay) = {Head(replay)} \cup OnTheWay(replay')
    BY <1>0, <2>1, WayFacts
  <2>4. Late \subseteq {n} \cup Late'
    BY <2>1, <2>3, LateNext DEF Late, Waiting
  <2> QED BY <2>1, <2>2, <2>4
<1>4. CASE ReplayFails \/ SyncEnds \/ SaveDirtyPaths
  <2>1. CASE ReplayFails
    <3>1. replay = <<>>
      BY <2>1 DEF ReplayFails
    <3> QED BY <1>1, <2>1, <3>1 DEF ReplayFails
  <2>2. CASE SyncEnds
    <3>1. buffered = <<>>
      BY <2>2 DEF SyncEnds
    <3> QED BY <1>1, <2>2, <3>1 DEF SyncEnds
  <2>3. CASE SaveDirtyPaths
    <3>1. replay = <<>> /\ replay' = buffered /\ buffered' = <<>> /\ srv' = srv
      BY <1>0, <2>3 DEF SaveDirtyPaths, server
    <3>2. Late' = Late
      BY <1>0, <3>1, LateNext DEF Late, Waiting
    <3> QED BY <3>1, <3>2
  <2> QED BY <1>4, <2>1, <2>2, <2>3
<1>5. CASE ~PeerChange /\ ~Replay /\ ~ReplayFails /\ ~SyncEnds /\ ~SaveDirtyPaths
  <2>1. UNCHANGED <<buffered, replay>>
    BY <1>5 DEF Next, FlushVVCache, ServePush, Listed, CleanSkip, HashSkip, Skips, FullSync, GivesUp, Adopt,
         ConflictCopied, Readopt, Disjoint, Merge, SaveVVCache, Type, DebounceFires, AutoSave, OpenNote, CloseNote,
         ExternalEdit, queues
  <2> QED BY <1>1, <2>1
<1> QED BY <1>2, <1>3, <1>4, <1>5

LEMMA GapStays ==
  ASSUME Typed, NoDeletes, LoroBehind, Pushes, LostHeard, Gap, Bound, Next
  PROVE  Gap'
<1> SUFFICES ASSUME Regular', Online', ~unheard', Caughtup' PROVE srv'.ops \subseteq loro'.ops \cup Late'
  BY DEF Gap
<1>0. TypeOK /\ ReadTyped /\ Regular /\ "failed" \notin lapses'
  BY RegularFacts DEF Typed
<1>1. CASE Adoption \/ Merge
  <2>1. srv.ops \subseteq doc'.ops /\ srv' = srv /\ loro' = doc'
    <3>1. CASE Adoption
      BY <1>0, <3>1, AdoptionGives
    <3>2. CASE Merge
      BY <1>0, <3>2, MergeGives, CaughtGives
    <3> QED BY <1>1, <3>1, <3>2
  <2> QED BY <2>1
<1>2. CASE Listed /\ ~Open /\ sync.cached.vv = srv
  <2>1. srv.ops \subseteq loro.ops
    BY <1>0, <1>2 DEF Bound, Proven
  <2>2. loro' = loro /\ srv' = srv
    BY <1>2 DEF Listed
  <2> QED BY <2>1, <2>2
<1>3. CASE /\ Online /\ ~unheard /\ Caughtup /\ sync.at \notin Asked
           /\ ~Missed /\ ~Connect /\ ~Start /\ ~Drop /\ ~Abort /\ ~Quit /\ ~Crash /\ ~GivesUp /\ ~RequestFails
           /\ ~ConflictCopied /\ ~Disjoint
  <2>1. loro.ops \subseteq loro'.ops
    BY <1>3, DocStep, LoroGrows
  <2>2. srv.ops \subseteq loro.ops \cup Late
    BY <1>0, <1>3 DEF Gap
  <2> QED BY <1>0, <1>3, <2>1, <2>2, LateStep DEF Asked
<1> QED BY <1>0, <1>1, <1>2, <1>3, CaughtupStep

---------------------------------------------------------------------------
(* The skips.                                                                 *)

(* What holds in every run, and in those where no replay met a sync.          *)
Known == Typed /\ NoDeletes /\ ReadCarried /\ LoroBehind /\ Heard /\ Bare /\ LostHeard
Synchronised ==
  /\ Single /\ ReadShown /\ PeersKnown /\ DocShown /\ EditorLeads
  /\ Quiet /\ Latest /\ Pushes /\ Bound /\ Gap
SkipInv == Known /\ (Alone => Synchronised)

LEMMA SkipInit == Init => SkipInv
<1> SUFFICES ASSUME Init PROVE SkipInv
  OBVIOUS
<1>0. /\ Typed /\ NoDeletes /\ ReadCarried /\ Nothing.ops = {} /\ NoCache.vv = Nothing /\ NoSync.cached = NoCache
      /\ NoSync.listed = Nothing /\ NoSync.at = "idle" /\ OnTheWay(<<>>) = {}
  BY TypedInit, KeptInit, Constants, EmptyWay
<1>1. /\ peers = 1 /\ srv = [ops |-> {1}, deleted |-> {}] /\ up = <<>> /\ phase = "closed" /\ doc = loro /\ editor = Closed
      /\ disk = {1} /\ fresh = FALSE /\ cache = NoCache /\ lastVV = Nothing /\ sync = NoSync /\ buffered = <<>>
      /\ replaying = FALSE /\ replay = <<>>
      /\ (loro = srv /\ stored = [vv |-> srv, hash |-> {1}]) \/ (loro = Nothing /\ stored = NoCache)
  BY DEF Init
<1>2. Single /\ ReadShown /\ LoroBehind /\ Bare /\ LostHeard
  BY <1>0, <1>1 DEF Single, ReadShown, Asked, LoroBehind, Bare, LostHeard, Online
<1>3. PeersKnown
  BY <1>0, <1>1, Numbering DEF PeersKnown, Waiting
<1>4. Heard
  BY <1>0, <1>1 DEF Heard, Vectors, Waiting
<1>5. DocShown
  BY <1>0, <1>1 DEF DocShown, Shown, Open, Asked
<1>6. EditorLeads /\ Quiet /\ Latest /\ Pushes
  BY <1>0, <1>1 DEF EditorLeads, Quiet, Latest, Pushes, Open
<1>7. Gap
  BY <1>0, <1>1 DEF Gap, Online
<1>8. Bound
  BY <1>0, <1>1 DEF Bound, Proven
<1> QED BY <1>0, <1>2, <1>3, <1>4, <1>5, <1>6, <1>7, <1>8 DEF SkipInv, Known, Synchronised

LEMMA SkipStep == SkipInv /\ [Next]_vars => SkipInv'
<1> SUFFICES ASSUME SkipInv, [Next]_vars PROVE SkipInv'
  OBVIOUS
<1>1. CASE Next
  <2>1. Known'
    BY <1>1, TypedStays, NoDeletesStays, ReadCarriedStays, LoroBehindStays, HeardStays, BareStays, LostHeardStays
       DEF SkipInv, Known
  <2>2. ASSUME Alone' PROVE Synchronised'
    <3>1. Known /\ Synchronised
      <4>1. lapses \subseteq lapses'
        BY <1>1, LapsesGrow DEF SkipInv, Known, Typed
      <4> QED BY <2>2, <4>1 DEF SkipInv, Alone
    <3>2. Single' /\ ReadShown' /\ PeersKnown' /\ DocShown' /\ EditorLeads'
      BY <1>1, <2>2, <3>1, SingleStays, ReadShownStays, PeersKnownStays, DocShownStays, EditorLeadsStays
         DEF Known, Synchronised
    <3>3. Quiet' /\ Latest' /\ Pushes' /\ Bound' /\ Gap'
      BY <1>1, <3>1, QuietStays, LatestStays, PushesStays, BoundStays, GapStays DEF Known, Synchronised
    <3> QED BY <3>2, <3>3 DEF Synchronised
  <2> QED BY <2>1, <2>2 DEF SkipInv
<1>2. CASE UNCHANGED vars
  <2>1. Typed'
    BY <1>2, TypedStays DEF SkipInv, Known
  <2>2. Known'
    BY <1>2, <2>1 DEF vars, server, text, persisted, caches, push, queues, counters, SkipInv, Known, NoDeletes,
       ReadCarried, LoroBehind, Heard, Bare, LostHeard, Online, OnTheWay, Vectors, Waiting
  <2>3. Alone' => Synchronised'
    BY <1>2 DEF vars, server, text, persisted, caches, push, queues, counters, SkipInv, Alone, Synchronised, Single,
       Running, Online, ReadShown, PeersKnown, DocShown, EditorLeads, Quiet, Latest, Pushes, Bound, Gap, Regular, Spared,
       Shown, Open, OnTheWay, Proven, Late, Waiting, Caughtup, Unchanged
  <2> QED BY <2>2, <2>3 DEF SkipInv
<1> QED BY <1>1, <1>2

(* A note that is passed over because of the cache has all that the server    *)
(* listed, in its document and in its file, whatever crashes and broken       *)
(* syncs came before, in syncs that outlive their connection, too             *)
(* (sync-initial.ts, the version-vector skip and the hash skip).              *)
THEOREM SkipsSound == Spec => SkipsAreSound
<1> DEFINE Skip == /\ sync.at = "planned" /\ sync'.at = "ending"
                   /\ lapses \cap {"failed", "unsaved", "doubled", "reverted", "overlapped"} = {}
           Sound == Covers(doc, sync.listed) /\ Text(sync.listed) \subseteq Shown
<1>1. SkipInv /\ [Next]_vars => [Skip => Sound]_vars
  <2> SUFFICES ASSUME SkipInv, Next, Skip PROVE Sound
    BY DEF vars
  <2>0. Typed /\ TypeOK /\ Regular /\ Synchronised /\ LoroBehind /\ sync \in Syncs
    BY Fields DEF SkipInv, Known, Typed, Regular, Spared, Alone
  <2>1. Unchanged(sync)
    <3>1. ~Asking /\ ~Adoption /\ ~Merge
      BY <2>0, AskingGives, AdoptionGives, MergeGives DEF Typed
    <3>2. ~RequestFails
      BY DEF RequestFails
    <3>3. sync' # sync /\ sync' # NoSync /\ sync' # [sync EXCEPT !.lost = TRUE]
      BY <2>0, Constants DEF Syncs
    <3>4. CleanSkip \/ HashSkip
      BY <2>0, <3>1, <3>2, <3>3, SyncStep
    <3> QED BY <3>4 DEF CleanSkip, HashSkip, Clean
  <2>2. sync.listed.ops \subseteq loro.ops /\ loro.ops \subseteq doc.ops /\ loro.ops \subseteq Shown
    BY <2>0, <2>1 DEF Synchronised, Bound, DocShown, LoroBehind
  <2>3. sync.listed \in Versions /\ doc \in Versions /\ sync.listed.deleted = {}
    BY <2>0, Fields, SyncFields DEF SkipInv, Known, NoDeletes, Regular, Spared
  <2>4. Covers(doc, sync.listed)
    BY <2>2, <2>3, CoverFacts
  <2>5. Text(sync.listed) \subseteq sync.listed.ops
    BY <2>3, VersionFacts
  <2> QED BY <2>2, <2>4, <2>5
<1>2. SkipsAreSound <=> [][Skip => Sound]_vars
  BY DEF SkipsAreSound
<1> QED BY <1>1, <1>2, SkipInit, SkipStep, PTL DEF Spec

---------------------------------------------------------------------------
(* The marks.                                                                 *)

(* Runs without a lapse that loses text: all but "unsent", which the marks    *)
(* make up for.                                                               *)
Accounted == Spared(Lost)

(* What the server has, or will have unless the connection is lost.           *)
Exempt == {f \in OnTheWay(up) : f.kind = "exempt"}
Served == srv.ops \cup UNION {f.add.ops : f \in Exempt}

(* Typed text is served or in a copy, or the note is marked.                  *)
Marked == Accounted => typed \subseteq Served \cup copies \/ dirty

(* The caches take nothing for synchronised that is not served.               *)
Hashes == cache.hash \cup stored.hash \cup sync.cached.hash
HashServed ==
  Accounted =>
    /\ Hashes \cap OwnChanges \subseteq Served
    /\ sync.at \in {"ending", "saved"} => sync.hash \cap OwnChanges \subseteq Served

(* The server can take the push of an initial sync.                           *)
ExemptNeeds == \A f \in Exempt : f.needs \subseteq srv.ops

(* Only changes that were made were typed.                                    *)
TypedOwn == typed \subseteq Own

LEMMA TypedOwnStays ==
  ASSUME Typed, TypedOwn, Next
  PROVE  TypedOwn'
BY OwnStep DEF TypedOwn

LEMMA ServedNext ==
  /\ Exempt' = {f \in OnTheWay(up') : f.kind = "exempt"}
  /\ Served' = srv'.ops \cup UNION {f.add.ops : f \in Exempt'}
  /\ Accounted' => /\ "exempt" \notin lapses' /\ "bound" \notin lapses' /\ "unmarked" \notin lapses'
                   /\ "failed" \notin lapses' /\ "doubled" \notin lapses' /\ "reverted" \notin lapses'
BY DEF Exempt, Served, OnTheWay, Accounted, Spared, Lost

LEMMA ExemptNeedsStays ==
  ASSUME Typed, ExemptNeeds, Next
  PROVE  ExemptNeeds'
<1> SUFFICES ASSUME NEW f \in OnTheWay(up'), f.kind = "exempt" PROVE f.needs \subseteq srv'.ops
  BY ServedNext DEF ExemptNeeds
<1>1. f \in OnTheWay(up) \/ f.needs \subseteq srv.ops
  BY WayStep DEF Carries
<1> QED BY <1>1, SrvStep DEF ExemptNeeds, Exempt

LEMMA ServedStep ==
  ASSUME Typed, ExemptNeeds, Next, Accounted'
  PROVE  Served \subseteq Served'
<1>0. TypeOK /\ srv.ops \subseteq srv'.ops /\ "exempt" \notin lapses'
  BY SrvStep, ServedNext DEF Typed
<1>1. ASSUME NEW f \in Exempt PROVE f.add.ops \subseteq Served'
  <2>0. f \in OnTheWay(up) /\ f.kind = "exempt" /\ f.needs \subseteq srv.ops
    BY DEF Exempt, ExemptNeeds
  <2>1. CASE f \in OnTheWay(up')
    <3>1. f \in Exempt'
      BY <2>0, <2>1, ServedNext
    <3> QED BY <3>1, ServedNext
  <2>2. CASE ServePush /\ f = Head(up)
    <3>1. srv'.ops = srv.ops \cup f.add.ops
      BY <1>0, <2>0, <2>2, ServePushGives
    <3> QED BY <3>1, ServedNext
  <2>3. Unlost(f)
    BY <2>0, WayStep
  <2> QED BY <1>0, <2>1, <2>2, <2>3 DEF Unlost
<1> QED BY <1>0, <1>1, ServedNext DEF Served

LEMMA HashServedStays ==
  ASSUME Typed, Heard, ExemptNeeds, HashServed, Next
  PROVE  HashServed'
<1> SUFFICES ASSUME Accounted'
             PROVE  /\ (cache'.hash \cup stored'.hash \cup sync'.cached.hash) \cap OwnChanges \subseteq Served'
                    /\ sync'.at \in {"ending", "saved"} => sync'.hash \cap OwnChanges \subseteq Served'
  BY DEF HashServed, Hashes
<1>0. /\ TypeOK /\ ReadTyped /\ Accounted /\ Served \subseteq Served' /\ srv'.ops \subseteq Served'
      /\ "bound" \notin lapses' /\ "failed" \notin lapses' /\ "doubled" \notin lapses'
      /\ NoCache.hash = Closed /\ Closed \cap OwnChanges = {}
  BY SparedBefore, ServedStep, ServedNext, Constants, Numbering DEF Typed, Accounted
<1>1. /\ cache.hash \cap OwnChanges \subseteq Served' /\ stored.hash \cap OwnChanges \subseteq Served'
      /\ sync.cached.hash \cap OwnChanges \subseteq Served'
      /\ sync.at \in {"ending", "saved"} => sync.hash \cap OwnChanges \subseteq Served'
  BY <1>0 DEF HashServed, Hashes
<1>2. Told => cache'.hash \subseteq Served'
  <2> SUFFICES ASSUME Told PROVE cache'.hash \subseteq Served'
    OBVIOUS
  <2>1. PICK n \in PeerChanges, vv \in Versions : Heeds(n, vv) /\ Broadcast(n, vv)
    BY DEF Told
  <2>2. /\ doc' \in Versions /\ lastVV' \in Versions
        /\ cache' = [vv |-> lastVV', hash |-> Text(doc')] /\ Covers(lastVV', doc')
    BY <1>0, <2>1, HeedsGives, BroadcastGives
  <2>3. doc'.ops \subseteq lastVV'.ops
    BY <2>2, CoverFacts
  <2>4. cache'.vv = lastVV' /\ cache'.hash = Text(doc')
    BY <2>2
  <2>5. cache'.vv.ops \subseteq srv'.ops
    <3>1. cache'.vv \in Vectors'
      BY DEF Vectors
    <3> QED BY <3>1, HeardStays DEF Heard
  <2>6. Text(doc') \subseteq doc'.ops
    BY <2>2, VersionFacts
  <2> QED BY <1>0, <2>3, <2>4, <2>5, <2>6
<1>3. ASSUME NEW e \in {cache', stored', sync'.cached} PROVE e.hash \cap OwnChanges \subseteq Served'
  <2>1. CASE SaveVVCache /\ e = [vv |-> lastVV, hash |-> sync.hash]
    BY <1>1, <2>1 DEF SaveVVCache
  <2>2. CASE Told /\ e = cache'
    BY <1>2, <2>2
  <2>3. CASE e \in {cache, stored, sync.cached, NoCache}
    BY <1>0, <1>1, <2>3
  <2> QED BY <2>1, <2>2, <2>3, EntriesStep
<1>4. ASSUME sync'.at \in {"ending", "saved"} PROVE sync'.hash \cap OwnChanges \subseteq Served'
  <2>1. CASE Adoption
    <3>1. doc' \in Versions /\ sync'.hash = Text(doc') /\ doc'.ops = srv.ops /\ srv' = srv
      BY <1>0, <2>1, AdoptionGives
    <3>2. Text(doc') \subseteq doc'.ops
      BY <3>1, VersionFacts
    <3> QED BY <1>0, <3>1, <3>2
  <2>2. CASE Merge
    <3>1. doc' \in Versions /\ sync'.hash = Text(doc') /\ doc'.ops = Fetched.ops /\ srv' = srv
      BY <1>0, <2>2, MergeGives
    <3>2. Text(doc') \subseteq Fetched.ops
      BY <3>1, VersionFacts
    <3>3. Fetched.ops \subseteq Served'
      <4>1. CASE Fetched.ops \subseteq srv.ops
        BY <1>0, <3>1, <4>1
      <4>2. CASE PushOf("exempt", srv, Fetched) \in OnTheWay(up')
        <5>1. /\ PushOf("exempt", srv, Fetched).kind = "exempt"
              /\ PushOf("exempt", srv, Fetched).add.ops = Fetched.ops \ srv.ops
          BY <1>0, Fields, CaughtGives, PushFacts
        <5>2. PushOf("exempt", srv, Fetched) \in Exempt'
          BY <4>2, <5>1, ServedNext
        <5>3. Fetched.ops \ srv.ops \subseteq Served'
          BY <5>1, <5>2, ServedNext
        <5> QED BY <1>0, <3>1, <5>3
      <4> QED BY <1>0, <2>2, <4>1, <4>2, MergeSends
    <3> QED BY <3>1, <3>2, <3>3
  <2>3. CASE sync' = sync
    BY <1>1, <1>4, <2>3
  <2>4. CASE (SaveVVCache /\ sync'.hash = sync.hash) \/ sync' = [sync EXCEPT !.lost = TRUE]
    <3>1. sync \in Syncs
      BY <1>0, Fields
    <3>2. sync'.hash = sync.hash
      BY <2>4, <3>1 DEF Syncs
    <3>3. sync.at \in {"ending", "saved"}
      BY <1>4, <2>4, <3>1 DEF SaveVVCache, Syncs
    <3> QED BY <1>1, <3>2, <3>3
  <2>5. CASE sync'.hash = sync.cached.hash
    BY <1>1, <2>5
  <2>6. ~Asking /\ ~RequestFails /\ sync' # NoSync
    BY <1>0, <1>4, AskingGives, Constants DEF RequestFails
  <2> QED BY <1>4, <2>1, <2>2, <2>3, <2>4, <2>5, <2>6, SyncStep
<1> QED BY <1>3, <1>4

(* A mark goes only at the end of a sync.                                     *)
LEMMA MarkStep ==
  ASSUME Typed, Next
  PROVE  \/ dirty' = TRUE
         \/ dirty' = dirty /\ typed' \subseteq typed
         \/ SaveDirtyPaths
<1>0. TypeOK /\ ReadTyped
  BY DEF Typed
<1>1. CASE Told \/ Missed
  <2>1. PICK n \in PeerChanges, vv \in Versions : Heeds(n, vv) /\ (Broadcast(n, vv) \/ CatchUpFails(n, vv))
    BY <1>1 DEF Told, Missed
  <2>2. UNCHANGED <<dirty, typed>>
    BY <1>0, <2>1, HeedsGives, BroadcastGives, MissGives
  <2> QED BY <2>2
<1>2. CASE Type \/ ExternalEdit \/ CloseNote
  BY <1>2 DEF Type, ExternalEdit, CloseNote, Modified, MarkDirty
<1>3. CASE ~Told /\ ~Missed /\ ~Type /\ ~ExternalEdit /\ ~CloseNote /\ ~SaveDirtyPaths
  <2>1. dirty' = dirty /\ typed' \subseteq typed
    BY <1>0, <1>3, ByKind, PeerChangeGives, GivesUpGives, AskingGives
       DEF Unheeded, Here, Adoption, Start, Drop, Abort, ReplayFails, Quit, Crash, Ended, FlushVVCache, Connect,
           ServePush, Listed, CleanSkip, HashSkip, Skips, Adopt, ConflictCopied, Readopt, Disjoint, Merge, RequestFails,
           SaveVVCache, SyncEnds, DebounceFires, AutoSave, OpenNote
  <2> QED BY <2>1
<1> QED BY <1>1, <1>2, <1>3

LEMMA MarkedStays ==
  ASSUME Typed, ExemptNeeds, HashServed, Marked, Next
  PROVE  Marked'
<1> SUFFICES ASSUME Accounted', ~dirty' PROVE typed' \subseteq Served' \cup copies'
  BY DEF Marked
<1>0. /\ TypeOK /\ Accounted /\ Served \subseteq Served' /\ copies \subseteq copies' /\ "unmarked" \notin lapses'
      /\ typed \subseteq OwnChanges
  BY SparedBefore, ServedStep, ServedNext, CopiesStep, Fields DEF Typed, Accounted
<1>1. CASE dirty' = dirty /\ typed' \subseteq typed
  BY <1>0, <1>1 DEF Marked
<1>2. CASE SaveDirtyPaths
  <2>1. /\ sync.at = "saved" /\ ~sync.dirty /\ typed' = typed
        /\ "unmarked" \notin (IF dirty /\ ~sync.dirty /\ ~(typed \subseteq sync.hash \cup copies) THEN {"unmarked"} ELSE {})
    BY <1>0, <1>2 DEF SaveDirtyPaths, ReplaceMarks
  <2>2. ~dirty \/ typed \subseteq sync.hash \cup copies
    BY <2>1
  <2>3. sync.hash \cap OwnChanges \subseteq Served
    BY <1>0, <2>1 DEF HashServed
  <2> QED BY <1>0, <2>1, <2>2, <2>3 DEF Marked
<1> QED BY <1>1, <1>2, MarkStep

ForgetInv == SkipInv /\ Kept /\ Marked /\ HashServed /\ ExemptNeeds /\ TypedOwn

LEMMA ForgetInit == Init => ForgetInv
<1> SUFFICES ASSUME Init PROVE ForgetInv
  OBVIOUS
<1>0. /\ SkipInv /\ Kept /\ NoCache.hash = Closed /\ Closed \cap OwnChanges = {} /\ NoSync.cached = NoCache
      /\ NoSync.at = "idle" /\ OnTheWay(<<>>) = {} /\ 1 \in PeerChanges /\ PeerChanges \cap OwnChanges = {}
  BY SkipInit, KeptInit, Constants, Numbering, EmptyWay
<1>1. /\ srv = [ops |-> {1}, deleted |-> {}] /\ up = <<>> /\ cache = NoCache /\ sync = NoSync /\ typed = {}
      /\ stored = [vv |-> srv, hash |-> {1}] \/ stored = NoCache
  BY DEF Init
<1>2. stored.hash \cap OwnChanges = {}
  BY <1>0, <1>1
<1>3. HashServed
  BY <1>0, <1>1, <1>2 DEF HashServed, Hashes
<1>4. Marked /\ ExemptNeeds /\ TypedOwn
  BY <1>0, <1>1 DEF Marked, ExemptNeeds, Exempt, TypedOwn
<1> QED BY <1>0, <1>3, <1>4 DEF ForgetInv

LEMMA ForgetStep == ForgetInv /\ [Next]_vars => ForgetInv'
<1> SUFFICES ASSUME ForgetInv, [Next]_vars PROVE ForgetInv'
  OBVIOUS
<1>1. SkipInv'
  BY SkipStep DEF ForgetInv
<1>2. Kept'
  BY KeptStep DEF ForgetInv, SkipInv, Known, KeptInv
<1>3. CASE Next
  <2>1. Marked' /\ HashServed' /\ ExemptNeeds' /\ TypedOwn'
    BY <1>3, MarkedStays, HashServedStays, ExemptNeedsStays, TypedOwnStays DEF ForgetInv, SkipInv, Known
  <2> QED BY <1>1, <1>2, <2>1 DEF ForgetInv
<1>4. CASE UNCHANGED vars
  <2>1. Marked' /\ HashServed' /\ ExemptNeeds' /\ TypedOwn'
    BY <1>4 DEF vars, ForgetInv, Marked, HashServed, Hashes, ExemptNeeds, TypedOwn, Accounted, Spared, Served, Exempt,
       OnTheWay, Own
  <2> QED BY <1>1, <1>2, <2>1 DEF ForgetInv
<1> QED BY <1>3, <1>4

(* After a sync, with nothing on the way, typed text is with the server or    *)
(* in a copy, or the marks and the cache make the next sync deal with it;     *)
(* and the note shows all that the server has, or the cache will make the     *)
(* next sync ask for what passed unheard (startup-dirty-tracker.ts and the    *)
(* version-vector cache), in every run without one of the named lapses.       *)
THEOREM NothingIsForgotten == Spec => []NothingForgotten
<1>1. ForgetInv => NothingForgotten
  <2> SUFFICES ASSUME ForgetInv, AtRest, lapses \cap Lost = {}
               PROVE  /\ typed \subseteq srv.ops \cup copies \/ Traced
                      /\ (Covers(doc, srv) /\ Text(srv) \subseteq Shown) \/ (unheard /\ Outdated)
    BY DEF NothingForgotten
  <2>0. /\ Typed /\ TypeOK /\ Accounted /\ Regular /\ Whole /\ Online /\ ~Running /\ ~replaying /\ up = <<>>
        /\ Synchronised /\ LoroBehind
        /\ doc \in Versions /\ srv \in Versions /\ typed \subseteq OwnChanges
    BY Fields DEF ForgetInv, SkipInv, Known, Typed, Accounted, Regular, Whole, Spared, Lost, AtRest, Alone
  <2>1. Served = srv.ops
    BY <2>0, EmptyWay DEF Served, Exempt
  <2>2. typed \subseteq srv.ops \cup copies \/ Traced
    <3>1. CASE ~dirty
      BY <2>0, <2>1, <3>1 DEF ForgetInv, Marked
    <3>2. CASE dirty /\ Shown = cache.hash
      <4>1. typed \subseteq Shown \cup copies
        BY <2>0 DEF ForgetInv, Kept, TypedOwn
      <4>2. cache.hash \cap OwnChanges \subseteq srv.ops
        BY <2>0, <2>1 DEF ForgetInv, HashServed, Hashes
      <4> QED BY <2>0, <3>2, <4>1, <4>2
    <3>3. CASE dirty /\ Shown # cache.hash
      BY <3>3 DEF Traced
    <3> QED BY <3>1, <3>2, <3>3
  <2>3. srv.ops \subseteq loro.ops \/ (unheard /\ Outdated)
    <3>1. CASE ~unheard
      <4>1. buffered = <<>> /\ replay = <<>>
        BY <2>0, Fields
      <4>2. Late = {}
        BY <4>1, EmptyWay DEF Late, Waiting
      <4>3. srv.ops \subseteq loro.ops \cup Late
        BY <2>0, <3>1 DEF Synchronised, Gap, Caughtup
      <4> QED BY <4>2, <4>3
    <3>2. CASE unheard /\ cache.vv = srv
      BY <2>0, <3>2 DEF Synchronised, Bound, Proven
    <3>3. CASE unheard /\ cache.vv # srv
      BY <3>3 DEF Outdated
    <3> QED BY <3>1, <3>2, <3>3
  <2>4. ASSUME srv.ops \subseteq loro.ops PROVE Covers(doc, srv) /\ Text(srv) \subseteq Shown
    <3>1. loro.ops \subseteq doc.ops /\ loro.ops \subseteq Shown /\ srv.deleted = {}
      BY <2>0 DEF LoroBehind, Synchronised, DocShown, ForgetInv, SkipInv, Known, NoDeletes, Regular, Spared
    <3>2. Covers(doc, srv)
      BY <2>0, <2>4, <3>1, CoverFacts
    <3>3. Text(srv) \subseteq srv.ops
      BY <2>0, VersionFacts
    <3> QED BY <2>4, <3>1, <3>2, <3>3
  <2> QED BY <2>2, <2>3, <2>4
<1> QED BY <1>1, ForgetInit, ForgetStep, PTL DEF Spec
=============================================================================
