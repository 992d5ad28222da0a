------------------------- MODULE BlobIndexStoreProofs -------------------------
(***************************************************************************)
(* Proofs about BlobIndexStore, for every set of updates and every bound.  *)
(* IInv is inductive; the durability properties and the refinement of      *)
(* DurableRegister follow from it.                                         *)
(***************************************************************************)
EXTENDS BlobIndexStore, TLAPS

LEMMA Contents ==
  /\ \A c \in Content : Valid(c) <=> c \in Snapshot
  /\ Absent \notin Snapshot /\ Torn \notin Snapshot /\ Absent # Torn
  BY StoreAssumption DEF Content, Valid, Snapshot

\* A write in progress, however it ends, leaves what a restart reads alone, makes it the snapshot
\* being stored, or spoils a disk that held nothing.
LEMMA WriteEffect ==
  ASSUME IInv, task.pc # "idle", Interrupted
  PROVE  /\ main' \in Content /\ bak' \in Content
         /\ \A s \in Snapshot : Covers(s) /\ task.snap \subseteq s => Covers(s)'
         /\ task.pc # "main" => View' = View /\ Valid(View)
         /\ task.pc = "main" => \/ View' = View
                                \/ View' = task.snap
                                \/ View = Absent /\ View' = Torn
<1> USE StoreAssumption DEF IInv, TypeOK, OtherFileValid, Content, Snapshot, Valid, Covers, View, Task, Writes
<1>1. CASE task.pc = "bak"
  <2>1. main' = main /\ (bak' = bak \/ bak' = Torn \/ bak' = main) /\ Valid(main)
    BY <1>1 DEF Interrupted, Wrote, Bytes
  <2> QED BY <1>1, <2>1
<1>2. CASE task.pc = "restore"
  <2>1. bak' = bak /\ (main' = main \/ main' = Torn \/ main' = bak) /\ Valid(bak) /\ ~Valid(main)
    BY <1>2 DEF Interrupted, Wrote, Bytes
  <2> QED BY <1>2, <2>1
<1>3. CASE task.pc = "main"
  <2>1. /\ bak' = bak /\ (main' = main \/ main' = Torn \/ main' = task.snap)
        /\ (main = Absent /\ bak = Absent) \/ (Valid(main) /\ bak = main)
        /\ Valid(task.snap)
    BY <1>3 DEF Interrupted, Wrote, Bytes
  <2> QED BY <1>3, <2>1
<1> QED BY <1>1, <1>2, <1>3

\* Stated apart: a step that also knows how the queue shrank is too much for the provers.
LEMMA EmptyLength == Len(<<>>) = 0
  OBVIOUS

LEMMA SequenceFacts ==
  ASSUME NEW T, NEW q \in Seq(T)
  PROVE  /\ Len(q) \in Nat
         /\ \A i \in 1..Len(q) : q[i] \in T
         /\ \A t \in T : /\ Append(q, t) \in Seq(T) /\ Len(Append(q, t)) = Len(q) + 1
                          /\ Append(q, t)[Len(q) + 1] = t
                          /\ \A i \in 1..Len(q) : Append(q, t)[i] = q[i]
         /\ q # <<>> => /\ Len(q) \in Nat \ {0} /\ Head(q) = q[1] /\ Head(q) \in T
                        /\ Tail(q) \in Seq(T) /\ Len(Tail(q)) = Len(q) - 1
                        /\ \A i \in 1..Len(Tail(q)) : Tail(q)[i] = q[i + 1]
  OBVIOUS

\* A snapshot of the newest memory may join the queue.
LEMMA Enqueued ==
  ASSUME IInv, phase = "up", NEW kind \in Kinds, NEW s \in Snapshot, file \subseteq s,
         file' = s, queue' = Enqueue(kind, s), UNCHANGED <<disk, phase, task>>
  PROVE  QueueOrdered' /\ TaskOrdered' /\ queue' \in Seq([kind : Kinds, snap : Snapshot])
<1> DEFINE T == [kind : Kinds, snap : Snapshot]
           t == [kind |-> kind, snap |-> s]
<1>1. queue \in Seq(T) /\ t \in T /\ queue' = Append(queue, t)
  BY DEF IInv, TypeOK, Enqueue
<1>2. /\ queue' \in Seq(T) /\ Len(queue') = Len(queue) + 1
      /\ queue'[Len(queue) + 1] = t
      /\ \A i \in 1..Len(queue) : queue'[i] = queue[i]
      /\ Len(queue) \in Nat
  <2> HIDE DEF T, t
  <2> QED BY <1>1, SequenceFacts
<1>3. \A i \in 1..Len(queue') : i \in 1..Len(queue) \/ i = Len(queue) + 1
  BY <1>2
<1>4. t.snap = s
  OBVIOUS
<1> HIDE DEF T, t
<1>5. /\ Covers(s)
      /\ task.pc # "idle" => task.snap \subseteq s
      /\ \A i \in 1..Len(queue) : Covers(queue[i].snap) /\ queue[i].snap \subseteq s
  BY DEF IInv, PhaseInv, QueueOrdered, TaskOrdered, Covers
<1>6. \A i \in 1..Len(queue') : Covers(queue'[i].snap) /\ queue'[i].snap \subseteq file'
  <2> TAKE i \in 1..Len(queue')
  <2>1. CASE i \in 1..Len(queue) BY <2>1, <1>2, <1>5
  <2>2. CASE i = Len(queue) + 1
    <3>1. queue'[i].snap = s BY <2>2, <1>2, <1>4
    <3> QED BY <3>1, <1>5
  <2> QED BY <2>1, <2>2, <1>3
<1>7. \A i, j \in 1..Len(queue') : i <= j => queue'[i].snap \subseteq queue'[j].snap
  <2> TAKE i, j \in 1..Len(queue')
  <2> HAVE i <= j
  <2>1. CASE j \in 1..Len(queue)
    <3>1. i \in 1..Len(queue) BY <2>1, <1>2
    <3> QED BY <3>1, <2>1, <1>2 DEF IInv, QueueOrdered
  <2>2. CASE j = Len(queue) + 1
    BY <2>2, <1>2, <1>3, <1>4, <1>5
  <2> QED BY <2>1, <2>2, <1>3
<1>8. QueueOrdered'
  BY <1>6, <1>7 DEF QueueOrdered, Covers, disk
<1>9. TaskOrdered'
  BY <1>2, <1>3, <1>4, <1>5 DEF TaskOrdered, IInv, Covers, disk
<1> QED BY <1>2, <1>8, <1>9 DEF T

\* The oldest snapshot may leave the queue.
LEMMA Dequeued ==
  ASSUME IInv, queue # <<>>, queue' = Tail(queue), UNCHANGED <<disk, file>>
  PROVE  /\ queue' \in Seq([kind : Kinds, snap : Snapshot]) /\ QueueOrdered'
         /\ Head(queue) \in [kind : Kinds, snap : Snapshot]
         /\ Covers(Head(queue).snap) /\ Head(queue).snap \subseteq file
         /\ \A i \in 1..Len(queue') : Head(queue).snap \subseteq queue'[i].snap
<1> DEFINE T == [kind : Kinds, snap : Snapshot]
<1>1. queue \in Seq(T)
  BY DEF IInv, TypeOK
<1> HIDE DEF T
<1>2. /\ Len(queue) \in Nat \ {0} /\ Head(queue) = queue[1] /\ Head(queue) \in T
      /\ queue' \in Seq(T) /\ Len(queue') = Len(queue) - 1
      /\ \A i \in 1..Len(queue') : queue'[i] = queue[i + 1]
  BY <1>1, SequenceFacts
<1>3. 1 \in 1..Len(queue) /\ \A i \in 1..Len(queue') : i + 1 \in 1..Len(queue)
  BY <1>2
<1>4. \A i \in 1..Len(queue') : Covers(queue'[i].snap) /\ queue'[i].snap \subseteq file
  BY <1>2, <1>3 DEF IInv, QueueOrdered
<1>5. \A i, j \in 1..Len(queue') : i <= j => queue'[i].snap \subseteq queue'[j].snap
  <2> TAKE i, j \in 1..Len(queue')
  <2> HAVE i <= j
  <2>1. i + 1 <= j + 1 BY <1>2
  <2> QED BY <1>2, <1>3, <2>1 DEF IInv, QueueOrdered
<1>6. \A i \in 1..Len(queue') : Head(queue).snap \subseteq queue'[i].snap
  <2> TAKE i \in 1..Len(queue')
  <2>1. 1 <= i + 1 BY <1>2
  <2> QED BY <1>2, <1>3, <2>1 DEF IInv, QueueOrdered
<1>7. QueueOrdered'
  BY <1>4, <1>5 DEF QueueOrdered, Covers, disk
<1>8. Covers(Head(queue).snap) /\ Head(queue).snap \subseteq file
  BY <1>2, <1>3 DEF IInv, QueueOrdered
<1> QED BY <1>2, <1>6, <1>7, <1>8 DEF T

\* A write that ends keeps the queue, the memory and its own snapshot ahead of the disk.
LEMMA WriteKeepsOrder ==
  ASSUME IInv, phase = "up", task.pc # "idle", Interrupted, UNCHANGED <<file, queue>>
  PROVE  QueueOrdered' /\ \A s \in {task.snap, file} : Covers(s)'
<1> DEFINE T == [kind : Kinds, snap : Snapshot]
<1>1. queue \in Seq(T) /\ task.snap \in Snapshot /\ file \in Snapshot
  BY DEF IInv, TypeOK, Task
<1>2. \A i \in 1..Len(queue) : queue[i] \in T
  <2> HIDE DEF T
  <2> QED BY <1>1, SequenceFacts
<1>3. \A i \in 1..Len(queue) : queue[i].snap \in Snapshot
  BY <1>2
<1>4. /\ \A i \in 1..Len(queue) : Covers(queue[i].snap) /\ task.snap \subseteq queue[i].snap
      /\ Covers(task.snap) /\ Covers(file) /\ task.snap \subseteq file
  BY DEF IInv, QueueOrdered, TaskOrdered, PhaseInv
<1>5. \A s \in Snapshot : Covers(s) /\ task.snap \subseteq s => Covers(s)'
  BY WriteEffect
<1>6. \A i \in 1..Len(queue') : Covers(queue[i].snap)'
  BY <1>3, <1>4, <1>5
<1>7. QueueOrdered'
  BY <1>6 DEF QueueOrdered, IInv
<1>8. \A s \in {task.snap, file} : Covers(s)'
  BY <1>1, <1>4, <1>5
<1> QED BY <1>7, <1>8

-------------------------------------------------------------------------------
LEMMA SettleType ==
  ASSUME flush \in [st : FlushStates, ahead : Nat, need : Snapshot], NEW b \in BOOLEAN
  PROVE  /\ Settle(b) \in [st : FlushStates, ahead : Nat, need : Snapshot]
         /\ flush.st = "none" => Settle(b).st = "none"
<1> USE DEF FlushStates
<1>1. CASE flush.st = "retry" /\ flush.ahead = 1
  <2> DEFINE end == IF b THEN "rejected" ELSE "ok"
  <2>1. Settle(b) = [flush EXCEPT !.ahead = 0, !.st = end] BY <1>1 DEF Settle
  <2>2. end \in FlushStates BY Zenon
  <2> HIDE DEF end
  <2>3. Settle(b) = [st |-> end, ahead |-> 0, need |-> flush.need] BY <2>1
  <2>4. flush.need \in Snapshot OBVIOUS
  <2> QED BY <1>1, <2>2, <2>3, <2>4
<1>2. CASE ~(flush.st = "retry" /\ flush.ahead = 1) /\ flush.ahead > 0
  <2>1. Settle(b) = [flush EXCEPT !.ahead = @ - 1] BY <1>2 DEF Settle
  <2> QED BY <1>2, <2>1
<1>3. CASE ~(flush.st = "retry" /\ flush.ahead = 1) /\ ~(flush.ahead > 0)
  <2>1. Settle(b) = flush BY <1>3 DEF Settle
  <2> QED BY <2>1
<1> QED BY <1>1, <1>2, <1>3

\* IInv holds at the start and no action of the system breaks it.
LEMMA InitIInv == Init => IInv
<1> SUFFICES ASSUME Init PROVE IInv OBVIOUS
<1> USE StoreAssumption DEF Init
<1>1. TypeOK
  <2>1. {} \in Snapshot /\ Absent \in Content BY DEF Snapshot, Content
  <2>2. queue \in Seq([kind : Kinds, snap : Snapshot]) OBVIOUS
  <2>3. task \in Task BY <2>1 DEF Idle, Task
  <2>4. flush \in [st : FlushStates, ahead : Nat, need : Snapshot] BY <2>1 DEF NoFlush, FlushStates
  <2> QED BY <2>1, <2>2, <2>3, <2>4 DEF TypeOK
<1>2. View = Absent BY DEF View, Valid
<1>3. QueueOrdered /\ TaskOrdered /\ OtherFileValid /\ PhaseInv
  BY DEF QueueOrdered, TaskOrdered, OtherFileValid, PhaseInv, Idle, NoFlush, Writes
<1> QED BY <1>1, <1>3 DEF IInv, StoredInv

-------------------------------------------------------------------------------
\* One lemma per group of actions: each keeps IInv.
LEMMA LoadKeepsIInv ==
  ASSUME IInv, Load \/ LoadRecovered
  PROVE  IInv'
<1> USE DEF disk, memory, LoadFrom
<1>1. /\ queue = <<>> /\ phase = "down" /\ ~err /\ ~timer /\ flush.st = "none" /\ task.pc = "idle"
      /\ UNCHANGED <<main, bak, queue, flush, timer, err, disposed, faults>>
  BY DEF Load, LoadRecovered, IInv, TypeOK, PhaseInv
<1>2. /\ View' = View /\ View \in Content
      /\ Valid(View) => View \in Snapshot
  <2>1. View' = View BY <1>1 DEF View, Valid
  <2>2. View \in Content BY DEF View, IInv, TypeOK, Content
  <2> QED BY <2>1, <2>2, Contents
<1>3. TypeOK'
  <2>1. file' \in Snapshot /\ verified' \in {Absent} \cup Snapshot
    <3>1. {} \in Snapshot BY DEF Snapshot
    <3> QED BY <3>1, <1>2 DEF Load, LoadRecovered, IInv, TypeOK
  <2>2. task' \in Task
    BY Contents DEF Load, LoadRecovered, IInv, TypeOK, Task, Writes
  <2>3. phase' \in {"up", "repair"} /\ poison' \in BOOLEAN
    BY DEF Load, LoadRecovered
  <2> QED BY <1>1, <2>1, <2>2, <2>3 DEF IInv, TypeOK
<1>4. QueueOrdered'
  BY <1>1 DEF QueueOrdered
<1>5. TaskOrdered' /\ OtherFileValid'
  <2>1. task'.pc # "idle" => phase' = "repair" /\ task'.pc = "restore" /\ ~Valid(main) /\ Valid(bak)
    BY <1>1 DEF Load, LoadRecovered
  <2>2. Valid(main)' = Valid(main) /\ Valid(bak)' = Valid(bak) BY <1>1 DEF Valid
  <2>3. TaskOrdered' BY <2>1 DEF TaskOrdered
  <2>4. OtherFileValid' BY <1>1, <2>1, <2>2 DEF IInv, OtherFileValid
  <2> QED BY <2>3, <2>4
<1>6. PhaseInv'
  <2>1. CASE Load
    <3>1. phase' = "up" /\ task' = task /\ poison' = (View = Torn) BY <2>1 DEF Load
    <3>2. Covers(file)'
      BY <1>1, <2>1 DEF Load, Covers, View, Valid, IInv, OtherFileValid
    <3> QED BY <1>1, <1>2, <3>1, <3>2 DEF PhaseInv
  <2>2. CASE LoadRecovered
    <3>1. View = bak /\ Valid(bak) BY <2>2 DEF LoadRecovered, View
    <3>2. /\ phase' = "repair" /\ task'.pc = "restore" /\ file' = bak' /\ bak # Torn
      BY <1>1, <2>2, <3>1 DEF LoadRecovered, Valid
    <3>3. ~poison' BY <2>2, <3>1, <3>2 DEF LoadRecovered
    <3> QED BY <1>1, <3>2, <3>3 DEF PhaseInv
  <2> QED BY <2>1, <2>2
<1>7. StoredInv'
  BY <1>1, <1>2 DEF StoredInv, IInv, Load, LoadRecovered, Valid
<1> QED BY <1>3, <1>4, <1>5, <1>6, <1>7 DEF IInv

LEMMA RepairKeepsIInv ==
  ASSUME IInv, RepairDone
  PROVE  IInv'
<1> USE DEF disk, memory
<1>1. /\ phase = "repair" /\ task.pc = "restore" /\ file = bak /\ ~poison /\ queue = <<>>
      /\ flush.st = "none" /\ ~Valid(main) /\ Valid(bak)
      /\ phase' = "up" /\ task' = Idle
      /\ UNCHANGED <<file, poison, disposed, queue, flush, verified>>
  BY DEF RepairDone, IInv, PhaseInv, OtherFileValid
<1>2. Interrupted
  BY DEF RepairDone, Interrupted
<1>3. /\ main' \in Content /\ bak' \in Content /\ View' = View
  BY <1>1, <1>2, WriteEffect
<1>4. bak' = bak /\ (main' = main \/ main' = Torn \/ main' = bak)
  BY <1>1, <1>2 DEF Interrupted, Wrote, Bytes
<1>5. TypeOK'
  <2>1. task' \in Task BY <1>1 DEF Idle, Task, Snapshot
  <2>2. err' \in BOOLEAN /\ timer' \in BOOLEAN /\ faults' \in Nat
    <3>1. CASE Succeeded /\ UNCHANGED faults BY <3>1 DEF Succeeded, IInv, TypeOK
    <3>2. CASE Failed /\ Fault BY <3>2 DEF Failed, Fault, IInv, TypeOK
    <3> QED BY <3>1, <3>2 DEF RepairDone
  <2> QED BY <1>1, <1>3, <2>1, <2>2 DEF IInv, TypeOK
<1>6. QueueOrdered' /\ TaskOrdered' /\ OtherFileValid'
  BY <1>1, <1>4 DEF QueueOrdered, TaskOrdered, OtherFileValid, Idle, Valid
<1>7. PhaseInv'
  BY <1>1, <1>4 DEF PhaseInv, Covers, Valid, Idle
<1>8. StoredInv'
  BY <1>1, <1>3 DEF StoredInv, IInv, Valid
<1> QED BY <1>5, <1>6, <1>7, <1>8 DEF IInv

\* Steps that only touch a flush() caller, the error, the timer or disposed.
LEMMA QuietKeepsIInv ==
  ASSUME IInv, UNCHANGED <<main, bak, phase, file, poison, queue, task, verified>>,
         err' \in BOOLEAN, timer' \in BOOLEAN, disposed' \in BOOLEAN, faults' \in Nat,
         flush' \in [st : FlushStates, ahead : Nat, need : Snapshot],
         phase = "up", poison => ~err' /\ ~timer'
  PROVE  IInv'
<1>1. TypeOK' BY DEF IInv, TypeOK
<1>2. QueueOrdered' /\ TaskOrdered' /\ OtherFileValid' /\ StoredInv'
  BY DEF IInv, QueueOrdered, TaskOrdered, OtherFileValid, StoredInv, Covers, View, Valid
<1>3. PhaseInv'
  BY DEF IInv, PhaseInv, Covers, View, Valid
<1> QED BY <1>1, <1>2, <1>3 DEF IInv

\* Steps that enqueue a snapshot of memory.
LEMMA EnqueueKeepsIInv ==
  ASSUME IInv, phase = "up", ~poison, NEW kind \in Kinds, NEW s \in Snapshot, file \subseteq s,
         file' = s, queue' = Enqueue(kind, s),
         UNCHANGED <<main, bak, phase, poison, task, verified, err, disposed, faults>>,
         timer' \in BOOLEAN, flush' \in [st : FlushStates, ahead : Nat, need : Snapshot]
  PROVE  IInv'
<1>1. QueueOrdered' /\ TaskOrdered' /\ queue' \in Seq([kind : Kinds, snap : Snapshot])
  BY Enqueued DEF disk
<1>2. TypeOK' BY <1>1 DEF IInv, TypeOK
<1>3. OtherFileValid' /\ StoredInv'
  BY DEF IInv, OtherFileValid, StoredInv, View, Valid
<1>4. PhaseInv'
  BY DEF IInv, PhaseInv, Covers, Valid
<1> QED BY <1>1, <1>2, <1>3, <1>4 DEF IInv

LEMMA CallersKeepIInv ==
  ASSUME IInv, (\E u \in Updates : Mutate(u)) \/ FlushCall \/ FlushTail \/ RetryTimer \/ Dispose
  PROVE  IInv'
<1> USE DEF disk, memory
<1>1. file \in Snapshot /\ "persist" \in Kinds /\ "retry" \in Kinds
  BY DEF IInv, TypeOK, Kinds
<1>2. Pending \in Nat
  <2> DEFINE T == [kind : Kinds, snap : Snapshot]
  <2>1. queue \in Seq(T) BY DEF IInv, TypeOK
  <2> HIDE DEF T
  <2> QED BY <2>1, SequenceFacts DEF Pending
<1>3. ASSUME NEW u \in Updates, Mutate(u) PROVE IInv'
  <2>1. file \cup {u} \in Snapshot BY <1>1 DEF Snapshot
  <2>2. timer' \in BOOLEAN /\ flush' \in [st : FlushStates, ahead : Nat, need : Snapshot]
    BY <1>3 DEF Mutate, IInv, TypeOK
  <2>3. /\ phase = "up" /\ ~poison /\ file' = file \cup {u} /\ queue' = Enqueue("persist", file \cup {u})
        /\ UNCHANGED <<main, bak, phase, poison, task, verified, err, disposed, faults>>
    BY <1>3 DEF Mutate
  <2> QED BY <1>1, <2>1, <2>2, <2>3, EnqueueKeepsIInv
<1>4. CASE FlushCall
  <2>1. flush' \in [st : FlushStates, ahead : Nat, need : Snapshot]
    BY <1>1, <1>2, <1>4 DEF FlushCall, FlushStates
  <2>2. poison => ~err' /\ ~timer'
    BY <1>4 DEF FlushCall, IInv, PhaseInv
  <2> QED BY <1>4, <2>1, <2>2, QuietKeepsIInv DEF FlushCall, IInv, TypeOK
<1>5. CASE FlushTail
  <2>1. phase = "up" /\ (poison => ~err /\ ~timer)
    BY <1>5 DEF FlushTail, IInv, PhaseInv
  <2>2. CASE err
    <3>1. flush' \in [st : FlushStates, ahead : Nat, need : Snapshot]
      <4>1. flush' = [st |-> "retry", ahead |-> Pending + 1, need |-> flush.need]
        BY <1>5, <2>2 DEF FlushTail, IInv, TypeOK
      <4>2. flush.need \in Snapshot BY DEF IInv, TypeOK
      <4> QED BY <1>2, <4>1, <4>2 DEF FlushStates
    <3> QED BY <1>1, <1>5, <2>1, <2>2, <3>1, EnqueueKeepsIInv DEF FlushTail, IInv, TypeOK
  <2>3. CASE ~err
    <3>1. flush' \in [st : FlushStates, ahead : Nat, need : Snapshot]
      BY <1>5, <2>3 DEF FlushTail, FlushStates, IInv, TypeOK
    <3> QED BY <1>5, <2>1, <2>3, <3>1, QuietKeepsIInv DEF FlushTail, IInv, TypeOK
  <2> QED BY <2>2, <2>3
<1>6. CASE RetryTimer
  <2>1. phase = "up" /\ ~poison
    BY <1>6 DEF RetryTimer, IInv, PhaseInv
  <2> QED BY <1>1, <1>6, <2>1, EnqueueKeepsIInv DEF RetryTimer, IInv, TypeOK
<1>7. CASE Dispose
  <2>1. poison => ~err' /\ ~timer'
    BY <1>7 DEF Dispose, IInv, PhaseInv
  <2> QED BY <1>7, <2>1, QuietKeepsIInv DEF Dispose, IInv, TypeOK
<1> QED BY <1>3, <1>4, <1>5, <1>6, <1>7

LEMMA SkipKeepsIInv ==
  ASSUME IInv, SkipTask
  PROVE  IInv'
<1> USE DEF disk, memory
<1>1. phase = "up" /\ task.pc = "idle" /\ queue # <<>> /\ ~poison
  BY DEF SkipTask, Ready, IInv, PhaseInv
<1>2. queue' \in Seq([kind : Kinds, snap : Snapshot]) /\ QueueOrdered'
  BY <1>1, Dequeued DEF SkipTask
<1>3. flush' \in [st : FlushStates, ahead : Nat, need : Snapshot]
  BY SettleType DEF SkipTask, IInv, TypeOK
<1>4. UNCHANGED <<main, bak, phase, file, poison, task, err, timer, disposed, verified, faults>>
  BY DEF SkipTask
<1>5. TypeOK' BY <1>2, <1>3, <1>4 DEF IInv, TypeOK
<1>6. TaskOrdered' /\ OtherFileValid' /\ StoredInv'
  BY <1>1, <1>4 DEF IInv, TaskOrdered, OtherFileValid, StoredInv, View, Valid
<1>7. PhaseInv'
  BY <1>1, <1>4 DEF IInv, PhaseInv, Covers, Valid
<1> QED BY <1>2, <1>5, <1>6, <1>7 DEF IInv

LEMMA StartKeepsIInv ==
  ASSUME IInv, StartTask
  PROVE  IInv'
<1> USE DEF disk, memory
<1>1. phase = "up" /\ task.pc = "idle" /\ queue # <<>> /\ ~poison
  BY DEF StartTask, Runnable, Ready
<1>2. UNCHANGED <<main, bak, phase, file, poison, err, timer, disposed, flush, verified, faults>>
  BY DEF StartTask
<1>3. /\ queue' \in Seq([kind : Kinds, snap : Snapshot]) /\ QueueOrdered'
      /\ Head(queue) \in [kind : Kinds, snap : Snapshot]
      /\ Covers(Head(queue).snap) /\ Head(queue).snap \subseteq file
      /\ \A i \in 1..Len(queue') : Head(queue).snap \subseteq queue'[i].snap
  BY <1>1, <1>2, Dequeued DEF StartTask
<1>4. task' = [pc |-> FirstWrite, snap |-> Head(queue).snap] /\ FirstWrite \in Writes
  BY DEF StartTask, FirstWrite, Writes
<1>5. TypeOK' BY <1>2, <1>3, <1>4 DEF IInv, TypeOK, Task
<1>6. TaskOrdered' BY <1>2, <1>3, <1>4 DEF TaskOrdered, Covers
<1>7. OtherFileValid'
  <2>1. task'.pc = FirstWrite BY <1>4
  <2> QED BY <1>2, <2>1 DEF IInv, OtherFileValid, FirstWrite, Valid
<1>8. PhaseInv' /\ StoredInv'
  BY <1>1, <1>2 DEF IInv, PhaseInv, StoredInv, View, Covers, Valid
<1> QED BY <1>3, <1>5, <1>6, <1>7, <1>8 DEF IInv

LEMMA FailedType ==
  ASSUME IInv, Failed
  PROVE  err' = TRUE /\ timer' \in BOOLEAN
  BY DEF Failed, IInv, TypeOK

LEMMA FailTaskKeepsIInv ==
  ASSUME IInv, FailTask
  PROVE  IInv'
<1> USE DEF disk, memory
<1>1. phase = "up" /\ task.pc = "idle" /\ queue # <<>> /\ ~poison
  BY DEF FailTask, Runnable, Ready
<1>2. UNCHANGED <<main, bak, phase, file, poison, task, disposed, verified>>
  BY DEF FailTask
<1>3. queue' \in Seq([kind : Kinds, snap : Snapshot]) /\ QueueOrdered'
  BY <1>1, <1>2, Dequeued DEF FailTask
<1>4. /\ flush' \in [st : FlushStates, ahead : Nat, need : Snapshot]
      /\ err' \in BOOLEAN /\ timer' \in BOOLEAN /\ faults' \in Nat
  <2>1. flush' = Settle(TRUE) /\ Failed BY DEF FailTask
  <2>2. faults' \in Nat BY DEF FailTask, Fault, IInv, TypeOK
  <2> QED BY <2>1, <2>2, SettleType, FailedType DEF IInv, TypeOK
<1>5. TypeOK' BY <1>2, <1>3, <1>4 DEF IInv, TypeOK
<1>6. TaskOrdered' /\ OtherFileValid' /\ StoredInv'
  BY <1>1, <1>2 DEF IInv, TaskOrdered, OtherFileValid, StoredInv, View, Valid
<1>7. PhaseInv'
  BY <1>1, <1>2 DEF IInv, PhaseInv, Covers, Valid
<1> QED BY <1>3, <1>5, <1>6, <1>7 DEF IInv

LEMMA WriteKeepsIInv ==
  ASSUME IInv, WriteNext \/ WriteLast \/ WriteFails
  PROVE  IInv'
<1> USE DEF disk, memory
<1>1. /\ phase = "up" /\ task.pc # "idle" /\ ~poison /\ Interrupted
      /\ UNCHANGED <<phase, file, poison, disposed, queue>>
  BY DEF WriteNext, WriteLast, WriteFails, Interrupted, IInv, PhaseInv
<1>2. /\ main' \in Content /\ bak' \in Content
      /\ task.pc # "main" => View' = View /\ Valid(View)
      /\ task.pc = "main" => \/ View' = View
                             \/ View' = task.snap
                             \/ View = Absent /\ View' = Torn
  BY <1>1, WriteEffect
<1>3. QueueOrdered' /\ \A s \in {task.snap, file} : Covers(s)'
  BY <1>1, WriteKeepsOrder
<1>4. task.snap \in Snapshot /\ task.pc \in Writes /\ Covers(task.snap) /\ task.snap \subseteq file
  BY <1>1 DEF IInv, TypeOK, Task, TaskOrdered
<1>5. TypeOK'
  <2>1. task' \in Task
    <3>1. CASE WriteNext
      <4>1. PICK p \in {"bak", "main"} : task' = [pc |-> p, snap |-> task.snap]
        BY <3>1 DEF WriteNext, IInv, TypeOK, Task
      <4> QED BY <1>4, <4>1 DEF Task, Writes
    <3>2. CASE WriteLast \/ WriteFails
      <4>1. {} \in Snapshot /\ task' = Idle BY <3>2 DEF WriteLast, WriteFails, Snapshot
      <4> QED BY <4>1 DEF Idle, Task
    <3> QED BY <3>1, <3>2
  <2>2. verified' \in {Absent} \cup Snapshot
    BY <1>4 DEF WriteNext, WriteLast, WriteFails, IInv, TypeOK
  <2>3. flush' \in [st : FlushStates, ahead : Nat, need : Snapshot]
    BY SettleType DEF WriteNext, WriteLast, WriteFails, IInv, TypeOK
  <2>4. err' \in BOOLEAN /\ timer' \in BOOLEAN /\ faults' \in Nat
    <3>1. CASE WriteNext BY <3>1 DEF WriteNext, IInv, TypeOK
    <3>2. CASE WriteLast BY <3>2 DEF WriteLast, Succeeded, IInv, TypeOK
    <3>3. CASE WriteFails
      <4>1. faults' \in Nat BY <3>3 DEF WriteFails, Fault, IInv, TypeOK
      <4>2. Failed BY <3>3 DEF WriteFails
      <4> QED BY <4>1, <4>2, FailedType
    <3> QED BY <3>1, <3>2, <3>3
  <2> QED BY <1>1, <1>2, <2>1, <2>2, <2>3, <2>4 DEF IInv, TypeOK
<1>6. TaskOrdered'
  <2>1. CASE task'.pc = "idle" BY <2>1 DEF TaskOrdered
  <2>2. CASE task'.pc # "idle"
    <3>1. task'.snap = task.snap
      <4>1. WriteLast \/ WriteFails => task' = Idle BY DEF WriteLast, WriteFails
      <4>2. WriteNext BY <2>2, <4>1 DEF Idle
      <4> QED BY <4>2 DEF WriteNext, IInv, TypeOK, Task
    <3>2. Covers(task.snap)' BY <1>3, <3>1 DEF Covers
    <3> QED BY <1>1, <1>4, <3>1, <3>2 DEF TaskOrdered, IInv
  <2> QED BY <2>1, <2>2
<1>7. OtherFileValid'
  <2>1. Valid(main') /\ Valid(bak') => bak' \subseteq main'
    BY <1>1, <1>4 DEF Interrupted, Wrote, Bytes, IInv, OtherFileValid, Covers, Valid, Writes
  <2>2. CASE WriteNext
    <3>1. task.pc = "restore" => main' = bak /\ bak' = bak /\ task'.pc = "bak"
      BY <2>2 DEF WriteNext, Wrote, Bytes, IInv, TypeOK, Task
    <3>2. task.pc = "bak" => main' = main /\ bak' = main /\ task'.pc = "main"
      BY <2>2 DEF WriteNext, Wrote, Bytes, IInv, TypeOK, Task
    <3>3. /\ task.pc = "restore" => Valid(bak)
          /\ task.pc = "bak" => Valid(main)
          /\ task.pc \in {"restore", "bak"}
      BY <2>2 DEF WriteNext, IInv, OtherFileValid
    <3>4. task'.pc \in {"bak", "main"} BY <3>1, <3>2, <3>3
    <3>5. task'.pc = "bak" => Valid(main') BY <3>1, <3>2, <3>3
    <3>6. task'.pc = "main" => Valid(main') /\ bak' = main' BY <3>1, <3>2, <3>3
    <3> QED BY <2>1, <3>4, <3>5, <3>6 DEF OtherFileValid, Valid
  <2>3. CASE task'.pc = "idle" BY <2>1, <2>3 DEF OtherFileValid, Valid
  <2>4. WriteLast \/ WriteFails => task' = Idle BY DEF WriteLast, WriteFails
  <2> QED BY <2>2, <2>3, <2>4 DEF Idle
<1>8. PhaseInv'
  BY <1>1, <1>3 DEF PhaseInv, Covers
<1>9. StoredInv'
  <2>1. CASE WriteLast
    <3>1. main' = task.snap /\ verified' = task.snap
      BY <2>1 DEF WriteLast, Wrote, Bytes
    <3> QED BY <1>4, <3>1, Contents DEF StoredInv, View, Valid, Snapshot, Content
  <2>2. CASE ~WriteLast
    <3>1. verified' = verified BY <2>2 DEF WriteNext, WriteFails
    <3>2. View' = task.snap => Valid(View)' /\ (Valid(View) => View \subseteq View')
      BY <1>4, Contents DEF Covers, View, Valid, Content
    <3> QED BY <1>2, <1>4, <3>1, <3>2 DEF StoredInv, IInv, Valid
  <2> QED BY <2>1, <2>2
<1> QED BY <1>3, <1>5, <1>6, <1>7, <1>8, <1>9 DEF IInv

LEMMA CrashKeepsIInv ==
  ASSUME IInv, Crash \/ LoadRejected
  PROVE  IInv'
<1> USE DEF disk, memory
<1>1. /\ queue' = <<>> /\ task'.pc = "idle" /\ file' = {} /\ ~poison' /\ ~err' /\ ~timer'
      /\ flush'.st = "none" /\ phase' \in {"down", "refused"} /\ verified' = verified
  BY DEF Crash, LoadRejected, IInv, PhaseInv, Idle, NoFlush
<1>2. main' \in Content /\ bak' \in Content
  BY WriteEffect DEF Crash, LoadRejected, IInv, TypeOK
<1>3. TypeOK'
  <2>1. CASE Crash
    <3>1. {} \in Snapshot BY DEF Snapshot
    <3>2. task' \in Task /\ flush' \in [st : FlushStates, ahead : Nat, need : Snapshot]
      BY <2>1, <3>1 DEF Crash, Idle, Task, NoFlush, FlushStates
    <3>3. queue' \in Seq([kind : Kinds, snap : Snapshot]) BY <1>1
    <3>4. /\ phase' = "down" /\ poison' = FALSE /\ err' = FALSE /\ timer' = FALSE /\ disposed' = FALSE
          /\ faults' = faults
      BY <2>1 DEF Crash
    <3> QED BY <1>1, <1>2, <3>1, <3>2, <3>3, <3>4 DEF IInv, TypeOK
  <2>2. CASE LoadRejected
    <3>1. faults' \in Nat BY <2>2 DEF LoadRejected, Fault, IInv, TypeOK
    <3> QED BY <1>2, <2>2, <3>1 DEF LoadRejected, IInv, TypeOK
  <2> QED BY <2>1, <2>2
<1>4. QueueOrdered' /\ TaskOrdered' /\ PhaseInv'
  BY <1>1 DEF QueueOrdered, TaskOrdered, PhaseInv
<1>5. OtherFileValid'
  <2>1. CASE task.pc # "idle" /\ Interrupted
    <3>1. task.pc = "main" => Covers(task.snap)
      BY <2>1 DEF IInv, PhaseInv, TaskOrdered, TypeOK
    <3>2. task.pc \in Writes BY <2>1 DEF IInv, TypeOK, Task
    <3>3. Valid(main') /\ Valid(bak') => bak' \subseteq main'
      BY <2>1, <3>1, <3>2 DEF Interrupted, Wrote, Bytes, IInv, OtherFileValid, Covers, Valid, Writes
    <3> QED BY <1>1, <3>3 DEF OtherFileValid, Valid
  <2>2. CASE UNCHANGED disk
    BY <1>1, <2>2 DEF IInv, OtherFileValid, Valid
  <2> QED BY <2>1, <2>2 DEF Crash, LoadRejected
<1>6. StoredInv'
  <2>1. CASE task.pc # "idle" /\ Interrupted
    <3>1. /\ task.pc # "main" => View' = View /\ Valid(View)
          /\ task.pc = "main" => \/ View' = View
                                 \/ View' = task.snap
                                 \/ View = Absent /\ View' = Torn
      BY <2>1, WriteEffect
    <3>2. task.pc = "main" => task.snap \in Snapshot /\ Covers(task.snap)
      BY <2>1 DEF IInv, PhaseInv, TaskOrdered, TypeOK, Task
    <3>3. task.pc = "main" /\ View' = task.snap => Valid(View') /\ (Valid(View) => View \subseteq View')
      BY <3>2, Contents DEF Covers, View, Valid, Content
    <3> QED BY <1>1, <3>1, <3>3 DEF StoredInv, IInv, Valid
  <2>2. CASE UNCHANGED disk
    BY <1>1, <2>2 DEF IInv, StoredInv, View, Valid
  <2> QED BY <2>1, <2>2 DEF Crash, LoadRejected
<1> QED BY <1>3, <1>4, <1>5, <1>6 DEF IInv

-------------------------------------------------------------------------------
\* Every state the system reaches, whatever the storage and the process do, satisfies IInv: types,
\* snapshots in order, one intact file while the other is written, and what was read back kept.
THEOREM Inductive == Spec => []IInv
<1>1. Init => IInv BY InitIInv
<1>2. IInv /\ [Next]_vars => IInv'
  <2> SUFFICES ASSUME IInv, [Next]_vars PROVE IInv' OBVIOUS
  <2>1. CASE UNCHANGED vars
    BY <2>1 DEF vars, IInv, TypeOK, QueueOrdered, TaskOrdered, OtherFileValid, PhaseInv, StoredInv,
                Covers, View, Valid
  <2>2. CASE Next
    BY <2>2, LoadKeepsIInv, RepairKeepsIInv, CallersKeepIInv, SkipKeepsIInv, StartKeepsIInv,
       FailTaskKeepsIInv, WriteKeepsIInv, CrashKeepsIInv DEF Next
  <2> QED BY <2>1, <2>2
<1> QED BY <1>1, <1>2, PTL DEF Spec

\* Types are preserved (TypeOK).
THEOREM TypeCorrect == Spec => []TypeOK
<1>1. IInv => TypeOK BY DEF IInv
<1> QED BY <1>1, Inductive, PTL

\* What was once read back as stored is never lost to a restart (step, load, crash).
THEOREM Durability == Spec => []NoDurableLoss
<1>1. IInv => NoDurableLoss BY DEF IInv, StoredInv, NoDurableLoss, Valid
<1> QED BY <1>1, Inductive, PTL

\* A serving, unpoisoned instance has all that was ever read back (load's outcomes).
THEOREM NeverServesLess == Spec => []ServesWhatIsStored
<1>1. IInv => ServesWhatIsStored
  BY DEF IInv, StoredInv, PhaseInv, ServesWhatIsStored, Covers, View, Valid
<1> QED BY <1>1, Inductive, PTL

-------------------------------------------------------------------------------
(* flush(): what its caller wants is in a snapshot that is stored, pending,  *)
(* or in error when the caller looks.                                        *)

Waiters == [st : FlushStates, ahead : Nat, need : Snapshot]

\* A write that ends never takes anything from what a restart reads.
LEMMA DiskGrows ==
  ASSUME IInv, task.pc # "idle", Interrupted
  PROVE  OnDisk \subseteq OnDisk'
<1>1. /\ task.pc # "main" => View' = View
      /\ task.pc = "main" => \/ View' = View
                             \/ View' = task.snap
                             \/ View = Absent /\ View' = Torn
  BY WriteEffect
<1>2. CASE View' = View BY <1>2 DEF OnDisk, Valid
<1>3. CASE View = Absent BY <1>3 DEF OnDisk, Valid
<1>4. CASE task.pc = "main" /\ View' = task.snap
  <2>1. task.snap \in Snapshot /\ Covers(task.snap)
    BY <1>4 DEF IInv, PhaseInv, TaskOrdered, TypeOK, Task
  <2> QED BY <1>4, <2>1, Contents DEF OnDisk, Covers, View, Valid, Content
<1> QED BY <1>1, <1>2, <1>3, <1>4

\* What Settle does to a waiting flush(), by its state.
LEMMA Settled ==
  ASSUME flush \in Waiters, NEW b \in BOOLEAN, NEW s, s = Settle(b)
  PROVE  /\ s.need = flush.need
         /\ flush.st \in {"none", "ok", "rejected"} => s.st = flush.st
         /\ flush.st = "tail" =>
              /\ s.st = "tail"
              /\ s.ahead \in Nat
              /\ s.ahead = 0 => flush.ahead <= 1
              /\ s.ahead > 0 => s.ahead = flush.ahead - 1
         /\ flush.st = "retry" => s.st = "retry" \/ s.st = (IF b THEN "rejected" ELSE "ok")
<1> USE DEF Waiters, FlushStates
<1>1. CASE flush.st = "retry" /\ flush.ahead = 1
  <2> DEFINE end == IF b THEN "rejected" ELSE "ok"
  <2>1. s = [flush EXCEPT !.ahead = 0, !.st = end] BY <1>1 DEF Settle
  <2> HIDE DEF end
  <2>2. s.need = flush.need /\ s.st = end BY <2>1
  <2> QED BY <1>1, <2>2 DEF end
<1>2. CASE ~(flush.st = "retry" /\ flush.ahead = 1) /\ flush.ahead > 0
  <2>1. s = [flush EXCEPT !.ahead = @ - 1] BY <1>2 DEF Settle
  <2>2. s.st = flush.st /\ s.need = flush.need /\ s.ahead = flush.ahead - 1 BY <2>1
  <2> QED BY <1>2, <2>2
<1>3. CASE ~(flush.st = "retry" /\ flush.ahead = 1) /\ ~(flush.ahead > 0)
  <2>1. s = flush BY <1>3 DEF Settle
  <2> QED BY <1>3, <2>1
<1> QED BY <1>1, <1>2, <1>3

\* Nothing is pending and nobody waits: load, its repair, and a crash.
LEMMA NobodyWaits ==
  ASSUME queue' = <<>>, flush'.st = "none", timer' => err',
         task'.pc # "idle" => task'.snap = file',
         task'.pc = "idle" => Excused(file)'
  PROVE  (NewestPending /\ RetriesRepeat /\ FlushInv)'
  BY DEF NewestPending, RetriesRepeat, FlushInv

\* A snapshot of memory joins the queue: every flush() finds what it wants in it.
LEMMA JoinsTheQueue ==
  ASSUME FlushIInv, NEW kind \in Kinds, file' \in Snapshot, file \subseteq file',
         kind = "retry" => file' = file /\ err,
         queue' = Enqueue(kind, file'), UNCHANGED <<disk, task, err>>, timer' => err,
         flush'.st \in {"tail", "retry"} =>
           /\ flush.st \in {"tail", "retry"} /\ flush'.need = flush.need /\ Reached' = Reached,
         flush'.st = "ok" => flush.st = "ok" /\ flush'.need = flush.need
  PROVE  (NewestPending /\ RetriesRepeat /\ FlushInv)'
<1> DEFINE T == [kind : Kinds, snap : Snapshot]
           t == [kind |-> kind, snap |-> file']
<1>1. queue \in Seq(T) /\ t \in T /\ queue' = Append(queue, t)
  BY DEF FlushIInv, IInv, TypeOK, Enqueue
<1>2. t.snap = file' /\ t.kind = kind OBVIOUS
<1> HIDE DEF T, t
<1>3. /\ Len(queue) \in Nat /\ Len(queue') = Len(queue) + 1 /\ queue'[Len(queue) + 1] = t
      /\ \A i \in 1..Len(queue) : queue'[i] = queue[i]
  BY <1>1, SequenceFacts
<1>4. queue' # <<>>
  BY <1>3
<1>5. queue # <<>> => Len(queue) \in 1..Len(queue)
  BY <1>1, SequenceFacts
<1>6. View' = View /\ OnDisk' = OnDisk
  BY DEF disk, View, OnDisk, Valid
<1>7. \A s : Excused(s)' <=> Excused(s)
  BY <1>6 DEF Excused
<1>8. NewestPending'
  BY <1>2, <1>3, <1>4 DEF NewestPending
<1>9. RetriesRepeat'
  <2>1. ASSUME NEW i \in 1..Len(queue'), NEW j \in 1..Len(queue'), j = i + 1, queue'[j].kind = "retry"
        PROVE  queue'[j].snap = queue'[i].snap
    <3>1. i \in 1..Len(queue) BY <2>1, <1>3
    <3>2. CASE j \in 1..Len(queue)
      BY <3>1, <3>2, <2>1, <1>3 DEF FlushIInv, RetriesRepeat
    <3>3. CASE j = Len(queue) + 1
      <4>1. i = Len(queue) /\ queue # <<>> BY <3>1, <3>3, <2>1, <1>3
      <4>2. queue[i].snap = file BY <4>1 DEF FlushIInv, NewestPending
      <4>3. kind = "retry" BY <3>3, <2>1, <1>2, <1>3
      <4> QED BY <3>1, <3>3, <4>2, <4>3, <1>2, <1>3
    <3> QED BY <3>2, <3>3, <1>3
  <2>2. ASSUME queue'[1].kind = "retry"
        PROVE  IF task'.pc = "idle" THEN Excused(queue[1].snap)' ELSE queue'[1].snap = task'.snap
    <3>1. CASE queue # <<>>
      <4>1. 1 \in 1..Len(queue) BY <3>1, <1>3, <1>5
      <4>2. queue'[1] = queue[1] BY <4>1, <1>3
      <4> QED BY <2>2, <3>1, <4>2, <1>7 DEF FlushIInv, RetriesRepeat, Excused
    <3>2. CASE queue = <<>>
      <4>1. queue'[1] = t BY <3>2, <1>3
      <4>2. file' = file /\ err BY <2>2, <4>1, <1>2
      <4>3. task.pc # "idle" => task.snap = file BY <3>2 DEF FlushIInv, NewestPending
      <4> QED BY <4>1, <4>2, <4>3, <1>2 DEF Excused
    <3> QED BY <3>1, <3>2
  <2> QED BY <2>1, <2>2 DEF RetriesRepeat
<1>10. FlushInv'
  <2>1. ASSUME flush'.st \in {"tail", "retry"}
        PROVE  /\ flush'.need \subseteq file'
               /\ \A i \in 1..Len(queue') : Place(i)' >= Reached' => flush'.need \subseteq queue'[i].snap
               /\ task'.pc # "idle" /\ Reached' <= 1 => flush'.need \subseteq task'.snap
               /\ Reached' = 0 => Excused(flush.need)'
    <3>1. flush.st \in {"tail", "retry"} /\ flush'.need = flush.need /\ Reached' = Reached
      BY <2>1
    <3>2. flush.need \subseteq file BY <3>1 DEF FlushIInv, FlushInv
    <3>3. ASSUME NEW i \in 1..Len(queue'), Place(i)' >= Reached'
          PROVE  flush'.need \subseteq queue'[i].snap
      <4>1. CASE i \in 1..Len(queue)
        <5>1. Place(i) >= Reached BY <3>1, <3>3 DEF Place
        <5> QED BY <5>1, <4>1, <3>1, <1>3 DEF FlushIInv, FlushInv
      <4>2. CASE i = Len(queue) + 1
        BY <4>2, <3>1, <3>2, <1>2, <1>3
      <4> QED BY <4>1, <4>2, <1>3
    <3>4. Reached = 0 => Excused(flush.need) BY <3>1 DEF FlushIInv, FlushInv
    <3>5. task.pc # "idle" /\ Reached <= 1 => flush.need \subseteq task.snap
      BY <3>1 DEF FlushIInv, FlushInv
    <3> QED BY <3>1, <3>2, <3>3, <3>4, <3>5, <1>6 DEF Excused
  <2>2. flush'.st = "ok" => flush'.need \subseteq OnDisk'
    BY <1>6 DEF FlushIInv, FlushInv
  <2> QED BY <2>1, <2>2 DEF FlushInv
<1> QED BY <1>8, <1>9, <1>10

\* The oldest task leaves the queue unexecuted: it failed, or had nothing to do.
LEMMA LeavesTheQueue ==
  ASSUME FlushIInv, queue # <<>>, queue' = Tail(queue), task.pc = "idle",
         UNCHANGED <<disk, file, task>>, timer' => err', flush' = Settle(err'), err' \in BOOLEAN,
         err' \/ (~err /\ Head(queue).kind = "retry")
  PROVE  (NewestPending /\ RetriesRepeat /\ FlushInv)'
<1> DEFINE T == [kind : Kinds, snap : Snapshot]
<1>1. queue \in Seq(T) /\ flush \in Waiters
  BY DEF FlushIInv, IInv, TypeOK, Waiters
<1> HIDE DEF T
<1>2. /\ Len(queue) \in Nat \ {0} /\ Head(queue) = queue[1] /\ Len(queue') = Len(queue) - 1
      /\ \A i \in 1..Len(queue') : queue'[i] = queue[i + 1]
      /\ Len(queue) \in Nat
  BY <1>1, SequenceFacts
<1>3. /\ 1 \in 1..Len(queue) /\ Len(queue) \in 1..Len(queue)
      /\ \A i \in 1..Len(queue') : i + 1 \in 1..Len(queue)
  BY <1>2
<1>4. View' = View /\ OnDisk' = OnDisk
  BY DEF disk, View, OnDisk, Valid
<1>5. err' \/ queue[1].snap \subseteq OnDisk'
  BY <1>2, <1>4 DEF FlushIInv, RetriesRepeat, Excused
<1>6. Len(queue') \in Nat /\ (queue' # <<>> => Len(queue') \in 1..Len(queue'))
  <2>1. queue' \in Seq(T) BY <1>1, SequenceFacts
  <2> QED BY <2>1, SequenceFacts
<1>7. NewestPending'
  <2>1. queue[Len(queue)].snap = file BY DEF FlushIInv, NewestPending
  <2>2. CASE queue' # <<>>
    <3>1. Len(queue') \in 1..Len(queue') /\ Len(queue') + 1 = Len(queue) BY <2>2, <1>2, <1>6
    <3>2. queue'[Len(queue')].snap = file' BY <3>1, <2>1, <1>2
    <3> QED BY <2>2, <3>2 DEF NewestPending
  <2>3. CASE queue' = <<>>
    <3>1. Len(queue') = 0 BY <2>3, EmptyLength
    <3>2. Len(queue) = 1 BY <3>1, <1>2
    <3>3. Excused(file)' BY <3>2, <2>1, <1>5 DEF Excused
    <3> QED BY <2>3, <3>3 DEF NewestPending
  <2> QED BY <2>2, <2>3
<1>8. RetriesRepeat'
  <2>1. ASSUME NEW i \in 1..Len(queue'), NEW j \in 1..Len(queue'), j = i + 1, queue'[j].kind = "retry"
        PROVE  queue'[j].snap = queue'[i].snap
    <3>1. queue'[j] = queue[j + 1] /\ queue'[i] = queue[i + 1] /\ j + 1 = (i + 1) + 1 BY <2>1, <1>2
    <3> QED BY <3>1, <2>1, <1>3 DEF FlushIInv, RetriesRepeat
  <2>2. ASSUME queue' # <<>>, queue'[1].kind = "retry"
        PROVE  Excused(queue[1].snap)'
    <3>1. 1 \in 1..Len(queue') BY <2>2, <1>6
    <3>2. queue'[1] = queue[2] /\ 2 \in 1..Len(queue) BY <3>1, <1>2, <1>3
    <3>3. queue[2].snap = queue[1].snap BY <2>2, <3>2, <1>3 DEF FlushIInv, RetriesRepeat
    <3> QED BY <3>2, <3>3, <1>5 DEF Excused
  <2> QED BY <2>1, <2>2 DEF RetriesRepeat
<1>9. FlushInv'
  <2> DEFINE s == flush'
  <2>1. s = Settle(err') OBVIOUS
  <2> HIDE DEF s
  <2>2. /\ s.need = flush.need
        /\ flush.st \in {"none", "ok", "rejected"} => s.st = flush.st
        /\ flush.st = "tail" =>
             /\ s.st = "tail"
             /\ s.ahead \in Nat
             /\ s.ahead = 0 => flush.ahead <= 1
             /\ s.ahead > 0 => s.ahead = flush.ahead - 1
        /\ flush.st = "retry" => s.st = "retry" \/ s.st = (IF err' THEN "rejected" ELSE "ok")
    BY <1>1, <2>1, Settled
  <2>3. flush.st \in FlushStates /\ flush.ahead \in Nat BY <1>1 DEF Waiters
  <2>4. CASE flush.st = "tail"
    <3>1. /\ flush.need \subseteq file
          /\ \A i \in 1..Len(queue) : i >= flush.ahead => flush.need \subseteq queue[i].snap
      BY <2>4 DEF FlushIInv, FlushInv, Reached, Place
    <3>2. Reached' = s.ahead /\ s.st = "tail" /\ s.ahead >= flush.ahead - 1
      BY <2>2, <2>3, <2>4 DEF Reached, s
    <3>3. ASSUME NEW i \in 1..Len(queue'), i >= s.ahead
          PROVE  s.need \subseteq queue'[i].snap
      <4>1. i + 1 >= flush.ahead BY <3>2, <3>3, <2>2, <2>3, <2>4
      <4> QED BY <4>1, <3>1, <1>2, <1>3, <2>2
    <3>4. s.ahead = 0 => Excused(flush.need)'
      <4> SUFFICES ASSUME s.ahead = 0 PROVE Excused(flush.need)' OBVIOUS
      <4>1. 1 >= flush.ahead BY <2>2, <2>3, <2>4
      <4>2. flush.need \subseteq queue[1].snap BY <4>1, <3>1, <1>3
      <4> QED BY <4>2, <1>5, <2>2 DEF Excused, s
    <3> QED BY <3>1, <3>2, <3>3, <3>4, <2>2 DEF FlushInv, Place, s
  <2>5. CASE flush.st = "retry"
    <3>1. /\ flush.need \subseteq file /\ Excused(flush.need)
          /\ \A i \in 1..Len(queue) : flush.need \subseteq queue[i].snap
      <4>1. Reached = 0 BY <2>5 DEF Reached
      <4>2. \A i \in 1..Len(queue) : Place(i) >= 0 BY DEF Place
      <4> QED BY <2>5, <4>1, <4>2 DEF FlushIInv, FlushInv
    <3>2. err' \/ flush.need \subseteq OnDisk' BY <3>1, <1>4 DEF Excused
    <3>3. s.st = "retry" \/ s.st = (IF err' THEN "rejected" ELSE "ok") BY <2>2, <2>5
    <3>4. \A i \in 1..Len(queue') : s.need \subseteq queue'[i].snap
      BY <3>1, <1>2, <1>3, <2>2
    <3>5. s.st = "ok" => s.need \subseteq OnDisk' BY <2>2, <3>2, <3>3
    <3>6. s.st # "tail" BY <3>3
    <3> QED BY <3>1, <3>2, <3>4, <3>5, <3>6, <2>2 DEF FlushInv, Excused, s
  <2>6. CASE flush.st \in {"none", "ok", "rejected"}
    BY <2>2, <2>6, <1>4 DEF FlushIInv, FlushInv, s
  <2> QED BY <2>3, <2>4, <2>5, <2>6 DEF FlushStates
<1> QED BY <1>7, <1>8, <1>9

\* The oldest task starts: its snapshot moves from the queue to the write in progress.
LEMMA StartsATask ==
  ASSUME FlushIInv, StartTask
  PROVE  (NewestPending /\ RetriesRepeat /\ FlushInv)'
<1> DEFINE T == [kind : Kinds, snap : Snapshot]
<1>1. queue \in Seq(T) /\ queue # <<>> /\ queue' = Tail(queue) /\ task.pc = "idle"
  BY DEF FlushIInv, IInv, TypeOK, StartTask, Runnable, Ready
<1>2. UNCHANGED <<main, bak, file, err, timer, flush>>
  BY DEF StartTask, disk, memory
<1> HIDE DEF T
<1>3. /\ Len(queue) \in Nat \ {0} /\ Head(queue) = queue[1] /\ Len(queue') = Len(queue) - 1
      /\ \A i \in 1..Len(queue') : queue'[i] = queue[i + 1]
      /\ Len(queue) \in Nat /\ queue' \in Seq(T)
  BY <1>1, SequenceFacts
<1>4. /\ 1 \in 1..Len(queue) /\ Len(queue) \in 1..Len(queue)
      /\ \A i \in 1..Len(queue') : i + 1 \in 1..Len(queue)
  BY <1>3
<1>5. View' = View /\ OnDisk' = OnDisk
  BY <1>2 DEF View, OnDisk, Valid
<1>6. task'.pc # "idle" /\ task'.snap = queue[1].snap
  <2>1. FirstWrite \in Writes BY DEF StartTask, FirstWrite, Writes
  <2> QED BY <2>1, <1>3 DEF StartTask, Writes
<1>7. Len(queue') \in Nat /\ (queue' # <<>> => Len(queue') \in 1..Len(queue'))
  BY <1>3, SequenceFacts
<1>8. NewestPending'
  <2>1. queue[Len(queue)].snap = file BY <1>1 DEF FlushIInv, NewestPending
  <2>2. CASE queue' # <<>>
    <3>1. Len(queue') \in 1..Len(queue') /\ Len(queue') + 1 = Len(queue) BY <2>2, <1>3, <1>7
    <3>2. queue'[Len(queue')].snap = file' BY <3>1, <2>1, <1>2, <1>3
    <3> QED BY <2>2, <3>2 DEF NewestPending
  <2>3. CASE queue' = <<>>
    <3>1. Len(queue) = 1 BY <2>3, <1>3
    <3> QED BY <2>1, <2>3, <3>1, <1>2, <1>6 DEF NewestPending
  <2> QED BY <2>2, <2>3
<1>9. RetriesRepeat'
  <2>1. ASSUME NEW i \in 1..Len(queue'), NEW j \in 1..Len(queue'), j = i + 1, queue'[j].kind = "retry"
        PROVE  queue'[j].snap = queue'[i].snap
    <3>1. queue'[j] = queue[j + 1] /\ queue'[i] = queue[i + 1] /\ j + 1 = (i + 1) + 1 BY <2>1, <1>3
    <3> QED BY <3>1, <2>1, <1>4 DEF FlushIInv, RetriesRepeat
  <2>2. ASSUME queue' # <<>>, queue'[1].kind = "retry"
        PROVE  queue'[1].snap = task'.snap
    <3>1. 1 \in 1..Len(queue') BY <2>2, <1>7
    <3>2. queue'[1] = queue[2] /\ 2 \in 1..Len(queue) BY <3>1, <1>3, <1>4
    <3> QED BY <2>2, <3>2, <1>4, <1>6 DEF FlushIInv, RetriesRepeat
  <2>3. timer' => err' BY <1>2 DEF FlushIInv, RetriesRepeat
  <2> QED BY <2>1, <2>2, <2>3, <1>6 DEF RetriesRepeat
<1>10. FlushInv'
  <2>1. Reached' = Reached BY <1>2 DEF Reached
  <2>2. ASSUME flush.st \in {"tail", "retry"}
        PROVE  /\ flush.need \subseteq file
               /\ \A i \in 1..Len(queue) : i >= Reached => flush.need \subseteq queue[i].snap
               /\ Reached = 0 => Excused(flush.need)
    BY <2>2, <1>1 DEF FlushIInv, FlushInv, Place
  <2>3. Reached \in Nat BY DEF Reached, FlushIInv, IInv, TypeOK
  <2>4. ASSUME flush.st \in {"tail", "retry"}, NEW i \in 1..Len(queue'), Place(i)' >= Reached'
        PROVE  flush.need \subseteq queue'[i].snap
    <3>1. i + 1 >= Reached BY <2>1, <2>4, <1>6 DEF Place
    <3> QED BY <2>2, <2>4, <3>1, <1>3, <1>4
  <2>5. flush.st \in {"tail", "retry"} /\ Reached <= 1 => flush.need \subseteq task'.snap
    BY <2>2, <2>3, <1>4, <1>6
  <2> QED BY <2>1, <2>2, <2>4, <2>5, <1>2, <1>5 DEF FlushIInv, FlushInv, Excused
<1> QED BY <1>8, <1>9, <1>10

\* The last write of a task succeeds, or one of its writes fails.
LEMMA EndsATask ==
  ASSUME FlushIInv, WriteLast \/ WriteFails
  PROVE  (NewestPending /\ RetriesRepeat /\ FlushInv)'
<1> DEFINE T == [kind : Kinds, snap : Snapshot]
<1>1. /\ phase = "up" /\ task.pc # "idle" /\ Interrupted
      /\ task' = Idle /\ UNCHANGED <<file, queue>>
      /\ flush' = Settle(err') /\ err' \in BOOLEAN
  <2>1. CASE WriteLast
    <3>1. err' = FALSE BY <2>1 DEF WriteLast, Succeeded
    <3>2. flush' = Settle(FALSE) BY <2>1 DEF WriteLast
    <3> QED BY <2>1, <3>1, <3>2 DEF WriteLast, Interrupted, memory
  <2>2. CASE WriteFails
    <3>1. err' = TRUE BY <2>2 DEF WriteFails, Failed
    <3>2. flush' = Settle(TRUE) BY <2>2 DEF WriteFails
    <3> QED BY <2>2, <3>1, <3>2 DEF WriteFails, memory
  <2> QED BY <2>1, <2>2
<1>2. queue \in Seq(T) /\ flush \in Waiters
  BY DEF FlushIInv, IInv, TypeOK, Waiters
<1> HIDE DEF T
<1>3. Len(queue) \in Nat /\ (queue # <<>> => 1 \in 1..Len(queue))
  BY <1>2, SequenceFacts
<1>4. OnDisk \subseteq OnDisk'
  BY <1>1, DiskGrows DEF FlushIInv
<1>6. err' \/ task.snap \subseteq OnDisk'
  <2>1. CASE WriteLast
    <3>1. main' = task.snap BY <2>1 DEF WriteLast, Wrote, Bytes
    <3>2. task.snap \in Snapshot BY <1>1 DEF FlushIInv, IInv, TypeOK, Task
    <3> QED BY <3>1, <3>2, Contents DEF OnDisk, View, Valid, Content
  <2>2. CASE WriteFails BY <2>2 DEF WriteFails, Failed
  <2> QED BY <2>1, <2>2
<1>7. timer' => err'
  BY DEF WriteLast, WriteFails, Succeeded, Failed
<1>8. task'.pc = "idle" BY <1>1 DEF Idle
<1>9. NewestPending'
  <2>1. queue = <<>> => task.snap = file BY <1>1 DEF FlushIInv, NewestPending
  <2> QED BY <2>1, <1>1, <1>6, <1>8 DEF FlushIInv, NewestPending, Excused
<1>10. RetriesRepeat'
  <2>1. queue # <<>> /\ queue[1].kind = "retry" => queue[1].snap = task.snap
    BY <1>1 DEF FlushIInv, RetriesRepeat
  <2> QED BY <2>1, <1>1, <1>6, <1>7, <1>8 DEF FlushIInv, RetriesRepeat, Excused
<1>11. FlushInv'
  <2> DEFINE s == flush'
  <2>1. s = Settle(err') BY <1>1
  <2> HIDE DEF s
  <2>2. /\ s.need = flush.need
        /\ flush.st \in {"none", "ok", "rejected"} => s.st = flush.st
        /\ flush.st = "tail" =>
             /\ s.st = "tail"
             /\ s.ahead \in Nat
             /\ s.ahead = 0 => flush.ahead <= 1
             /\ s.ahead > 0 => s.ahead = flush.ahead - 1
        /\ flush.st = "retry" => s.st = "retry" \/ s.st = (IF err' THEN "rejected" ELSE "ok")
    BY <1>1, <1>2, <2>1, Settled
  <2>3. flush.st \in FlushStates /\ flush.ahead \in Nat BY <1>2 DEF Waiters
  <2>4. CASE flush.st = "tail"
    <3>1. /\ flush.need \subseteq file
          /\ \A i \in 1..Len(queue) : i + 1 >= flush.ahead => flush.need \subseteq queue[i].snap
          /\ flush.ahead <= 1 => flush.need \subseteq task.snap
      BY <2>4, <1>1 DEF FlushIInv, FlushInv, Reached, Place
    <3>2. Reached' = s.ahead /\ s.st = "tail" /\ s.ahead >= flush.ahead - 1
      BY <2>2, <2>3, <2>4 DEF Reached, s
    <3>3. ASSUME NEW i \in 1..Len(queue'), Place(i)' >= s.ahead
          PROVE  s.need \subseteq queue'[i].snap
      <4>1. i >= s.ahead BY <3>3, <1>8 DEF Place
      <4>2. i + 1 >= flush.ahead BY <3>2, <3>3, <4>1, <2>2, <2>3, <2>4
      <4>3. i \in 1..Len(queue) BY <3>3, <1>1
      <4> QED BY <4>2, <4>3, <3>1, <1>1, <2>2
    <3>4. s.ahead = 0 => err' \/ flush.need \subseteq OnDisk'
      BY <2>2, <2>4, <3>1, <1>6
    <3> QED BY <3>1, <3>2, <3>3, <3>4, <2>2, <1>1, <1>8 DEF FlushInv, Excused, s
  <2>5. CASE flush.st = "retry"
    <3>1. /\ flush.need \subseteq file
          /\ \A i \in 1..Len(queue) : flush.need \subseteq queue[i].snap
          /\ flush.need \subseteq task.snap
      <4>1. Reached = 0 BY <2>5 DEF Reached
      <4>2. \A i \in 1..Len(queue) : Place(i) >= 0 BY DEF Place
      <4> QED BY <2>5, <4>1, <4>2, <1>1 DEF FlushIInv, FlushInv
    <3>2. err' \/ flush.need \subseteq OnDisk' BY <3>1, <1>6
    <3>3. s.st = "retry" \/ s.st = (IF err' THEN "rejected" ELSE "ok") BY <2>2, <2>5
    <3>4. s.st = "ok" => s.need \subseteq OnDisk' BY <2>2, <3>2, <3>3
    <3> QED BY <3>1, <3>2, <3>4, <2>2, <1>1, <1>8 DEF FlushInv, Excused, s
  <2>6. CASE flush.st \in {"none", "ok", "rejected"}
    BY <2>2, <2>6, <1>4 DEF FlushIInv, FlushInv, s
  <2> QED BY <2>3, <2>4, <2>5, <2>6 DEF FlushStates
<1> QED BY <1>9, <1>10, <1>11

LEMMA FlushStep ==
  ASSUME FlushIInv, Next
  PROVE  (NewestPending /\ RetriesRepeat /\ FlushInv)'
<1> USE DEF disk, memory
<1>1. file \in Snapshot /\ "persist" \in Kinds /\ "retry" \in Kinds /\ IInv
  BY DEF FlushIInv, IInv, TypeOK, Kinds
<1>2. CASE Load
  <2>1. /\ queue' = <<>> /\ task'.pc = "idle" /\ flush'.st = "none" /\ ~timer'
        /\ UNCHANGED <<main, bak>>
    BY <1>1, <1>2 DEF Load, IInv, PhaseInv
  <2>2. View' = View BY <2>1 DEF View, Valid
  <2>3. Excused(file)' BY <1>2, <2>2 DEF Load, LoadFrom, Excused, OnDisk, Valid
  <2> QED BY <2>1, <2>3, NobodyWaits
<1>3. CASE LoadRecovered
  <2>1. /\ queue' = <<>> /\ flush'.st = "none" /\ ~timer' /\ task'.pc = "restore" /\ task'.snap = bak
    BY <1>1, <1>3 DEF LoadRecovered, IInv, PhaseInv
  <2>2. file' = bak BY <1>3 DEF LoadRecovered, LoadFrom, View
  <2> QED BY <2>1, <2>2, NobodyWaits
<1>4. CASE LoadRejected
  <2>1. /\ queue' = <<>> /\ task'.pc = "idle" /\ flush'.st = "none" /\ ~timer' /\ file' = {}
    BY <1>1, <1>4 DEF LoadRejected, IInv, PhaseInv
  <2> QED BY <2>1, NobodyWaits DEF Excused
<1>5. CASE RepairDone
  <2>1. /\ queue' = <<>> /\ flush'.st = "none" /\ task'.pc = "idle" /\ file' = bak
        /\ View = bak /\ Valid(bak) /\ task.pc = "restore" /\ Interrupted
    BY <1>1, <1>5 DEF RepairDone, Interrupted, IInv, PhaseInv, OtherFileValid, View, Idle
  <2>2. View' = View BY <2>1, <1>1, WriteEffect
  <2>3. timer' => err' BY <1>5 DEF RepairDone, Succeeded, Failed
  <2>4. Excused(file)' BY <2>1, <2>2 DEF Excused, OnDisk, Valid
  <2> QED BY <2>1, <2>3, <2>4, NobodyWaits
<1>6. ASSUME NEW u \in Updates, Mutate(u)
      PROVE  (NewestPending /\ RetriesRepeat /\ FlushInv)'
  <2>1. file' = file \cup {u} /\ file' \in Snapshot BY <1>1, <1>6 DEF Mutate, Snapshot
  <2>2. UNCHANGED <<disk, task, err, timer, flush>> /\ queue' = Enqueue("persist", file')
    BY <1>6 DEF Mutate
  <2>3. timer' => err BY <2>2 DEF FlushIInv, RetriesRepeat
  <2>4. Reached' = Reached BY <2>2 DEF Reached
  <2> QED BY <2>1, <2>2, <2>3, <2>4, <1>1, JoinsTheQueue
<1>7. CASE RetryTimer
  <2>1. /\ UNCHANGED <<disk, task, err, flush, file>> /\ queue' = Enqueue("retry", file') /\ timer' = FALSE
    BY <1>7 DEF RetryTimer
  <2>2. err BY <1>7 DEF RetryTimer, FlushIInv, RetriesRepeat
  <2>3. Reached' = Reached BY <2>1 DEF Reached
  <2> QED BY <2>1, <2>2, <2>3, <1>1, JoinsTheQueue
<1>8. CASE FlushTail /\ err
  <2>1. /\ UNCHANGED <<disk, task, err, file, timer>> /\ queue' = Enqueue("retry", file')
        /\ flush.st = "tail" /\ flush.ahead = 0
        /\ flush' = [flush EXCEPT !.st = "retry", !.ahead = Pending + 1]
    BY <1>8 DEF FlushTail
  <2>2. flush'.st = "retry" /\ flush'.need = flush.need
    BY <2>1 DEF FlushIInv, IInv, TypeOK
  <2>3. Reached' = Reached BY <2>1, <2>2 DEF Reached
  <2> QED BY <2>1, <2>2, <2>3, <1>1, <1>8, JoinsTheQueue
<1>9. CASE FlushTail /\ ~err
  <2>1. /\ UNCHANGED <<main, bak, task, err, file, timer, queue>> /\ flush.st = "tail" /\ flush.ahead = 0
        /\ flush' = [flush EXCEPT !.st = "ok"]
    BY <1>9 DEF FlushTail
  <2>2. flush'.st = "ok" /\ flush'.need = flush.need
    BY <2>1 DEF FlushIInv, IInv, TypeOK
  <2>3. View' = View /\ OnDisk' = OnDisk BY <2>1 DEF View, OnDisk, Valid
  <2>4. flush.need \subseteq OnDisk
    BY <2>1, <1>9 DEF FlushIInv, FlushInv, Reached, Excused
  <2>5. FlushInv' BY <2>2, <2>3, <2>4 DEF FlushInv
  <2>6. NewestPending' /\ RetriesRepeat'
    BY <2>1, <2>3 DEF FlushIInv, NewestPending, RetriesRepeat, Excused
  <2> QED BY <2>5, <2>6
<1>10. CASE FlushCall
  <2> DEFINE T == [kind : Kinds, snap : Snapshot]
  <2>1. /\ UNCHANGED <<main, bak, task, err, file, timer, queue>>
        /\ flush' = [st |-> "tail", ahead |-> Pending, need |-> file]
    BY <1>10 DEF FlushCall
  <2>2. queue \in Seq(T) BY <1>1 DEF IInv, TypeOK
  <2> HIDE DEF T
  <2>3. Len(queue) \in Nat /\ (queue # <<>> => Len(queue) \in Nat \ {0}) BY <2>2, SequenceFacts
  <2>4. View' = View /\ OnDisk' = OnDisk BY <2>1 DEF View, OnDisk, Valid
  <2>5. Reached' = Pending BY <2>1 DEF Reached
  <2>6. ASSUME NEW i \in 1..Len(queue), Place(i) >= Pending
        PROVE  file \subseteq queue[i].snap
    <3>1. i = Len(queue) /\ queue # <<>> BY <2>3, <2>6 DEF Place, Pending
    <3> QED BY <3>1 DEF FlushIInv, NewestPending
  <2>7. ASSUME task.pc # "idle", Pending <= 1
        PROVE  file \subseteq task.snap
    <3>1. Len(queue) = 0 BY <2>3, <2>7 DEF Pending
    <3>2. queue = <<>> BY <2>3, <3>1
    <3> QED BY <3>2, <2>7 DEF FlushIInv, NewestPending
  <2>8. ASSUME Pending = 0 PROVE Excused(file)
    <3>1. Len(queue) = 0 /\ task.pc = "idle" BY <2>3, <2>8 DEF Pending
    <3>2. queue = <<>> BY <2>3, <3>1
    <3> QED BY <3>1, <3>2 DEF FlushIInv, NewestPending
  <2>9. FlushInv' BY <2>1, <2>4, <2>5, <2>6, <2>7, <2>8 DEF FlushInv, Place, Excused
  <2>10. NewestPending' /\ RetriesRepeat'
    BY <2>1, <2>4 DEF FlushIInv, NewestPending, RetriesRepeat, Excused
  <2> QED BY <2>9, <2>10
<1>11. CASE Dispose
  <2>1. UNCHANGED <<main, bak, task, err, file, queue, flush>> /\ ~timer' BY <1>11 DEF Dispose
  <2>2. View' = View /\ OnDisk' = OnDisk /\ Reached' = Reached BY <2>1 DEF View, OnDisk, Valid, Reached
  <2> QED BY <2>1, <2>2 DEF FlushIInv, NewestPending, RetriesRepeat, FlushInv, Excused, Place
<1>12. CASE SkipTask
  <2>1. /\ queue # <<>> /\ queue' = Tail(queue) /\ task.pc = "idle" /\ UNCHANGED <<disk, file, task, err, timer>>
        /\ flush' = Settle(err) /\ (poison \/ (Head(queue).kind = "retry" /\ ~err))
    BY <1>12 DEF SkipTask, Ready
  <2>2. ~poison BY <2>1, <1>1 DEF IInv, PhaseInv
  <2>3. timer' => err' BY <2>1 DEF FlushIInv, RetriesRepeat
  <2>4. err' \in BOOLEAN BY <2>1, <1>1 DEF IInv, TypeOK
  <2> QED BY <2>1, <2>2, <2>3, <2>4, LeavesTheQueue
<1>13. CASE FailTask
  <2>1. /\ queue # <<>> /\ queue' = Tail(queue) /\ task.pc = "idle" /\ UNCHANGED <<disk, file, task>>
        /\ flush' = Settle(TRUE) /\ err' = TRUE
    BY <1>13 DEF FailTask, Runnable, Ready, Failed
  <2> QED BY <2>1, LeavesTheQueue
<1>14. CASE StartTask BY <1>14, StartsATask
<1>15. CASE WriteNext
  <2>1. /\ UNCHANGED <<file, queue, err, timer, flush>> /\ task.pc # "idle" /\ task.pc # "main" /\ Interrupted
        /\ task'.pc # "idle" /\ task'.snap = task.snap
    BY <1>15, <1>1 DEF WriteNext, Interrupted, IInv, TypeOK, Task
  <2>2. View' = View BY <2>1, <1>1, WriteEffect
  <2>3. OnDisk' = OnDisk /\ Reached' = Reached BY <2>1, <2>2 DEF OnDisk, Valid, Reached
  <2> QED BY <2>1, <2>3 DEF FlushIInv, NewestPending, RetriesRepeat, FlushInv, Excused, Place
<1>16. CASE WriteLast \/ WriteFails BY <1>16, EndsATask
<1>17. CASE Crash
  <2>1. /\ queue' = <<>> /\ task'.pc = "idle" /\ flush'.st = "none" /\ ~timer' /\ file' = {}
    BY <1>17 DEF Crash, Idle, NoFlush
  <2> QED BY <2>1, NobodyWaits DEF Excused
<1> QED
  BY <1>2, <1>3, <1>4, <1>5, <1>6, <1>7, <1>8, <1>9, <1>10, <1>11, <1>12, <1>13, <1>14, <1>15, <1>16, <1>17
  DEF Next

\* A flush() that returns without error has its caller's updates on the disk, however retries, failed
\* writes and later updates interleave with it (FlushMeansStored): the last snapshot pending is
\* memory, a retry repeats the snapshot before it, and a failure stands until a newer write succeeds.
THEOREM FlushStores == Spec => []FlushMeansStored
<1>1. Init => FlushIInv
  <2> SUFFICES ASSUME Init PROVE FlushIInv OBVIOUS
  <2>1. queue = <<>> /\ file = {} /\ flush.st = "none" /\ ~timer /\ task.pc = "idle"
    BY DEF Init, Idle, NoFlush
  <2> QED BY <2>1, InitIInv DEF FlushIInv, NewestPending, RetriesRepeat, FlushInv, Excused
<1>2. FlushIInv /\ IInv' /\ [Next]_vars => FlushIInv'
  <2> SUFFICES ASSUME FlushIInv, IInv', [Next]_vars PROVE FlushIInv' OBVIOUS
  <2>1. CASE UNCHANGED vars
    <3>1. UNCHANGED <<main, bak, task, err, file, timer, queue, flush>> BY <2>1 DEF vars
    <3>2. View' = View /\ OnDisk' = OnDisk /\ Reached' = Reached BY <3>1 DEF View, OnDisk, Valid, Reached
    <3> QED BY <3>1, <3>2 DEF FlushIInv, NewestPending, RetriesRepeat, FlushInv, Excused, Place
  <2>2. CASE Next BY <2>2, FlushStep DEF FlushIInv
  <2> QED BY <2>1, <2>2
<1>3. FlushIInv => FlushMeansStored BY DEF FlushIInv, FlushInv, FlushMeansStored
<1> QED BY <1>1, <1>2, <1>3, Inductive, PTL DEF Spec

-------------------------------------------------------------------------------
(* Refinement: each step of the two-file protocol is a step of the register *)
(* or leaves it alone.                                                      *)

LEMMA ViewStays ==
  ASSUME UNCHANGED disk
  PROVE  View' = View
  BY DEF View, Valid, disk

\* A write that ends while an instance serves: the stable content stays or advances.
LEMMA WriteAdvances ==
  ASSUME IInv, phase = "up", task.pc # "idle", Interrupted
  PROVE  View' = View \/ Register!Advances
<1>1. task.snap \in Snapshot /\ Covers(task.snap) /\ task.snap \subseteq file
  BY DEF IInv, TypeOK, Task, TaskOrdered
<1>2. View = Absent \/ Valid(View) \/ task.pc # "main"
  BY DEF IInv, OtherFileValid, View, Valid
<1>3. View' = task.snap => Valid(View') /\ (Valid(View) => View \subseteq View')
  BY <1>1, Contents DEF Covers, View, Valid, Content
<1>4. \/ View' = View
      \/ View' = task.snap
      \/ View = Absent /\ View' = Torn
  BY WriteEffect
<1>5. CASE View = Absent /\ View' = Torn
  BY <1>5 DEF Register!Advances
<1>6. CASE View' = task.snap /\ View' # View
  <2>1. task.pc = "main" BY <1>6, WriteEffect
  <2>2. View # Torn BY <2>1, <1>2, Contents DEF Valid
  <2> QED BY <1>1, <1>3, <1>6, <2>2 DEF Register!Advances, Register!Stored, Valid
<1> QED BY <1>4, <1>5, <1>6

LEMMA StepRefines ==
  ASSUME IInv, IInv', [Next]_vars
  PROVE  [Register!Next]_Register!vars
<1> USE DEF disk, memory, Register!vars, Register!Next
<1>1. CASE UNCHANGED vars
  BY <1>1, ViewStays DEF vars
<1>2. CASE Load
  <2>1. /\ phase = "down" /\ phase' = "up" /\ View' = View
        /\ file' = (IF Valid(View) THEN View ELSE {}) /\ poison' = (View = Torn)
    BY <1>2, ViewStays DEF Load, LoadFrom
  <2> QED BY <2>1 DEF Register!Restart, Register!Stored, Valid
<1>3. CASE LoadRecovered \/ LoadRejected
  <2>1. phase # "up" /\ phase' # "up" /\ View' = View
    BY <1>3, ViewStays DEF LoadRecovered, LoadRejected
  <2> QED BY <2>1
<1>4. CASE RepairDone
  <2>1. /\ phase = "repair" /\ phase' = "up" /\ file' = bak /\ View = bak /\ Valid(bak) /\ ~poison'
        /\ task.pc = "restore" /\ Interrupted
    BY <1>4 DEF RepairDone, Interrupted, IInv, PhaseInv, OtherFileValid, View
  <2>2. View' = View BY <2>1, WriteEffect
  <2> QED BY <2>1, <2>2 DEF Register!Restart, Register!Stored, Valid
<1>5. ASSUME NEW u \in Updates, Mutate(u) PROVE Register!Next
  <2>1. /\ phase = "up" /\ phase' = "up" /\ ~poison /\ poison' = poison /\ View' = View
        /\ file' = file \cup {u}
    BY <1>5, ViewStays DEF Mutate
  <2> QED BY <2>1 DEF Register!Update
<1>6. CASE FlushCall \/ FlushTail \/ RetryTimer \/ Dispose \/ SkipTask \/ StartTask \/ FailTask
  <2>1. UNCHANGED <<phase, file, poison>> /\ View' = View
    BY <1>6, ViewStays DEF FlushCall, FlushTail, RetryTimer, Dispose, SkipTask, StartTask, FailTask
  <2> QED BY <2>1
<1>7. CASE WriteNext \/ WriteLast \/ WriteFails
  <2>1. /\ UNCHANGED <<phase, file, poison>> /\ phase = "up" /\ task.pc # "idle" /\ Interrupted
    BY <1>7 DEF WriteNext, WriteLast, WriteFails, Interrupted
  <2>2. CASE View' = View BY <2>1, <2>2
  <2>3. CASE Register!Advances BY <2>1, <2>3 DEF Register!Store
  <2> QED BY <2>1, <2>2, <2>3, WriteAdvances
<1>8. CASE Crash
  <2>1. phase' = "down" BY <1>8 DEF Crash
  <2>2. CASE View' = View BY <2>1, <2>2 DEF Register!Crash
  <2>3. CASE phase = "up" /\ Register!Advances BY <2>1, <2>3 DEF Register!Crash
  <2>4. View' = View \/ (phase = "up" /\ Register!Advances)
    <3>1. CASE UNCHANGED disk BY <3>1, ViewStays
    <3>2. CASE task.pc # "idle" /\ Interrupted
      <4>1. CASE phase = "up" BY <3>2, <4>1, WriteAdvances
      <4>2. CASE phase # "up"
        <5>1. task.pc = "restore" BY <3>2, <4>2 DEF IInv, PhaseInv, TypeOK
        <5> QED BY <3>2, <5>1, WriteEffect
      <4> QED BY <4>1, <4>2
    <3> QED BY <1>8, <3>1, <3>2 DEF Crash
  <2> QED BY <2>2, <2>3, <2>4
<1> QED BY <1>1, <1>2, <1>3, <1>4, <1>5, <1>6, <1>7, <1>8 DEF Next

\* The two files, the queue, the retries and the crashes implement one register whose stable content
\* only moves forward (ImplementsRegister).
THEOREM Refinement == Spec => ImplementsRegister
<1>1. Init => Register!Init
  BY StoreAssumption DEF Init, Register!Init, View, Valid
<1>2. IInv /\ IInv' /\ [Next]_vars => [Register!Next]_Register!vars
  BY StepRefines
<1> QED BY <1>1, <1>2, Inductive, PTL DEF Spec, Register!Spec, ImplementsRegister

===============================================================================
