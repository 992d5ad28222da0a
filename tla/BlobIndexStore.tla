---------------------------- MODULE BlobIndexStore ----------------------------
(***************************************************************************)
(* Persistence of the attachment index (src/blob-index.ts, class           *)
(* BlobIndex): an in-memory file, an exclusive FIFO of disk tasks, and two *)
(* files, the main one and a backup, which the adapter writes in place and *)
(* a crash or an I/O error can tear.                                       *)
(*                                                                         *)
(* The content of a file is the set of updates it reflects (every          *)
(* update / remove / move / advanceCursor that persists is one update):    *)
(* a lost update is then visible as a missing element.  The reads of a     *)
(* task are one step with its decision, as no other task can touch the     *)
(* disk meanwhile; every write is in progress between two steps, and its   *)
(* outcome (old bytes, torn bytes, new bytes) is chosen when it ends, when *)
(* it fails or when the process dies.  The quarantine copy of a corrupt    *)
(* main file is written best effort and never read: it is left out.        *)
(***************************************************************************)
EXTENDS Naturals, Sequences

CONSTANTS
  Updates,     \* the updates callers may apply, each at most once
  Absent,      \* content of a file that does not exist
  Torn,        \* content that does not validate
  MaxFaults,   \* bound on the I/O errors of the storage adapter
  MaxQueue     \* bound on the queue a flush() is called behind

ASSUME StoreAssumption ==
  /\ \A s \in SUBSET Updates : s # Absent /\ s # Torn
  /\ Absent # Torn
  /\ MaxFaults \in Nat /\ MaxQueue \in Nat

Snapshot == SUBSET Updates
Content == {Absent, Torn} \cup Snapshot

\* validateIndexFile accepts the content of a file.
Valid(content) == content \notin {Absent, Torn}

VARIABLES
  main, bak,   \* the two files
  phase,       \* "down", "repair" (load rewrites main), "up", "refused" (load rejected)
  file,        \* this.file
  poison,      \* this.poison
  queue,       \* tasks waiting on this.writes
  task,        \* the running task: the write in progress and the snapshot to store
  err,         \* this.lastPersistError # null
  timer,       \* this.retryTimer is armed
  disposed,    \* this.disposed
  flush,       \* one caller of flush(): what it waits for and what it wants stored
  verified,    \* history: the last snapshot read back from the disk as valid
  faults       \* I/O errors so far

disk == <<main, bak>>
memory == <<file, poison, disposed>>
vars == <<main, bak, phase, file, poison, queue, task, err, timer, disposed, flush, verified, faults>>

Kinds == {"persist", "retry"}
Writes == {"bak", "restore", "main"}
Task == [pc : {"idle"} \cup Writes, snap : Snapshot]
Idle == [pc |-> "idle", snap |-> {}]
FlushStates == {"none", "tail", "retry", "ok", "rejected"}
NoFlush == [st |-> "none", ahead |-> 0, need |-> {}]

TypeOK ==
  /\ main \in Content /\ bak \in Content
  /\ phase \in {"down", "repair", "up", "refused"}
  /\ file \in Snapshot
  /\ poison \in BOOLEAN /\ err \in BOOLEAN /\ timer \in BOOLEAN /\ disposed \in BOOLEAN
  /\ queue \in Seq([kind : Kinds, snap : Snapshot])
  /\ task \in Task
  /\ flush \in [st : FlushStates, ahead : Nat, need : Snapshot]
  /\ verified \in {Absent} \cup Snapshot
  /\ faults \in Nat

-------------------------------------------------------------------------------
(* The queue and what a finished task leaves behind.                        *)

\* Tasks a promise taken now waits for.
Pending == Len(queue) + (IF task.pc = "idle" THEN 0 ELSE 1)

\* Mutant: a retry overtakes the snapshots queued before it.
RetryFirst(kind, s) ==
  IF kind = "retry" THEN <<[kind |-> kind, snap |-> s]>> \o queue
                    ELSE Append(queue, [kind |-> kind, snap |-> s])

\* enqueue(): the snapshot is captured by the caller, the task runs after all before it.
Enqueue(kind, s) == Append(queue, [kind |-> kind, snap |-> s])

\* Mutant: the wait of a flush() is counted down below zero.
SettleUnguarded(failing) == [flush EXCEPT !.ahead = @ - 1]

\* A waiting flush() counts down; one that waits for its own retry settles with it.
Settle(failing) ==
  IF flush.st = "retry" /\ flush.ahead = 1
  THEN [flush EXCEPT !.ahead = 0, !.st = IF failing THEN "rejected" ELSE "ok"]
  ELSE IF flush.ahead > 0 THEN [flush EXCEPT !.ahead = @ - 1] ELSE flush

\* Mutant: the retry timer is not armed.
FailedSilently ==
  /\ err' = TRUE
  /\ UNCHANGED timer

\* failed(): remember the error and arm the retry timer, unless disposed.
Failed ==
  /\ err' = TRUE
  /\ timer' = (timer \/ ~disposed)

\* succeeded(): forget the error and the timer.
Succeeded ==
  /\ err' = FALSE
  /\ timer' = FALSE

Fault ==
  /\ faults < MaxFaults
  /\ faults' = faults + 1

-------------------------------------------------------------------------------
(* The write in progress: its file, its bytes, and how it may end.          *)

Bytes ==
  IF task.pc = "bak" THEN main ELSE IF task.pc = "restore" THEN bak ELSE task.snap

\* writeRaw left `result` in the file it was writing.
Wrote(result) ==
  IF task.pc = "bak" THEN bak' = result /\ main' = main
                     ELSE main' = result /\ bak' = bak

Interrupted == Wrote(IF task.pc = "bak" THEN bak ELSE main) \/ Wrote(Torn) \/ Wrote(Bytes)

\* What a restart reads: main, else the backup.
View ==
  IF Valid(main) THEN main
  ELSE IF Valid(bak) THEN bak
  ELSE IF main = Absent /\ bak = Absent THEN Absent
  ELSE Torn

-------------------------------------------------------------------------------
Init ==
  /\ main = Absent /\ bak = Absent
  /\ phase = "down"
  /\ file = {} /\ poison = FALSE /\ queue = <<>> /\ task = Idle
  /\ err = FALSE /\ timer = FALSE /\ disposed = FALSE
  /\ flush = NoFlush
  /\ verified = Absent
  /\ faults = 0

(* load(), once per instance and before any caller exists (main.ts).        *)

\* Mutant: a recovered backup is written back but not published.
LoadFromMain(source) ==
  /\ file' = IF Valid(main) THEN source ELSE {}
  /\ poison' = (source = Torn)
  /\ verified' = IF Valid(source) THEN source ELSE verified

LoadFrom(source) ==
  /\ file' = IF Valid(source) THEN source ELSE {}
  /\ poison' = (source = Torn)
  /\ verified' = IF Valid(source) THEN source ELSE verified

\* 'ok', 'fresh' or 'poisoned': nothing to repair.
Load ==
  /\ phase = "down"
  /\ Valid(main) \/ ~Valid(bak)
  /\ LoadFrom(View)
  /\ phase' = "up"
  /\ UNCHANGED <<disk, queue, task, err, timer, disposed, flush, faults>>

\* 'recovered': publish the backup, then rewrite main from it inside the same task.
LoadRecovered ==
  /\ phase = "down"
  /\ ~Valid(main) /\ Valid(bak)
  /\ LoadFrom(View)
  /\ phase' = "repair"
  /\ task' = [pc |-> "restore", snap |-> bak]
  /\ UNCHANGED <<disk, queue, err, timer, disposed, flush, faults>>

\* A read rejects: load() rejects, onload stops and no caller is created.
LoadRejected ==
  /\ phase = "down"
  /\ Fault
  /\ phase' = "refused"
  /\ UNCHANGED <<disk, memory, queue, task, err, timer, flush, verified>>

RepairDone ==
  /\ phase = "repair"
  /\ phase' = "up"
  /\ task' = Idle
  /\ \/ Wrote(Bytes) /\ Succeeded /\ UNCHANGED faults
     \/ Fault /\ Interrupted /\ Failed
  /\ UNCHANGED <<memory, queue, flush, verified>>

-------------------------------------------------------------------------------
(* Callers.                                                                 *)

\* update / remove / move / advanceCursor: change the file, enqueue its snapshot.
Mutate(u) ==
  /\ phase = "up" /\ ~poison
  /\ u \notin file
  /\ file' = file \cup {u}
  /\ queue' = Enqueue("persist", file')
  /\ UNCHANGED <<disk, phase, poison, task, err, timer, disposed, flush, verified, faults>>

FlushCall ==
  /\ phase = "up"
  /\ flush.st \notin {"tail", "retry"} /\ Len(queue) < MaxQueue
  /\ flush' = [st |-> "tail", ahead |-> Pending, need |-> file]
  /\ UNCHANGED <<disk, phase, memory, queue, task, err, timer, verified, faults>>

\* Mutant: flush() does not look at lastPersistError.
FlushTailNoRetry ==
  /\ flush.st = "tail" /\ flush.ahead = 0
  /\ flush' = [flush EXCEPT !.st = "ok"]
  /\ UNCHANGED <<disk, phase, memory, queue, task, err, timer, verified, faults>>

\* The tail has settled: return, or enqueue a retry and wait for it.
FlushTail ==
  /\ flush.st = "tail" /\ flush.ahead = 0
  /\ IF err
     THEN /\ queue' = Enqueue("retry", file)
          /\ flush' = [flush EXCEPT !.st = "retry", !.ahead = Pending + 1]
     ELSE /\ flush' = [flush EXCEPT !.st = "ok"]
          /\ UNCHANGED queue
  /\ UNCHANGED <<disk, phase, memory, task, err, timer, verified, faults>>

\* The 30 s timer fires.
RetryTimer ==
  /\ timer
  /\ timer' = FALSE
  /\ queue' = Enqueue("retry", file)
  /\ UNCHANGED <<disk, phase, memory, task, err, flush, verified, faults>>

Dispose ==
  /\ phase = "up" /\ ~disposed
  /\ disposed' = TRUE
  /\ timer' = FALSE
  /\ UNCHANGED <<disk, phase, file, poison, queue, task, err, flush, verified, faults>>

-------------------------------------------------------------------------------
(* The FIFO: step(snapshot), also on behalf of a retry.                     *)

Ready == phase = "up" /\ task.pc = "idle" /\ queue # <<>>

\* A retry finds nothing to do, or the index is poisoned.
SkipTask ==
  /\ Ready
  /\ poison \/ (Head(queue).kind = "retry" /\ ~err)
  /\ queue' = Tail(queue)
  /\ flush' = Settle(err)
  /\ UNCHANGED <<disk, phase, memory, task, err, timer, verified, faults>>

Runnable == Ready /\ ~poison /\ (Head(queue).kind = "retry" => err)

\* Mutant: main is overwritten before it is rotated into the backup.
FirstWriteNoRotation ==
  IF Valid(main) \/ bak = Absent THEN "main"
  ELSE IF Valid(bak) THEN "restore"
  ELSE "idle"

\* The first write of a step, from what it reads; "idle" when no valid snapshot exists.
FirstWrite ==
  IF Valid(main) THEN "bak"
  ELSE IF main = Absent /\ bak = Absent THEN "main"
  ELSE IF Valid(bak) THEN "restore"
  ELSE "idle"

StartTask ==
  /\ Runnable
  /\ FirstWrite # "idle"
  /\ task' = [pc |-> FirstWrite, snap |-> Head(queue).snap]
  /\ queue' = Tail(queue)
  /\ UNCHANGED <<disk, phase, memory, err, timer, flush, verified, faults>>

\* 'no-valid-snapshot', or a read rejects.
FailTask ==
  /\ Runnable
  /\ (FirstWrite = "idle" /\ UNCHANGED faults) \/ Fault
  /\ queue' = Tail(queue)
  /\ Failed
  /\ flush' = Settle(TRUE)
  /\ UNCHANGED <<disk, phase, memory, task, verified>>

\* A verified write that is not the step's last: main restored, then bak, then main.
WriteNext ==
  /\ phase = "up" /\ task.pc \in {"restore", "bak"}
  /\ Wrote(Bytes)
  /\ task' = [task EXCEPT !.pc = IF @ = "restore" THEN "bak" ELSE "main"]
  /\ UNCHANGED <<phase, memory, queue, err, timer, flush, verified, faults>>

WriteLast ==
  /\ phase = "up" /\ task.pc = "main"
  /\ Wrote(Bytes)
  /\ verified' = task.snap
  /\ task' = Idle
  /\ Succeeded
  /\ flush' = Settle(FALSE)
  /\ UNCHANGED <<phase, memory, queue, faults>>

\* A write rejects or its readback differs: the rest of the step is abandoned.
WriteFails ==
  /\ phase = "up" /\ task.pc # "idle"
  /\ Fault
  /\ Interrupted
  /\ task' = Idle
  /\ Failed
  /\ flush' = Settle(TRUE)
  /\ UNCHANGED <<phase, memory, queue, verified>>

-------------------------------------------------------------------------------
\* The process dies, or the plugin is reloaded; the disk keeps what it has.
Crash ==
  /\ phase # "down"
  /\ phase' = "down"
  /\ file' = {} /\ poison' = FALSE /\ queue' = <<>> /\ task' = Idle
  /\ err' = FALSE /\ timer' = FALSE /\ disposed' = FALSE
  /\ flush' = NoFlush
  /\ IF task.pc = "idle" THEN UNCHANGED disk ELSE Interrupted
  /\ UNCHANGED <<verified, faults>>

Next ==
  \/ Load \/ LoadRecovered \/ LoadRejected \/ RepairDone
  \/ \E u \in Updates : Mutate(u)
  \/ FlushCall \/ FlushTail \/ RetryTimer \/ Dispose
  \/ SkipTask \/ StartTask \/ FailTask
  \/ WriteNext \/ WriteLast \/ WriteFails
  \/ Crash

Spec == Init /\ [][Next]_vars

\* Promise chains run on, adapter calls settle and timers fire.
Fairness ==
  /\ WF_vars(SkipTask) /\ WF_vars(StartTask) /\ WF_vars(FailTask)
  /\ WF_vars(WriteNext) /\ WF_vars(WriteLast)
  /\ WF_vars(RetryTimer) /\ WF_vars(FlushTail)

FairSpec == Spec /\ Fairness

-------------------------------------------------------------------------------
(* The inductive invariant behind the safety properties.                    *)

\* A snapshot at least as new as both files.
Covers(s) ==
  /\ Valid(main) => main \subseteq s
  /\ Valid(bak) => bak \subseteq s

\* Snapshots wait in the order they were taken, none older than the disk or newer than memory.
QueueOrdered ==
  /\ \A i \in 1..Len(queue) : Covers(queue[i].snap) /\ queue[i].snap \subseteq file
  /\ \A i, j \in 1..Len(queue) : i <= j => queue[i].snap \subseteq queue[j].snap

TaskOrdered ==
  (phase = "up" /\ task.pc # "idle") =>
    /\ Covers(task.snap) /\ task.snap \subseteq file
    /\ \A i \in 1..Len(queue) : task.snap \subseteq queue[i].snap

\* The backup is the older file, and the file being written is never the only valid one.
OtherFileValid ==
  /\ Valid(main) /\ Valid(bak) => bak \subseteq main
  /\ task.pc = "bak" => Valid(main)
  /\ task.pc = "restore" => ~Valid(main) /\ Valid(bak)
  /\ task.pc = "main" => (main = Absent /\ bak = Absent) \/ (Valid(main) /\ bak = main)

PhaseInv ==
  /\ phase # "up" => queue = <<>> /\ ~err /\ ~timer /\ flush.st = "none"
  /\ phase \in {"down", "refused"} => task.pc = "idle" /\ file = {} /\ ~poison
  /\ phase = "repair" => task.pc = "restore" /\ file = bak /\ ~poison
  /\ phase = "up" => Covers(file)
  /\ poison => View = Torn /\ queue = <<>> /\ task.pc = "idle" /\ ~err /\ ~timer

StoredInv == verified = Absent \/ (Valid(View) /\ Valid(verified) /\ verified \subseteq View)

IInv == TypeOK /\ QueueOrdered /\ TaskOrdered /\ OtherFileValid /\ PhaseInv /\ StoredInv

\* What flush() relies on besides: what a restart reads now, and whether memory, a snapshot or a
\* caller's wish is already there, a failure that stands being the only excuse.
OnDisk == IF Valid(View) THEN View ELSE {}
Excused(s) == err \/ s \subseteq OnDisk

\* The last snapshot pending is memory itself.
NewestPending ==
  /\ queue # <<>> => queue[Len(queue)].snap = file
  /\ queue = <<>> /\ task.pc # "idle" => task.snap = file
  /\ queue = <<>> /\ task.pc = "idle" => Excused(file)

\* A retry repeats the snapshot pending before it, or one whose fate is known.
RetriesRepeat ==
  /\ \A i, j \in 1..Len(queue) :
       j = i + 1 /\ queue[j].kind = "retry" => queue[j].snap = queue[i].snap
  /\ queue # <<>> /\ queue[1].kind = "retry" =>
       IF task.pc = "idle" THEN Excused(queue[1].snap) ELSE queue[1].snap = task.snap
  /\ timer => err

\* The place in the queue a flush() has reached: a retry was asked for after the tail settled.
Reached == IF flush.st = "retry" THEN 0 ELSE flush.ahead
Place(i) == IF task.pc = "idle" THEN i ELSE i + 1

\* All that a waiting flush() wants is in the snapshot it waits for, and in every later one.
FlushInv ==
  /\ flush.st \in {"tail", "retry"} =>
       /\ flush.need \subseteq file
       /\ \A i \in 1..Len(queue) : Place(i) >= Reached => flush.need \subseteq queue[i].snap
       /\ task.pc # "idle" /\ Reached <= 1 => flush.need \subseteq task.snap
       /\ Reached = 0 => Excused(flush.need)
  /\ flush.st = "ok" => flush.need \subseteq OnDisk

FlushIInv == IInv /\ NewestPending /\ RetriesRepeat /\ FlushInv

-------------------------------------------------------------------------------
(* Properties.                                                              *)

\* Whatever was once read back as stored, a restart at any moment reads it or something newer:
\* no interleaving of rotation, restore, torn write and crash loses it.
NoDurableLoss ==
  Valid(verified) => Valid(View) /\ verified \subseteq View

\* An instance that accepts updates has everything that was ever read back: a restart never
\* comes up fresh, or behind, when data was stored.
ServesWhatIsStored ==
  (phase = "up" /\ ~poison /\ Valid(verified)) => verified \subseteq file

\* flush() returning without error means that all its caller had applied is on the disk: the
\* attachment catch-up advances its cursor on the strength of it.
FlushMeansStored ==
  flush.st = "ok" => flush.need \subseteq OnDisk

\* An update of an instance that keeps running is stored in the end, however the storage failed
\* meanwhile, unless the very first write was torn.
EventuallyStored ==
  \A u \in Updates :
    (phase = "up" /\ u \in file) ~>
      \/ Valid(verified) /\ u \in verified
      \/ phase # "up" \/ disposed \/ View = Torn

\* The two files and the queue implement one crash-proof register.
Register == INSTANCE DurableRegister WITH
  up <- phase = "up",
  mem <- IF phase = "up" THEN file ELSE {},
  readOnly <- phase = "up" /\ poison,
  stable <- View,
  Nothing <- Absent,
  Spoilt <- Torn

ImplementsRegister == Register!Spec
===============================================================================
