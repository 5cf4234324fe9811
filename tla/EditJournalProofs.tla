-------------------------- MODULE EditJournalProofs --------------------------
(***************************************************************************)
(* Theorems about EditJournal, for every set of transactions and every     *)
(* capacity.  The invariant IInv says what the journal, the segments on    *)
(* their way to the disk and the file have to do with one another at every *)
(* step; the safety properties follow from it.                             *)
(***************************************************************************)
EXTENDS EditJournal, SequenceLemmas

-----------------------------------------------------------------------------
(* The inductive invariant.                                                *)

\* The file is the first n edits of the world, whole ...
Whole(n) ==
    Len(file) = n /\ \A i \in 1..n : file[i] = history[i]

\* ... or followed by an incomplete segment.
WithTorn(n) ==
    /\ Len(file) = n + 1 /\ file[n + 1] = Torn
    /\ \A i \in 1..n : file[i] = history[i]

\* Segments queued for the writer or being written.
InFlight == Len(jobs) + IF active = None THEN 0 ELSE 1

\* Segments the writer has finished.
Finished == Len(history) - InFlight

\* The world is open and no write has failed since.
Sound == phase # "Stopped" /\ ~cut

\* What the runtime has in memory, by where it stands.
MemoryInv ==
    /\ (phase = "Stopped") = (pc = "None")
    /\ phase = "Stopped" =>
          /\ queue = <<>> /\ journal = <<>> /\ jobs = <<>> /\ active = None /\ ~failure
    /\ pc \in {"Loop", "Publish", "Flush"} => journal = history
    /\ active = None => ~written
    /\ failure => cut
    /\ phase # "Stopped" /\ cut =>
          jobs = <<>> /\ active = None /\ (failure \/ pc = "Returned")
    /\ Len(history) <= JournalCapacity

\* While the world is open and sound, the file is the history without the
\* segments in flight, which are the rest of it in order.
ChainInv ==
    Sound =>
        /\ journal = history
        /\ InFlight <= Len(history)
        /\ active # None => active.at = Finished /\ active.edit = history[Finished + 1]
        /\ \A i \in 1..Len(jobs) :
              /\ jobs[i].at = Len(history) - Len(jobs) + i - 1
              /\ jobs[i].edit = history[Len(history) - Len(jobs) + i]
        /\ IF written THEN Whole(Finished + 1) \/ WithTorn(Finished) ELSE Whole(Finished)

\* The file always is a beginning of the history, and all of it after an
\* orderly stop.
FileInv ==
    /\ \E n \in 0..Len(history) : Whole(n) \/ WithTorn(n)
    /\ phase = "Stopped" /\ ~cut => Whole(Len(history))

\* An edit is queued at most once and only before it is committed, except for
\* the one whose commit the runtime is about to answer.
QueueInv ==
    /\ \A i \in 1..Len(queue) : queue[i].edit # Snapshot => fate[queue[i].edit] = "Queued"
    /\ \A i, j \in 1..Len(queue) :
          i # j /\ queue[i].edit # Snapshot => queue[i].edit # queue[j].edit
    /\ pc = "Publish" => queue # <<>> /\ queue[1].edit # Snapshot
    /\ \A n \in 1..Len(history) :
          /\ fate[history[n]] \notin {"New", "Begun", "Rejected"}
          /\ fate[history[n]] = "Queued" => pc = "Publish" /\ history[n] = queue[1].edit

\* A late edit waits without leave to be rebased, behind the world's revision.
LateInv ==
    /\ \A e \in late : fate[e] \notin {"New", "Begun"}
    /\ \A n \in 1..Len(history) : history[n] \notin late
    /\ \A i \in 1..Len(queue) :
          queue[i].edit \in late => ~queue[i].rebase /\ base[queue[i].edit] < revision

IInv == TypeOK /\ MemoryInv /\ ChainInv /\ FileInv /\ QueueInv /\ LateInv

-----------------------------------------------------------------------------
(* Types.                                                                  *)

\* What loading the file gives: its whole segments, all of them of the history.
LEMMA RecoveredFacts ==
    ASSUME TypeOK, FileInv
    PROVE  /\ Recovered \in Seq(Edits) /\ Len(Recovered) <= Len(history)
           /\ Len(Recovered) <= Len(file)
           /\ \A i \in 1..Len(Recovered) : Recovered[i] = history[i] /\ file[i] = history[i]
           /\ Recovered = file => Whole(Len(Recovered))
<1>0. file \in Seq(Edits \cup {Torn}) /\ history \in Seq(Edits) /\ Torn \notin Edits
  BY JournalAssumption DEF TypeOK
<1>1. PICK n \in 0..Len(history) : Whole(n) \/ WithTorn(n)
  BY DEF FileInv
<1>2. CASE Whole(n)
  <2>1. ~(file # <<>> /\ file[Len(file)] = Torn)
    BY <1>0, <1>2 DEF Whole
  <2>2. Recovered = file
    BY <2>1 DEF Recovered, Last
  <2>3. \A i \in 1..Len(file) : file[i] \in Edits
    BY <1>0, <1>2 DEF Whole
  <2>4. file \in Seq(Edits)
    BY <1>0, <2>3, IsASeq, LenProperties
  <2>. QED  BY <1>0, <1>2, <2>2, <2>4 DEF Whole
<1>3. CASE WithTorn(n)
  <2>1. file # <<>> /\ file[Len(file)] = Torn
    BY <1>0, <1>3 DEF WithTorn
  <2>2. Recovered = SubSeq(file, 1, n)
    BY <1>0, <1>3, <2>1 DEF Recovered, Last, Front, WithTorn
  <2>3. n \in 0..Len(file)
    BY <1>0, <1>3 DEF WithTorn
  <2>4. /\ Len(Recovered) = n /\ Recovered \in Seq(Edits \cup {Torn})
        /\ \A i \in 1..n : Recovered[i] = file[i]
    BY <1>0, <2>2, <2>3, PrefixElements
  <2>5. \A i \in 1..n : Recovered[i] = history[i] /\ history[i] \in Edits
    BY <1>0, <1>3, <2>4 DEF WithTorn
  <2>6. Recovered \in Seq(Edits)
    BY <2>4, <2>5, IsASeq, LenProperties
  <2>7. Recovered # file
    BY <1>0, <1>3, <2>4 DEF WithTorn
  <2>. QED  BY <1>0, <1>3, <2>3, <2>4, <2>5, <2>6, <2>7 DEF WithTorn
<1>. QED  BY <1>1, <1>2, <1>3

\* Queued operations, and their places in the queue.
Operation == [edit : Edits \cup {Snapshot}, rebase : BOOLEAN]

LEMMA QueueFacts ==
    ASSUME TypeOK
    PROVE  /\ queue \in Seq(Operation) /\ Len(queue) \in Nat
           /\ queue # <<>> =>
                /\ Len(queue) >= 1 /\ Head(queue) = queue[1] /\ Head(queue) \in Operation
                /\ Head(queue).edit \in Edits \cup {Snapshot}
                /\ Tail(queue) \in Seq(Operation) /\ Len(Tail(queue)) = Len(queue) - 1
                /\ \A i \in 1..Len(queue) - 1 : Tail(queue)[i] = queue[i + 1]
<1>1. queue \in Seq(Operation)
  BY DEF TypeOK, Operation
<1>2. ASSUME queue # <<>>
      PROVE  /\ Len(queue) >= 1 /\ Head(queue) = queue[1] /\ Head(queue) \in Operation
             /\ Tail(queue) \in Seq(Operation) /\ Len(Tail(queue)) = Len(queue) - 1
             /\ \A i \in 1..Len(queue) - 1 : Tail(queue)[i] = queue[i + 1]
  BY <1>1, <1>2, HeadTailElements
<1>3. ASSUME NEW op \in Operation PROVE op.edit \in Edits \cup {Snapshot}
  BY DEF Operation
<1>. QED  BY <1>1, <1>2, <1>3

\* A step that only takes operations from the queue or adds them, and answers.
LEMMA QueueStepType ==
    ASSUME TypeOK, queue' \in Seq(Operation), Len(queue') <= QueueCapacity,
           fate' \in [Edits -> Fates], late' \subseteq Edits,
           pc' \in {"None", "Loop", "Publish", "Flush", "Returned"},
           UNCHANGED <<phase, revision, journal, jobs, active, written, failure, disk,
                       base, history, cut>>
    PROVE  TypeOK'
BY DEF TypeOK, Operation, disk

\* What a whole forgetting of memory leaves to be shown.
LEMMA ForgottenType ==
    ASSUME TypeOK, Forgotten, file' \in Seq(Edits \cup {Torn}), synced' \in 0..Len(file'),
           fate' \in [Edits -> Fates], cut' \in BOOLEAN
    PROVE  TypeOK'
<1>1. /\ queue' = <<>> /\ journal' = <<>> /\ jobs' = <<>>
      /\ Len(queue') = 0 /\ Len(journal') = 0 /\ revision' = 0
      /\ phase' = "Stopped" /\ pc' = "None"
      /\ active' = None /\ written' = FALSE /\ failure' = FALSE
      /\ base' = base /\ history' = history /\ late' = late
  BY DEF Forgotten
<1>2. /\ queue' \in Seq([edit : Edits \cup {Snapshot}, rebase : BOOLEAN])
      /\ journal' \in Seq(Edits) /\ jobs' \in Seq(Job)
  BY <1>1
<1>3. QueueCapacity \in Nat /\ JournalCapacity \in Nat
  BY JournalAssumption
<1>4. Len(queue') <= QueueCapacity /\ Len(journal') <= JournalCapacity
  BY <1>1, <1>3
<1>. QED  BY <1>1, <1>2, <1>4 DEF TypeOK

LEMMA TypeStep ==
    ASSUME TypeOK, MemoryInv, FileInv, QueueInv, [Next]_vars
    PROVE  TypeOK'
<1>. USE DEF TypeOK, memory, disk
<1>0. /\ queue \in Seq(Operation) /\ Len(queue) \in Nat
      /\ queue # <<>> =>
            /\ Head(queue) = queue[1] /\ Head(queue).edit \in Edits \cup {Snapshot}
            /\ Tail(queue) \in Seq(Operation) /\ Len(Tail(queue)) = Len(queue) - 1
  BY QueueFacts
<1>1. ASSUME NEW e \in Edits, Begin(e) PROVE TypeOK'
  BY <1>1 DEF Begin, Fates
<1>2. ASSUME NEW e \in Edits, SubmitEdit(e) PROVE TypeOK'
  <2>1. PICK at \in 1..Len(queue) + 1 :
            queue' = InsertAt(queue, at, [edit |-> e, rebase |-> MayRebase(e)])
    BY <1>2 DEF SubmitEdit
  <2>2. [edit |-> e, rebase |-> MayRebase(e)] \in Operation
    BY DEF Operation, MayRebase
  <2>3. queue' \in Seq(Operation) /\ Len(queue') = Len(queue) + 1
    <3>1. PICK op \in Operation : op = [edit |-> e, rebase |-> MayRebase(e)]
      BY <2>2
    <3>2. queue' = InsertAt(queue, at, op)
      BY <2>1, <3>1
    <3>. HIDE DEF TypeOK
    <3>. QED  BY <1>0, <3>2, InsertAtElements
  <2>4. Len(queue') <= QueueCapacity
    BY <1>2, <2>3, JournalAssumption DEF SubmitEdit, QueueRoom
  <2>. QED  BY <1>2, <2>3, <2>4 DEF SubmitEdit, Operation, Fates
<1>3. CASE RequestSnapshot
  <2>1. /\ Append(queue, [edit |-> Snapshot, rebase |-> FALSE]) \in Seq(Operation)
        /\ Len(Append(queue, [edit |-> Snapshot, rebase |-> FALSE])) = Len(queue) + 1
    BY DEF Operation
  <2>. QED  BY <1>3, <2>1, JournalAssumption DEF RequestSnapshot, QueueRoom, Operation
<1>4. CASE RequestStop
  BY <1>4 DEF RequestStop
<1>5. CASE RejectEdit
  <2>1. fate' \in [Edits -> Fates]
    BY <1>0, <1>5 DEF RejectEdit, Answer, Fates
  <2>2. queue' \in Seq(Operation) /\ Len(queue') <= QueueCapacity
    BY <1>0, <1>5, JournalAssumption DEF RejectEdit
  <2>. QED  BY <1>5, <2>1, <2>2, QueueStepType DEF RejectEdit
<1>6. CASE CommitEdit
  <2>1. Head(queue).edit \in Edits
    BY <1>0, <1>6 DEF CommitEdit
  <2>2. PICK job \in Job : job = [edit |-> Head(queue).edit, at |-> Len(journal)]
    <3>1. Len(journal) \in Nat
      OBVIOUS
    <3>2. [edit |-> Head(queue).edit, at |-> Len(journal)] \in Job
      BY <2>1, <3>1 DEF Job
    <3>. QED  BY <3>2
  <2>3. /\ journal' = Append(journal, Head(queue).edit)
        /\ history' = Append(history, Head(queue).edit)
        /\ jobs' = Append(jobs, job) /\ Len(journal) < JournalCapacity
    BY <1>6, <2>2 DEF CommitEdit, Commit
  <2>4. /\ journal' \in Seq(Edits) /\ Len(journal') = Len(journal) + 1
        /\ history' \in Seq(Edits) /\ jobs' \in Seq(Job)
    BY <2>1, <2>3, AppendElements
  <2>5. Len(journal') <= JournalCapacity /\ revision' = Len(journal')
    BY <1>6, <2>3, <2>4, JournalAssumption DEF CommitEdit
  <2>6. /\ pc' = "Publish"
        /\ UNCHANGED <<phase, queue, active, written, failure, disk, base, fate, late, cut>>
    BY <1>6 DEF CommitEdit
  <2>. QED  BY <2>4, <2>5, <2>6
<1>7. CASE PublishEdit
  <2>1. queue # <<>> /\ Head(queue).edit \in Edits
    BY <1>0, <1>7 DEF PublishEdit, QueueInv
  <2>2. fate' \in [Edits -> Fates]
    BY <1>7, <2>1 DEF PublishEdit, Answer, Fates
  <2>3. queue' \in Seq(Operation) /\ Len(queue') <= QueueCapacity
    BY <1>0, <1>7, <2>1, JournalAssumption DEF PublishEdit
  <2>. QED  BY <1>7, <2>2, <2>3, QueueStepType DEF PublishEdit
<1>8. CASE TakeSnapshot
  <2>1. queue' \in Seq(Operation) /\ Len(queue') <= QueueCapacity
    BY <1>0, <1>8, JournalAssumption DEF TakeSnapshot
  <2>. QED  BY <1>8, <2>1, QueueStepType DEF TakeSnapshot
<1>9. CASE LeaveLoop
  BY <1>9 DEF LeaveLoop
<1>10. CASE RunReturns
  BY <1>10 DEF RunReturns
<1>11. CASE TakeJob
  BY <1>11 DEF TakeJob
<1>12. CASE Write
  <2>1. active \in Job
    BY <1>12 DEF Write
  <2>2. file' \in Seq(Edits \cup {Torn}) /\ Len(file') = Len(file) + 1
    <3>1. active.edit \in Edits
      BY <2>1 DEF Job
    <3>2. \A s \in Edits \cup {Torn} :
              Append(file, s) \in Seq(Edits \cup {Torn}) /\ Len(Append(file, s)) = Len(file) + 1
      OBVIOUS
    <3>3. file' = Append(file, active.edit) \/ file' = Append(file, Torn)
      BY <1>12 DEF Write
    <3>. QED  BY <3>1, <3>2, <3>3
  <2>3. synced \in 0..Len(file')
    BY <2>2
  <2>. QED  BY <1>12, <2>2, <2>3 DEF Write
<1>13. CASE Sync
  <2>1. Len(file) \in Nat /\ file' = file /\ synced' = Len(file)
    BY <1>13 DEF Sync
  <2>2. synced' \in 0..Len(file')
    BY <2>1
  <2>. QED  BY <1>13, <2>2 DEF Sync
<1>14. CASE WriteFails
  <2>1. active \in Job /\ active.at \in Nat
    BY <1>14 DEF WriteFails, Job
  <2>2. ASSUME active.at <= Len(file), file' = SubSeq(file, 1, active.at), synced' = active.at
        PROVE  file' \in Seq(Edits \cup {Torn}) /\ synced' \in 0..Len(file')
    BY <2>1, <2>2, PrefixElements
  <2>3. ASSUME UNCHANGED disk
        PROVE  file' \in Seq(Edits \cup {Torn}) /\ synced' \in 0..Len(file')
    BY <2>3
  <2>4. file' \in Seq(Edits \cup {Torn}) /\ synced' \in 0..Len(file')
    BY <1>14, <2>2, <2>3 DEF WriteFails
  <2>5. jobs' \in Seq(Job) /\ active' \in Job \cup {None}
    BY <1>14 DEF WriteFails
  <2>. QED  BY <1>14, <2>4, <2>5 DEF WriteFails
<1>15. CASE Open
  <2>1. Recovered \in Seq(Edits) /\ Len(Recovered) <= JournalCapacity
    BY RecoveredFacts, JournalAssumption DEF MemoryInv
  <2>2. Recovered \in Seq(Edits \cup {Torn})
    BY <2>1
  <2>3. CASE Readable /\ file' = Recovered
    <3>1. /\ journal' = Recovered /\ history' = Recovered /\ revision' = Len(Recovered)
          /\ phase' = "Running" /\ pc' = "Loop" /\ cut' = FALSE
          /\ synced' = IF file' = file THEN synced ELSE Len(file')
      BY <1>15, <2>3 DEF Open
    <3>2. synced' \in 0..Len(file')
      BY <2>2, <2>3, <3>1
    <3>. QED  BY <1>15, <2>1, <2>2, <2>3, <3>1, <3>2 DEF Open
  <2>4. CASE ~(Readable /\ file' = Recovered)
    BY <1>15, <2>4 DEF Open
  <2>. QED  BY <2>3, <2>4
<1>16. CASE Close
  <2>1. fate' \in [Edits -> Fates]
    BY <1>16 DEF Close, Fates
  <2>2. Forgotten /\ UNCHANGED <<file, synced, cut>>
    BY <1>16 DEF Close
  <2>. QED  BY <2>1, <2>2, ForgottenType
<1>17. CASE Crash
  <2>1. PICK n \in synced..Len(file) :
          /\ \/ file' = SubSeq(file, 1, n)
             \/ n < Len(file) /\ file' = Append(SubSeq(file, 1, n), Torn)
          /\ synced' = Len(file')
    BY <1>17 DEF Crash
  <2>2. SubSeq(file, 1, n) \in Seq(Edits \cup {Torn})
    BY <2>1, PrefixElements
  <2>3. file' \in Seq(Edits \cup {Torn})
    <3>1. Append(SubSeq(file, 1, n), Torn) \in Seq(Edits \cup {Torn})
      BY <2>2, AppendElements
    <3>. QED  BY <2>1, <2>2, <3>1
  <2>4. synced' \in 0..Len(file')
    BY <2>1, <2>3
  <2>5. fate' \in [Edits -> Fates]
    BY <1>17 DEF Crash, Fates
  <2>6. Forgotten /\ cut' = TRUE
    BY <1>17 DEF Crash
  <2>. QED  BY <2>3, <2>4, <2>5, <2>6, ForgottenType
<1>18. CASE UNCHANGED vars
  BY <1>18 DEF vars
<1>. QED
  BY <1>1, <1>2, <1>3, <1>4, <1>5, <1>6, <1>7, <1>8, <1>9, <1>10, <1>11, <1>12, <1>13,
     <1>14, <1>15, <1>16, <1>17, <1>18 DEF Next, RuntimeStep, WriterStep

-----------------------------------------------------------------------------
(* Memory.                                                                 *)

LEMMA MemoryStep ==
    ASSUME TypeOK, MemoryInv, FileInv, [Next]_vars
    PROVE  MemoryInv'
<1>. USE DEF MemoryInv, memory, disk
<1>0. /\ phase \in {"Stopped", "Running", "Failed", "Stopping"}
      /\ cut \in BOOLEAN /\ failure \in BOOLEAN /\ Len(history) \in Nat
  BY DEF TypeOK
<1>1. ASSUME NEW e \in Edits, Begin(e) PROVE MemoryInv'
  BY <1>1 DEF Begin
<1>2. ASSUME NEW e \in Edits, SubmitEdit(e) PROVE MemoryInv'
  BY <1>2 DEF SubmitEdit
<1>3. CASE RequestSnapshot
  BY <1>3 DEF RequestSnapshot
<1>4. CASE RequestStop
  BY <1>4 DEF RequestStop
<1>5. CASE RejectEdit
  BY <1>5 DEF RejectEdit
<1>6. CASE CommitEdit
  <2>1. phase # "Stopped" /\ ~cut /\ journal = history
    BY <1>0, <1>6 DEF CommitEdit
  <2>2. Head(queue).edit \in Edits
    BY <1>6, QueueFacts DEF CommitEdit
  <2>3. Len(history') = Len(history) + 1
    BY <1>6, <2>2, AppendElements DEF CommitEdit, Commit, TypeOK
  <2>4. Len(history') <= JournalCapacity
    BY <1>0, <1>6, <2>1, <2>3, JournalAssumption DEF CommitEdit
  <2>. QED  BY <1>6, <2>1, <2>4 DEF CommitEdit, Commit
<1>7. CASE PublishEdit
  BY <1>7 DEF PublishEdit
<1>8. CASE TakeSnapshot
  BY <1>8 DEF TakeSnapshot
<1>9. CASE LeaveLoop
  BY <1>9 DEF LeaveLoop
<1>10. CASE RunReturns
  BY <1>10 DEF RunReturns
<1>11. CASE TakeJob
  BY <1>11 DEF TakeJob
<1>12. CASE Write
  BY <1>12 DEF Write
<1>13. CASE Sync
  BY <1>13 DEF Sync
<1>14. CASE WriteFails
  BY <1>14 DEF WriteFails
<1>15. CASE Open
  <2>1. Len(Recovered) <= Len(history)
    BY RecoveredFacts
  <2>2. Len(Recovered) \in Nat
    BY RecoveredFacts
  <2>3. Len(history') <= JournalCapacity
    BY <1>0, <1>15, <2>1, <2>2, JournalAssumption DEF Open
  <2>. QED  BY <1>15, <2>3 DEF Open
<1>16. CASE Close
  BY <1>16 DEF Close, Forgotten
<1>17. CASE Crash
  BY <1>17 DEF Crash, Forgotten
<1>18. CASE UNCHANGED vars
  BY <1>18 DEF vars
<1>. QED
  BY <1>1, <1>2, <1>3, <1>4, <1>5, <1>6, <1>7, <1>8, <1>9, <1>10, <1>11, <1>12, <1>13,
     <1>14, <1>15, <1>16, <1>17, <1>18 DEF Next, RuntimeStep, WriterStep

-----------------------------------------------------------------------------
(* Segments on their way.                                                  *)

\* Steps that touch neither the history, nor the segments, nor the file.
LEMMA ChainKept ==
    ASSUME ChainInv, Sound' => Sound,
           UNCHANGED <<journal, history, jobs, active, written, file>>
    PROVE  ChainInv'
BY DEF ChainInv, InFlight, Finished, Whole, WithTorn

\* The numbers the chain is about.
LEMMA ChainNumbers ==
    ASSUME TypeOK
    PROVE  /\ Len(history) \in Nat /\ Len(jobs) \in Nat /\ Len(file) \in Nat
           /\ InFlight = Len(jobs) + (IF active = None THEN 0 ELSE 1)
           /\ InFlight \in Nat
           /\ Finished = Len(history) - InFlight /\ Finished \in Int
<1>1. Len(history) \in Nat /\ Len(jobs) \in Nat /\ Len(file) \in Nat
  BY DEF TypeOK
<1>2. InFlight = Len(jobs) + (IF active = None THEN 0 ELSE 1)
  BY DEF InFlight
<1>3. InFlight \in Nat
  BY <1>1, <1>2
<1>. QED  BY <1>1, <1>2, <1>3 DEF Finished

LEMMA ChainCommit ==
    ASSUME TypeOK, MemoryInv, ChainInv, CommitEdit
    PROVE  ChainInv'
<1>0. /\ Len(history) \in Nat /\ Len(jobs) \in Nat
      /\ history \in Seq(Edits) /\ jobs \in Seq(Job)
  BY DEF TypeOK
<1> DEFINE e == Head(queue).edit
           j == [edit |-> e, at |-> Len(journal)]
<1>1. e \in Edits
  BY QueueFacts DEF CommitEdit
<1>2. Sound /\ journal = history
  BY DEF CommitEdit, MemoryInv, Sound
<1>3. j \in Job
  BY <1>0, <1>1, <1>2 DEF Job
<1>4. /\ Len(history') = Len(history) + 1 /\ history'[Len(history) + 1] = e
      /\ \A i \in 1..Len(history) : history'[i] = history[i]
  BY <1>0, <1>1, AppendElements DEF CommitEdit, Commit
<1>5. /\ Len(jobs') = Len(jobs) + 1 /\ jobs'[Len(jobs) + 1] = j
      /\ \A i \in 1..Len(jobs) : jobs'[i] = jobs[i]
  BY <1>0, <1>3, AppendElements DEF CommitEdit, Commit
<1>6. UNCHANGED <<active, written, file>> /\ journal' = history'
  BY <1>2 DEF CommitEdit, Commit, disk
<1>7. /\ InFlight' = InFlight + 1 /\ Finished' = Finished
      /\ InFlight \in Nat /\ Finished \in Nat /\ InFlight <= Len(history)
      /\ Finished = Len(history) - InFlight
      /\ active # None => Finished + 1 <= Len(history)
  BY <1>0, <1>2, <1>4, <1>5, <1>6, ChainNumbers DEF ChainInv, InFlight, Finished
<1>8. ASSUME NEW i \in 1..Len(jobs')
      PROVE  /\ jobs'[i].at = Len(history') - Len(jobs') + i - 1
             /\ jobs'[i].edit = history'[Len(history') - Len(jobs') + i]
  <2>1. CASE i \in 1..Len(jobs)
    <3>1. /\ jobs[i].at = Len(history) - Len(jobs) + i - 1
          /\ jobs[i].edit = history[Len(history) - Len(jobs) + i]
      BY <1>2, <2>1 DEF ChainInv
    <3>2. Len(history) - Len(jobs) + i \in 1..Len(history)
      BY <1>0, <1>7, <2>1, ChainNumbers
    <3>3. Len(history') - Len(jobs') = Len(history) - Len(jobs)
      BY <1>0, <1>4, <1>5
    <3>. QED  BY <1>4, <1>5, <2>1, <3>1, <3>2, <3>3
  <2>2. CASE i = Len(jobs) + 1
    BY <1>0, <1>2, <1>4, <1>5, <2>2
  <2>. QED  BY <1>0, <1>5, <2>1, <2>2
<1>9. Whole(Finished) => Whole(Finished)'
  BY <1>0, <1>4, <1>6, <1>7 DEF Whole
<1>10. active # None => (Whole(Finished + 1) => Whole(Finished + 1)')
                        /\ (WithTorn(Finished) => WithTorn(Finished)')
  BY <1>0, <1>4, <1>6, <1>7 DEF Whole, WithTorn
<1>11. written => active # None
  BY DEF MemoryInv
<1>12. active' # None => active'.at = Finished' /\ active'.edit = history'[Finished' + 1]
  <2>1. active # None => active.at = Finished /\ active.edit = history[Finished + 1]
    BY <1>2 DEF ChainInv
  <2>2. active # None => Finished + 1 \in 1..Len(history)
    BY <1>0, <1>7
  <2>3. active # None => history'[Finished + 1] = history[Finished + 1]
    BY <1>4, <2>2
  <2>. QED  BY <1>6, <1>7, <2>1, <2>3
<1>13. IF written' THEN Whole(Finished + 1)' \/ WithTorn(Finished)' ELSE Whole(Finished)'
  BY <1>2, <1>6, <1>9, <1>10, <1>11 DEF ChainInv
<1>14. InFlight' <= Len(history')
  BY <1>0, <1>4, <1>7
<1>. QED  BY <1>6, <1>7, <1>8, <1>12, <1>13, <1>14 DEF ChainInv

LEMMA ChainTake ==
    ASSUME TypeOK, MemoryInv, ChainInv, TakeJob
    PROVE  ChainInv'
<1>0. /\ Len(history) \in Nat /\ Len(jobs) \in Nat /\ jobs \in Seq(Job)
      /\ jobs # <<>> /\ active = None /\ ~written
  BY DEF TypeOK, TakeJob, MemoryInv
<1>1. /\ active' = jobs[1] /\ jobs[1] \in Job /\ Len(jobs) >= 1
      /\ Len(jobs') = Len(jobs) - 1
      /\ \A i \in 1..Len(jobs) - 1 : jobs'[i] = jobs[i + 1]
  BY <1>0, HeadTailElements DEF TakeJob
<1>2. active' # None
  BY <1>1, JournalAssumption DEF Job
<1>3. UNCHANGED <<phase, cut, journal, history, written, file>>
  BY DEF TakeJob, disk
<1>4. /\ InFlight = Len(jobs) /\ InFlight' = InFlight
      /\ Finished = Len(history) - Len(jobs) /\ Finished' = Finished
  BY <1>0, <1>1, <1>2, <1>3 DEF InFlight, Finished
<1>. SUFFICES ASSUME Sound PROVE
        /\ journal' = history'
        /\ InFlight' <= Len(history')
        /\ active'.at = Finished' /\ active'.edit = history'[Finished' + 1]
        /\ \A i \in 1..Len(jobs') :
              /\ jobs'[i].at = Len(history') - Len(jobs') + i - 1
              /\ jobs'[i].edit = history'[Len(history') - Len(jobs') + i]
        /\ IF written' THEN Whole(Finished + 1)' \/ WithTorn(Finished)' ELSE Whole(Finished)'
  BY <1>3 DEF ChainInv, Sound
<1>5. \A i \in 1..Len(jobs) :
          /\ jobs[i].at = Len(history) - Len(jobs) + i - 1
          /\ jobs[i].edit = history[Len(history) - Len(jobs) + i]
  BY DEF ChainInv
<1>6. active'.at = Finished' /\ active'.edit = history'[Finished' + 1]
  <2>1. jobs[1].at = Len(history) - Len(jobs) + 1 - 1 /\ jobs[1].edit = history[Len(history) - Len(jobs) + 1]
    BY <1>0, <1>1, <1>5
  <2>. QED  BY <1>0, <1>1, <1>3, <1>4, <2>1
<1>7. ASSUME NEW i \in 1..Len(jobs')
      PROVE  /\ jobs'[i].at = Len(history') - Len(jobs') + i - 1
             /\ jobs'[i].edit = history'[Len(history') - Len(jobs') + i]
  <2>1. i \in 1..Len(jobs) - 1 /\ i + 1 \in 1..Len(jobs)
    BY <1>0, <1>1
  <2>2. jobs'[i] = jobs[i + 1]
    BY <1>1, <2>1
  <2>3. /\ jobs[i + 1].at = Len(history) - Len(jobs) + (i + 1) - 1
        /\ jobs[i + 1].edit = history[Len(history) - Len(jobs) + (i + 1)]
    BY <1>5, <2>1
  <2>4. Len(history) - Len(jobs) + (i + 1) = Len(history') - Len(jobs') + i
    BY <1>0, <1>1, <1>3, <2>1
  <2>. QED  BY <1>0, <1>1, <1>3, <2>1, <2>2, <2>3, <2>4
<1>8. Whole(Finished)'
  BY <1>0, <1>3, <1>4 DEF ChainInv, Whole
<1>. QED  BY <1>0, <1>3, <1>4, <1>6, <1>7, <1>8 DEF ChainInv

\* The writer works only while nothing has failed.
LEMMA WriterSound ==
    ASSUME TypeOK, MemoryInv, active # None
    PROVE  Sound /\ active \in Job /\ active.edit \in Edits /\ active.edit # Torn
BY JournalAssumption DEF TypeOK, MemoryInv, Sound, Job

LEMMA ChainWrite ==
    ASSUME TypeOK, MemoryInv, ChainInv, Write
    PROVE  ChainInv' /\ (Whole(Finished + 1)' \/ WithTorn(Finished)') /\ Finished + 1 \in 1..Len(history)
<1>0. /\ Len(history) \in Nat /\ Len(jobs) \in Nat
      /\ file \in Seq(Edits \cup {Torn})
      /\ active # None /\ ~written /\ Sound
      /\ active.edit \in Edits
  BY WriterSound DEF TypeOK, Write
<1>1. UNCHANGED <<phase, cut, journal, history, jobs, active>> /\ written'
  BY DEF Write
<1>2. /\ InFlight' = InFlight /\ Finished' = Finished
      /\ Finished \in Nat /\ Finished + 1 \in 1..Len(history)
  BY <1>0, <1>1, ChainNumbers DEF ChainInv, InFlight, Finished
<1>3. Whole(Finished) /\ active.edit = history[Finished + 1]
  BY <1>0 DEF ChainInv
<1>4. ASSUME NEW s \in Edits \cup {Torn}, file' = Append(file, s)
      PROVE  /\ Len(file') = Finished + 1 /\ file'[Finished + 1] = s
             /\ \A i \in 1..Finished : file'[i] = history'[i]
  BY <1>0, <1>1, <1>2, <1>3, <1>4, AppendElements DEF Whole
<1>5. CASE file' = Append(file, active.edit)
  <2>1. /\ Len(file') = Finished + 1 /\ file'[Finished + 1] = active.edit
        /\ \A i \in 1..Finished : file'[i] = history'[i]
    BY <1>0, <1>4, <1>5
  <2>. QED  BY <1>0, <1>1, <1>2, <1>3, <2>1 DEF ChainInv, Whole
<1>6. CASE file' = Append(file, Torn)
  <2>1. /\ Len(file') = Finished + 1 /\ file'[Finished + 1] = Torn
        /\ \A i \in 1..Finished : file'[i] = history'[i]
    BY <1>0, <1>4, <1>6
  <2>2. WithTorn(Finished)'
    BY <1>2, <2>1 DEF WithTorn
  <2>. QED  BY <1>0, <1>1, <1>2, <1>3, <2>2 DEF ChainInv
<1>. QED  BY <1>5, <1>6 DEF Write

LEMMA ChainSync ==
    ASSUME TypeOK, MemoryInv, ChainInv, Sync
    PROVE  ChainInv'
<1>0. /\ Len(history) \in Nat /\ Len(jobs) \in Nat
      /\ file \in Seq(Edits \cup {Torn})
      /\ written /\ active # None
  BY DEF TypeOK, Sync, MemoryInv
<1>1. Sound /\ active.edit # Torn
  BY <1>0, WriterSound
<1>2. UNCHANGED <<phase, cut, journal, history, jobs, file>> /\ active' = None /\ ~written'
  BY DEF Sync
<1>3. /\ InFlight = Len(jobs) + 1 /\ InFlight' = Len(jobs)
      /\ Finished' = Finished + 1 /\ Finished \in Nat
      /\ InFlight <= Len(history)
  BY <1>0, <1>1, <1>2, ChainNumbers DEF ChainInv, InFlight, Finished
<1>4. Whole(Finished + 1)
  <2>1. Whole(Finished + 1) \/ WithTorn(Finished)
    BY <1>0, <1>1 DEF ChainInv
  <2>2. ASSUME WithTorn(Finished) PROVE FALSE
    BY <1>0, <1>1, <1>3, <2>2 DEF WithTorn, Sync, Last
  <2>. QED  BY <2>1, <2>2
<1>5. Whole(Finished)'
  BY <1>2, <1>3, <1>4 DEF Whole
<1>6. /\ journal = history
      /\ \A i \in 1..Len(jobs) :
            /\ jobs[i].at = Len(history) - Len(jobs) + i - 1
            /\ jobs[i].edit = history[Len(history) - Len(jobs) + i]
  BY <1>1 DEF ChainInv
<1>7. InFlight' <= Len(history')
  BY <1>0, <1>2, <1>3
<1>. QED  BY <1>2, <1>5, <1>6, <1>7 DEF ChainInv

LEMMA ChainOpen ==
    ASSUME TypeOK, MemoryInv, FileInv, Open
    PROVE  ChainInv'
<1>1. CASE cut'
  BY <1>1 DEF ChainInv, Sound
<1>2. CASE ~cut'
  <2>1. /\ file' = Recovered /\ journal' = Recovered /\ history' = Recovered
        /\ jobs' = <<>> /\ active' = None /\ ~written'
    BY <1>2 DEF Open, MemoryInv
  <2>2. Recovered \in Seq(Edits) /\ Len(Recovered) \in Nat
    BY RecoveredFacts
  <2>3. InFlight' = 0 /\ Finished' = Len(Recovered)
    BY <2>1, <2>2 DEF InFlight, Finished
  <2>. QED  BY <2>1, <2>2, <2>3 DEF ChainInv, Whole
<1>. QED  BY <1>1, <1>2

LEMMA ChainStep ==
    ASSUME TypeOK, MemoryInv, FileInv, ChainInv, [Next]_vars
    PROVE  ChainInv'
<1>. USE DEF memory, disk
<1>1. ASSUME NEW e \in Edits, Begin(e) PROVE ChainInv'
  BY <1>1, ChainKept DEF Begin, Sound
<1>2. ASSUME NEW e \in Edits, SubmitEdit(e) PROVE ChainInv'
  BY <1>2, ChainKept DEF SubmitEdit, Sound
<1>3. CASE RequestSnapshot
  BY <1>3, ChainKept DEF RequestSnapshot, Sound
<1>4. CASE RequestStop
  BY <1>4, ChainKept DEF RequestStop, Sound
<1>5. CASE RejectEdit
  BY <1>5, ChainKept DEF RejectEdit, Sound
<1>6. CASE CommitEdit
  BY <1>6, ChainCommit
<1>7. CASE PublishEdit
  BY <1>7, ChainKept DEF PublishEdit, Sound
<1>8. CASE TakeSnapshot
  BY <1>8, ChainKept DEF TakeSnapshot, Sound
<1>9. CASE LeaveLoop
  BY <1>9, ChainKept DEF LeaveLoop, Sound
<1>10. CASE RunReturns
  <2>1. phase # "Stopped"
    BY <1>10 DEF RunReturns, MemoryInv
  <2>. QED  BY <1>10, <2>1, ChainKept DEF RunReturns, Sound
<1>11. CASE TakeJob
  BY <1>11, ChainTake
<1>12. CASE Write
  BY <1>12, ChainWrite
<1>13. CASE Sync
  BY <1>13, ChainSync
<1>14. CASE WriteFails
  BY <1>14 DEF WriteFails, ChainInv, Sound
<1>15. CASE Open
  BY <1>15, ChainOpen
<1>16. CASE Close
  BY <1>16 DEF Close, Forgotten, ChainInv, Sound
<1>17. CASE Crash
  BY <1>17 DEF Crash, ChainInv, Sound
<1>18. CASE UNCHANGED vars
  BY <1>18, ChainKept DEF vars, Sound
<1>. QED
  BY <1>1, <1>2, <1>3, <1>4, <1>5, <1>6, <1>7, <1>8, <1>9, <1>10, <1>11, <1>12, <1>13,
     <1>14, <1>15, <1>16, <1>17, <1>18 DEF Next, RuntimeStep, WriterStep

-----------------------------------------------------------------------------
(* The file.                                                               *)

\* Steps that touch neither the history nor the file, and do not stop the world.
LEMMA FileKept ==
    ASSUME FileInv, phase' = "Stopped" /\ ~cut' => phase = "Stopped" /\ ~cut,
           UNCHANGED <<history, file>>
    PROVE  FileInv'
BY DEF FileInv, Whole, WithTorn

LEMMA FileCrash ==
    ASSUME TypeOK, FileInv, Crash
    PROVE  FileInv'
<1>0. file \in Seq(Edits \cup {Torn}) /\ Len(file) \in Nat /\ Len(history) \in Nat /\ synced \in Nat
  BY DEF TypeOK
<1>1. PICK m \in 0..Len(history) : Whole(m) \/ WithTorn(m)
  BY DEF FileInv
<1>2. PICK k \in synced..Len(file) :
          \/ file' = SubSeq(file, 1, k)
          \/ k < Len(file) /\ file' = Append(SubSeq(file, 1, k), Torn)
  BY DEF Crash
<1>3. history' = history /\ cut'
  BY DEF Crash, Forgotten
<1>4. /\ k \in 0..Len(file)
      /\ SubSeq(file, 1, k) \in Seq(Edits \cup {Torn}) /\ Len(SubSeq(file, 1, k)) = k
      /\ \A i \in 1..k : SubSeq(file, 1, k)[i] = file[i]
  BY <1>0, <1>2, PrefixElements
<1>5. CASE file' = SubSeq(file, 1, k)
  <2>1. CASE k <= m
    <3>1. Whole(k)'
      BY <1>1, <1>3, <1>4, <1>5, <2>1 DEF Whole, WithTorn
    <3>2. k \in 0..Len(history')
      BY <1>3, <1>4, <2>1
    <3>. QED  BY <1>3, <3>1, <3>2 DEF FileInv
  <2>2. CASE k > m
    <3>1. WithTorn(m)'
      BY <1>1, <1>3, <1>4, <1>5, <2>2 DEF Whole, WithTorn
    <3>. QED  BY <1>3, <3>1 DEF FileInv
  <2>. QED  BY <1>4, <2>1, <2>2
<1>6. CASE k < Len(file) /\ file' = Append(SubSeq(file, 1, k), Torn)
  <2>1. /\ Len(file') = k + 1 /\ file'[k + 1] = Torn
        /\ \A i \in 1..k : file'[i] = file[i]
    BY <1>4, <1>6, AppendElements
  <2>2. k <= m
    BY <1>1, <1>4, <1>6 DEF Whole, WithTorn
  <2>3. WithTorn(k)'
    BY <1>1, <1>3, <1>4, <2>1, <2>2 DEF Whole, WithTorn
  <2>4. k \in 0..Len(history')
    BY <1>3, <1>4, <2>2
  <2>. QED  BY <1>3, <2>3, <2>4 DEF FileInv
<1>. QED  BY <1>2, <1>5, <1>6

LEMMA FileWriteFails ==
    ASSUME TypeOK, MemoryInv, ChainInv, FileInv, WriteFails
    PROVE  FileInv'
<1>1. /\ file \in Seq(Edits \cup {Torn}) /\ Len(file) \in Nat /\ Len(history) \in Nat
      /\ history' = history /\ phase' = phase /\ phase # "Stopped"
  BY DEF TypeOK, WriteFails, MemoryInv
<1>2. CASE UNCHANGED disk
  BY <1>1, <1>2, FileKept DEF disk
<1>3. CASE active.at <= Len(file) /\ file' = SubSeq(file, 1, active.at)
  <2>1. Sound /\ active # None
    BY WriterSound DEF WriteFails
  <2>2. active.at = Finished /\ Finished \in 0..Len(history)
    BY <2>1, ChainNumbers DEF ChainInv
  <2>3. Whole(Finished) \/ Whole(Finished + 1) \/ WithTorn(Finished)
    BY <2>1 DEF ChainInv
  <2>4. \A i \in 1..Finished : file[i] = history[i]
    BY <2>2, <2>3 DEF Whole, WithTorn
  <2>5. Len(file') = Finished /\ \A i \in 1..Finished : file'[i] = file[i]
    BY <1>1, <1>3, <2>2, PrefixElements
  <2>6. /\ Len(file') = Finished
        /\ \A i \in 1..Finished : file'[i] = history'[i]
    BY <1>1, <2>4, <2>5
  <2>7. \E n \in 0..Len(history') : Whole(n)'
    BY <1>1, <2>2, <2>6 DEF Whole
  <2>. QED  BY <1>1, <2>7 DEF FileInv
<1>. QED  BY <1>2, <1>3 DEF WriteFails

LEMMA FileStep ==
    ASSUME TypeOK, MemoryInv, ChainInv, FileInv, [Next]_vars
    PROVE  FileInv'
<1>. USE DEF memory, disk
<1>1. ASSUME NEW e \in Edits, Begin(e) PROVE FileInv'
  BY <1>1, FileKept DEF Begin
<1>2. ASSUME NEW e \in Edits, SubmitEdit(e) PROVE FileInv'
  BY <1>2, FileKept DEF SubmitEdit
<1>3. CASE RequestSnapshot
  BY <1>3, FileKept DEF RequestSnapshot
<1>4. CASE RequestStop
  BY <1>4, FileKept DEF RequestStop
<1>5. CASE RejectEdit
  BY <1>5, FileKept DEF RejectEdit
<1>6. CASE CommitEdit
  <2>1. Head(queue).edit \in Edits /\ history \in Seq(Edits) /\ Len(history) \in Nat
    BY <1>6, QueueFacts DEF CommitEdit, TypeOK
  <2>2. /\ Len(history') = Len(history) + 1
        /\ \A i \in 1..Len(history) : history'[i] = history[i]
    BY <1>6, <2>1, AppendElements DEF CommitEdit, Commit
  <2>3. file' = file /\ phase' # "Stopped"
    BY <1>6 DEF CommitEdit, MemoryInv
  <2>4. PICK n \in 0..Len(history) : Whole(n) \/ WithTorn(n)
    BY DEF FileInv
  <2>5. n \in 0..Len(history') /\ (Whole(n)' \/ WithTorn(n)')
    BY <2>1, <2>2, <2>3, <2>4 DEF Whole, WithTorn
  <2>. QED  BY <2>3, <2>5 DEF FileInv
<1>7. CASE PublishEdit
  BY <1>7, FileKept DEF PublishEdit
<1>8. CASE TakeSnapshot
  BY <1>8, FileKept DEF TakeSnapshot
<1>9. CASE LeaveLoop
  BY <1>9, FileKept DEF LeaveLoop
<1>10. CASE RunReturns
  BY <1>10, FileKept DEF RunReturns
<1>11. CASE TakeJob
  BY <1>11, FileKept DEF TakeJob
<1>12. CASE Write
  <2>1. Whole(Finished + 1)' \/ WithTorn(Finished)'
    BY <1>12, ChainWrite
  <2>2. Finished + 1 \in 1..Len(history) /\ Finished \in Int
    BY <1>12, ChainWrite, ChainNumbers
  <2>3. history' = history /\ phase' # "Stopped" /\ Finished' = Finished /\ Len(history) \in Nat
    BY <1>12, WriterSound DEF Write, Sound, Finished, InFlight, TypeOK
  <2>4. Finished + 1 \in 0..Len(history') /\ Finished \in 0..Len(history')
    BY <2>2, <2>3
  <2>5. \E n \in 0..Len(history') : Whole(n)' \/ WithTorn(n)'
    BY <2>1, <2>3, <2>4 DEF Whole, WithTorn
  <2>. QED  BY <2>3, <2>5 DEF FileInv
<1>13. CASE Sync
  BY <1>13, FileKept DEF Sync
<1>14. CASE WriteFails
  BY <1>14, FileWriteFails
<1>15. CASE Open
  <2>1. CASE cut'
    BY <1>15, <2>1, FileKept DEF Open
  <2>2. CASE ~cut'
    <3>1. file' = Recovered /\ history' = Recovered /\ phase' # "Stopped"
      BY <1>15, <2>2 DEF Open
    <3>2. Len(Recovered) \in Nat
      BY RecoveredFacts
    <3>3. Len(history') \in 0..Len(history') /\ Whole(Len(history))'
      BY <3>1, <3>2 DEF Whole
    <3>4. \E n \in 0..Len(history') : Whole(n)'
      BY <3>3 DEF Whole
    <3>. QED  BY <3>1, <3>4 DEF FileInv
  <2>. QED  BY <2>1, <2>2
<1>16. CASE Close
  <2>1. UNCHANGED <<history, file, cut>> /\ Len(history) \in Nat
    BY <1>16 DEF Close, Forgotten, TypeOK
  <2>2. ~cut => Whole(Len(history))
    BY <1>16, ChainNumbers DEF Close, ChainInv, MemoryInv, Sound, InFlight, Finished
  <2>3. \E n \in 0..Len(history') : Whole(n)' \/ WithTorn(n)'
    BY <2>1 DEF FileInv, Whole, WithTorn
  <2>4. ~cut' => Whole(Len(history))'
    BY <2>1, <2>2 DEF Whole
  <2>. QED  BY <2>3, <2>4 DEF FileInv
<1>17. CASE Crash
  BY <1>17, FileCrash
<1>18. CASE UNCHANGED vars
  BY <1>18, FileKept DEF vars
<1>. QED
  BY <1>1, <1>2, <1>3, <1>4, <1>5, <1>6, <1>7, <1>8, <1>9, <1>10, <1>11, <1>12, <1>13,
     <1>14, <1>15, <1>16, <1>17, <1>18 DEF Next, RuntimeStep, WriterStep

-----------------------------------------------------------------------------
(* The queue and the answers.                                              *)

\* Steps that leave queued edits and their answers alone.
LEMMA QueueKept ==
    ASSUME QueueInv, pc' = pc \/ (pc # "Publish" /\ pc' # "Publish"),
           UNCHANGED <<queue, fate, history>>
    PROVE  QueueInv'
BY DEF QueueInv

\* Steps that take the first operation from the queue and answer it.
LEMMA QueueTaken ==
    ASSUME TypeOK, QueueInv, queue # <<>>, queue' = Tail(queue), pc' # "Publish",
           UNCHANGED history,
           \/ queue[1].edit = Snapshot /\ fate' = fate
           \/ /\ queue[1].edit # Snapshot
              /\ \E answer \in {"Rejected", "Committed", "Lost"} :
                    /\ answer = "Rejected" => pc # "Publish"
                    /\ fate' = [fate EXCEPT ![queue[1].edit] = answer]
    PROVE  QueueInv'
<1>0. /\ Len(queue) \in Nat /\ Len(queue) >= 1 /\ Len(queue') = Len(queue) - 1
      /\ \A i \in 1..Len(queue) - 1 : queue'[i] = queue[i + 1]
      /\ queue[1].edit \in Edits \cup {Snapshot}
      /\ Snapshot \notin Edits
  BY QueueFacts, JournalAssumption
<1>1. fate \in [Edits -> Fates] /\ history \in Seq(Edits)
  BY DEF TypeOK
<1>2. ASSUME NEW e \in Edits, e # queue[1].edit PROVE fate'[e] = fate[e]
  BY <1>0, <1>1, <1>2
<1>3. ASSUME NEW i \in 1..Len(queue'), queue'[i].edit # Snapshot
      PROVE  fate'[queue'[i].edit] = "Queued"
  <2>1. i + 1 \in 1..Len(queue) /\ 1 \in 1..Len(queue) /\ i + 1 # 1 /\ queue'[i] = queue[i + 1]
    BY <1>0
  <2>2. fate[queue[i + 1].edit] = "Queued" /\ queue[i + 1].edit # queue[1].edit
    BY <1>3, <2>1 DEF QueueInv
  <2>3. queue[i + 1].edit \in Edits
    <3>1. queue[i + 1] \in Operation
      BY <2>1, QueueFacts
    <3>. QED  BY <1>3, <2>1, <3>1 DEF Operation
  <2>. QED  BY <1>2, <2>1, <2>2, <2>3
<1>4. ASSUME NEW i \in 1..Len(queue'), NEW j \in 1..Len(queue'),
             i # j, queue'[i].edit # Snapshot
      PROVE  queue'[i].edit # queue'[j].edit
  <2>1. /\ i + 1 \in 1..Len(queue) /\ j + 1 \in 1..Len(queue) /\ i + 1 # j + 1
        /\ queue'[i] = queue[i + 1] /\ queue'[j] = queue[j + 1]
    BY <1>0, <1>4
  <2>. QED  BY <1>4, <2>1 DEF QueueInv
<1>5. ASSUME NEW n \in 1..Len(history)
      PROVE  fate'[history[n]] \notin {"New", "Begun", "Rejected", "Queued"}
  <2>1. history[n] \in Edits
    BY <1>1
  <2>2. /\ fate[history[n]] \notin {"New", "Begun", "Rejected"}
        /\ fate[history[n]] = "Queued" => pc = "Publish" /\ history[n] = queue[1].edit
    BY DEF QueueInv
  <2>3. CASE history[n] # queue[1].edit
    BY <1>2, <2>1, <2>2, <2>3
  <2>4. CASE history[n] = queue[1].edit
    <3>1. queue[1].edit # Snapshot /\ fate[queue[1].edit] = "Queued"
      BY <1>0, <2>1, <2>4 DEF QueueInv
    <3>2. pc = "Publish"
      BY <2>2, <2>4, <3>1
    <3>3. fate'[history[n]] \in {"Committed", "Lost"}
      BY <1>1, <2>1, <2>4, <3>1, <3>2
    <3>. QED  BY <3>3
  <2>. QED  BY <2>3, <2>4
<1>. QED  BY <1>3, <1>4, <1>5 DEF QueueInv

LEMMA QueueSubmit ==
    ASSUME TypeOK, QueueInv, NEW e \in Edits, SubmitEdit(e)
    PROVE  QueueInv'
<1> DEFINE op == [edit |-> e, rebase |-> MayRebase(e)]
<1>0. /\ queue \in Seq(Operation) /\ Len(queue) \in Nat /\ op \in Operation
      /\ fate \in [Edits -> Fates] /\ history \in Seq(Edits)
      /\ fate' = [fate EXCEPT ![e] = "Queued"] /\ fate[e] = "Begun"
      /\ pc' = pc /\ history' = history
      /\ Snapshot \notin Edits
  BY QueueFacts, JournalAssumption DEF TypeOK, Operation, SubmitEdit, MayRebase
<1>1. PICK at \in 1..Len(queue) + 1 : Insertion(at) /\ queue' = InsertAt(queue, at, op)
  BY DEF SubmitEdit
<1>2. /\ Len(queue') = Len(queue) + 1
      /\ \A i \in 1..at - 1 : queue'[i] = queue[i]
      /\ queue'[at] = op
      /\ \A i \in at + 1..Len(queue) + 1 : queue'[i] = queue[i - 1]
  <2>1. queue \in Seq(Operation) /\ op \in Operation /\ queue' = InsertAt(queue, at, op)
    BY <1>0, <1>1
  <2>. HIDE DEF op
  <2>. QED  BY <2>1, InsertAtElements
<1>3. ASSUME NEW i \in 1..Len(queue), queue[i].edit # Snapshot
      PROVE  fate[queue[i].edit] = "Queued" /\ queue[i].edit # e /\ queue[i].edit \in Edits
  <2>1. fate[queue[i].edit] = "Queued"
    BY <1>3 DEF QueueInv
  <2>2. queue[i].edit \in Edits \cup {Snapshot}
    <3>1. queue[i] \in Operation
      BY <1>0
    <3>. QED  BY <3>1 DEF Operation
  <2>. QED  BY <1>0, <1>3, <2>1, <2>2
\* Where each operation of the new queue comes from.
<1> DEFINE from(i) == IF i < at THEN i ELSE i - 1
<1>4. ASSUME NEW i \in 1..Len(queue'), i # at
      PROVE  from(i) \in 1..Len(queue) /\ queue'[i] = queue[from(i)]
  BY <1>0, <1>1, <1>2, <1>4
<1>5. ASSUME NEW i \in 1..Len(queue'), queue'[i].edit # Snapshot
      PROVE  fate'[queue'[i].edit] = "Queued"
  <2>1. CASE i = at
    BY <1>0, <1>2, <2>1
  <2>2. CASE i # at
    <3>1. from(i) \in 1..Len(queue) /\ queue'[i] = queue[from(i)]
      BY <1>4, <2>2
    <3>. HIDE DEF from
    <3>. QED  BY <1>0, <1>3, <1>5, <3>1
  <2>. QED  BY <2>1, <2>2
<1>6. ASSUME NEW i \in 1..Len(queue'), NEW j \in 1..Len(queue'),
             i # j, queue'[i].edit # Snapshot
      PROVE  queue'[i].edit # queue'[j].edit
  <2>1. CASE i = at
    <3>1. queue'[i].edit = e /\ from(j) \in 1..Len(queue) /\ queue'[j] = queue[from(j)]
      BY <1>2, <1>4, <1>6, <2>1
    <3>. HIDE DEF from
    <3>. QED  BY <1>0, <1>3, <3>1
  <2>2. CASE j = at
    <3>1. queue'[j].edit = e /\ from(i) \in 1..Len(queue) /\ queue'[i] = queue[from(i)]
      BY <1>2, <1>4, <1>6, <2>2
    <3>. HIDE DEF from
    <3>. QED  BY <1>3, <1>6, <3>1
  <2>3. CASE i # at /\ j # at
    <3>1. /\ from(i) \in 1..Len(queue) /\ queue'[i] = queue[from(i)]
          /\ from(j) \in 1..Len(queue) /\ queue'[j] = queue[from(j)]
      BY <1>4, <2>3
    <3>2. from(i) # from(j)
      BY <1>1, <1>6, <2>3
    <3>. HIDE DEF from
    <3>. QED  BY <1>6, <3>1, <3>2 DEF QueueInv
  <2>. QED  BY <2>1, <2>2, <2>3
<1>7. ASSUME pc = "Publish"
      PROVE  queue # <<>> /\ queue' # <<>> /\ queue'[1] = queue[1] /\ queue[1].edit # Snapshot
  <2>1. queue # <<>> /\ queue[1].edit # Snapshot
    BY <1>7 DEF QueueInv
  <2>2. Len(queue) >= 1
    BY <2>1, QueueFacts
  <2>3. at # 1
    BY <1>1, <2>1, <2>2 DEF Insertion
  <2>4. queue'[1] = queue[1]
    BY <1>1, <1>2, <2>3
  <2>5. queue' # <<>>
    BY <1>0, <1>2
  <2>. QED  BY <2>1, <2>4, <2>5
<1>8. ASSUME NEW n \in 1..Len(history)
      PROVE  /\ fate'[history[n]] \notin {"New", "Begun", "Rejected"}
             /\ fate'[history[n]] = "Queued" => pc = "Publish" /\ history[n] = queue'[1].edit
  <2>1. history[n] \in Edits
    BY <1>0
  <2>2. /\ fate[history[n]] \notin {"New", "Begun", "Rejected"}
        /\ fate[history[n]] = "Queued" => pc = "Publish" /\ history[n] = queue[1].edit
    BY DEF QueueInv
  <2>3. fate'[history[n]] = fate[history[n]]
    BY <1>0, <2>1, <2>2
  <2>. QED  BY <1>7, <2>2, <2>3
<1>. QED  BY <1>0, <1>5, <1>6, <1>7, <1>8 DEF QueueInv

LEMMA QueueCommit ==
    ASSUME TypeOK, QueueInv, CommitEdit
    PROVE  QueueInv'
<1>0. /\ queue # <<>> /\ Head(queue) = queue[1] /\ Len(queue) >= 1 /\ Len(queue) \in Nat
      /\ queue[1].edit # Snapshot /\ queue[1].edit \in Edits
      /\ pc = "Loop" /\ pc' = "Publish" /\ UNCHANGED <<queue, fate>>
  BY QueueFacts DEF CommitEdit
<1>1. /\ Len(history) \in Nat /\ Len(history') = Len(history) + 1
      /\ history'[Len(history) + 1] = queue[1].edit
      /\ \A i \in 1..Len(history) : history'[i] = history[i]
  BY <1>0, AppendElements DEF CommitEdit, Commit, TypeOK
<1>2. fate[queue[1].edit] = "Queued"
  BY <1>0 DEF QueueInv
<1>3. ASSUME NEW n \in 1..Len(history')
      PROVE  /\ fate[history'[n]] \notin {"New", "Begun", "Rejected"}
             /\ fate[history'[n]] = "Queued" => history'[n] = queue[1].edit
  <2>1. CASE n = Len(history) + 1
    BY <1>1, <1>2, <2>1
  <2>2. CASE n \in 1..Len(history)
    BY <1>0, <1>1, <2>2 DEF QueueInv
  <2>. QED  BY <1>1, <2>1, <2>2
<1>. QED  BY <1>0, <1>3 DEF QueueInv

\* What remains once the service or the process is gone.
LEMMA QueueForgotten ==
    ASSUME TypeOK, QueueInv, Forgotten,
           \A e \in Edits : fate'[e] \in {fate[e], "Lost"},
           \A e \in Edits : fate[e] = "Queued" => fate'[e] = "Lost"
    PROVE  QueueInv'
<1>1. queue' = <<>> /\ pc' = "None" /\ history' = history /\ Len(queue') = 0
  BY DEF Forgotten
<1>2. ASSUME NEW n \in 1..Len(history)
      PROVE  fate'[history[n]] \notin {"New", "Begun", "Rejected", "Queued"}
  <2>1. history[n] \in Edits
    BY DEF TypeOK
  <2>2. fate[history[n]] \notin {"New", "Begun", "Rejected"}
    BY DEF QueueInv
  <2>. QED  BY <2>1, <2>2
<1>. QED  BY <1>1, <1>2 DEF QueueInv

LEMMA QueueStep ==
    ASSUME TypeOK, MemoryInv, FileInv, QueueInv, [Next]_vars
    PROVE  QueueInv'
<1>. USE DEF memory, disk
<1>0. /\ queue \in Seq(Operation) /\ Len(queue) \in Nat
      /\ fate \in [Edits -> Fates] /\ history \in Seq(Edits) /\ Snapshot \notin Edits
      /\ queue # <<>> => Head(queue) = queue[1] /\ queue[1].edit \in Edits \cup {Snapshot}
  BY QueueFacts, JournalAssumption DEF TypeOK
<1>1. ASSUME NEW e \in Edits, Begin(e) PROVE QueueInv'
  <2>1. /\ fate' = [fate EXCEPT ![e] = "Begun"] /\ fate[e] = "New"
        /\ UNCHANGED <<queue, history, pc>>
    BY <1>1 DEF Begin
  <2>2. \A d : fate[d] # "New" /\ d \in Edits => fate'[d] = fate[d]
    BY <1>0, <2>1
  <2>3. ASSUME NEW i \in 1..Len(queue), queue[i].edit # Snapshot
        PROVE  fate'[queue[i].edit] = "Queued"
    <3>1. fate[queue[i].edit] = "Queued"
      BY <2>3 DEF QueueInv
    <3>2. queue[i] \in Operation
      BY <1>0
    <3>. QED  BY <2>2, <2>3, <3>1, <3>2 DEF Operation
  <2>4. \A n \in 1..Len(history) : fate'[history[n]] = fate[history[n]]
    BY <1>0, <2>2 DEF QueueInv
  <2>. QED  BY <2>1, <2>3, <2>4 DEF QueueInv
<1>2. ASSUME NEW e \in Edits, SubmitEdit(e) PROVE QueueInv'
  BY <1>2, QueueSubmit
<1>3. CASE RequestSnapshot
  <2> DEFINE op == [edit |-> Snapshot, rebase |-> FALSE]
  <2>1. /\ Len(queue') = Len(queue) + 1 /\ queue'[Len(queue) + 1] = op
        /\ \A i \in 1..Len(queue) : queue'[i] = queue[i]
    <3>1. op \in Operation
      BY DEF Operation
    <3>. QED  BY <1>0, <1>3, <3>1, AppendElements DEF RequestSnapshot
  <2>2. UNCHANGED <<fate, history, pc>> /\ op.edit = Snapshot
    BY <1>3 DEF RequestSnapshot
  <2>. HIDE DEF op
  <2>3. \A i \in 1..Len(queue') : i \in 1..Len(queue) \/ (i = Len(queue) + 1 /\ queue'[i].edit = Snapshot)
    BY <1>0, <2>1, <2>2
  <2>4. ASSUME NEW i \in 1..Len(queue'), NEW j \in 1..Len(queue'), i # j, queue'[i].edit # Snapshot
        PROVE  queue'[i].edit # queue'[j].edit
    BY <2>1, <2>3, <2>4 DEF QueueInv
  <2>5. pc = "Publish" => queue' # <<>> /\ queue'[1] = queue[1] /\ queue # <<>>
    BY <1>0, <2>1, QueueFacts DEF QueueInv
  <2>6. \A i \in 1..Len(queue') : queue'[i].edit # Snapshot => fate[queue'[i].edit] = "Queued"
    BY <2>1, <2>3 DEF QueueInv
  <2>7. ASSUME NEW n \in 1..Len(history)
        PROVE  /\ fate[history[n]] \notin {"New", "Begun", "Rejected"}
               /\ fate[history[n]] = "Queued" => pc = "Publish" /\ history[n] = queue'[1].edit
    BY <2>5 DEF QueueInv
  <2>. QED  BY <2>2, <2>4, <2>5, <2>6, <2>7 DEF QueueInv
<1>4. CASE RequestStop
  BY <1>4, QueueKept DEF RequestStop
<1>5. CASE RejectEdit
  <2>1. PICK answer \in {"Rejected", "Lost"} : fate' = [fate EXCEPT ![queue[1].edit] = answer]
    BY <1>0, <1>5 DEF RejectEdit, Answer
  <2>2. /\ queue # <<>> /\ queue[1].edit # Snapshot /\ queue' = Tail(queue)
        /\ pc # "Publish" /\ pc' # "Publish" /\ history' = history
    BY <1>0, <1>5 DEF RejectEdit
  <2>. QED  BY <2>1, <2>2, QueueTaken
<1>6. CASE CommitEdit
  BY <1>6, QueueCommit
<1>7. CASE PublishEdit
  <2>1. queue # <<>> /\ queue[1].edit # Snapshot
    BY <1>7 DEF PublishEdit, QueueInv
  <2>2. PICK answer \in {"Committed", "Lost"} : fate' = [fate EXCEPT ![queue[1].edit] = answer]
    BY <1>0, <1>7, <2>1 DEF PublishEdit, Answer
  <2>3. pc' # "Publish" /\ queue' = Tail(queue) /\ history' = history
    BY <1>7 DEF PublishEdit
  <2>. QED  BY <2>1, <2>2, <2>3, QueueTaken
<1>8. CASE TakeSnapshot
  <2>1. /\ queue # <<>> /\ queue[1].edit = Snapshot /\ queue' = Tail(queue)
        /\ pc' # "Publish" /\ history' = history /\ fate' = fate
    BY <1>0, <1>8 DEF TakeSnapshot
  <2>. QED  BY <2>1, QueueTaken
<1>9. CASE LeaveLoop
  BY <1>9, QueueKept DEF LeaveLoop
<1>10. CASE RunReturns
  BY <1>10, QueueKept DEF RunReturns
<1>11. CASE TakeJob
  BY <1>11, QueueKept DEF TakeJob
<1>12. CASE Write
  BY <1>12, QueueKept DEF Write
<1>13. CASE Sync
  BY <1>13, QueueKept DEF Sync
<1>14. CASE WriteFails
  BY <1>14, QueueKept DEF WriteFails
<1>15. CASE Open
  <2>1. queue = <<>> /\ Len(queue) = 0 /\ pc = "None"
    BY <1>15 DEF Open, MemoryInv
  <2>2. queue' = queue /\ fate' = fate /\ pc' \in {"Loop", "Returned"}
        /\ (history' = history \/ history' = Recovered)
    BY <1>15 DEF Open
  <2>3. Len(history) \in Nat /\ Len(Recovered) \in Nat /\ Len(Recovered) <= Len(history)
    BY <1>0, RecoveredFacts
  <2>4. \A n \in 1..Len(history') : n \in 1..Len(history) /\ history'[n] = history[n]
    BY <2>2, <2>3, RecoveredFacts
  <2>. QED  BY <2>1, <2>2, <2>4 DEF QueueInv
<1>16. CASE Close
  BY <1>16, QueueForgotten DEF Close
<1>17. CASE Crash
  BY <1>17, QueueForgotten DEF Crash
<1>18. CASE UNCHANGED vars
  BY <1>18, QueueKept DEF vars
<1>. QED
  BY <1>1, <1>2, <1>3, <1>4, <1>5, <1>6, <1>7, <1>8, <1>9, <1>10, <1>11, <1>12, <1>13,
     <1>14, <1>15, <1>16, <1>17, <1>18 DEF Next, RuntimeStep, WriterStep

-----------------------------------------------------------------------------
(* Late edits.                                                             *)

\* Steps that leave the queue, the revision and the history alone, and set no
\* answer back.
LEMMA LateKept ==
    ASSUME LateInv, UNCHANGED <<queue, revision, history, base, late>>,
           \A e \in late : fate'[e] \in {"New", "Begun"} => fate[e] \in {"New", "Begun"}
    PROVE  LateInv'
BY DEF LateInv

\* Steps that take the first operation from the queue and answer it.
LEMMA LateTaken ==
    ASSUME TypeOK, LateInv, queue # <<>>, queue' = Tail(queue),
           UNCHANGED <<revision, history, base, late>>,
           \A e \in Edits : fate'[e] \in {fate[e], "Rejected", "Committed", "Lost"}
    PROVE  LateInv'
<1>1. /\ Len(queue) \in Nat /\ Len(queue') = Len(queue) - 1
      /\ \A i \in 1..Len(queue) - 1 : queue'[i] = queue[i + 1]
  BY QueueFacts
<1>2. \A i \in 1..Len(queue') : i + 1 \in 1..Len(queue) /\ queue'[i] = queue[i + 1]
  BY <1>1
<1>3. \A i \in 1..Len(queue') :
          queue'[i].edit \in late => ~queue'[i].rebase /\ base[queue'[i].edit] < revision
  BY <1>2 DEF LateInv
<1>4. \A e \in late : fate'[e] \notin {"New", "Begun"}
  BY DEF LateInv, TypeOK
<1>. QED  BY <1>3, <1>4 DEF LateInv

LEMMA LateBegin ==
    ASSUME TypeOK, LateInv, NEW e \in Edits, Begin(e)
    PROVE  LateInv'
<1>1. /\ e \notin late /\ late \subseteq Edits
      /\ fate \in [Edits -> Fates] /\ base \in [Edits -> Nat]
      /\ fate' = [fate EXCEPT ![e] = "Begun"] /\ base' = [base EXCEPT ![e] = revision]
      /\ UNCHANGED <<queue, revision, history, late>>
  BY DEF Begin, LateInv, TypeOK, memory
<1>2. \A d \in late : fate'[d] = fate[d] /\ base'[d] = base[d]
  BY <1>1
<1>. QED  BY <1>1, <1>2 DEF LateInv

LEMMA LateSubmit ==
    ASSUME TypeOK, QueueInv, LateInv, NEW e \in Edits, SubmitEdit(e)
    PROVE  LateInv'
<1> DEFINE op == [edit |-> e, rebase |-> MayRebase(e)]
<1>0. /\ queue \in Seq(Operation) /\ Len(queue) \in Nat /\ op \in Operation
      /\ fate \in [Edits -> Fates] /\ history \in Seq(Edits)
      /\ base \in [Edits -> Nat] /\ revision \in Nat
      /\ fate' = [fate EXCEPT ![e] = "Queued"] /\ fate[e] = "Begun"
      /\ UNCHANGED <<revision, history, base>>
      /\ late' = IF base[e] < revision THEN late \cup {e} ELSE late
      /\ e \notin late /\ late \subseteq Edits
  BY QueueFacts DEF TypeOK, Operation, SubmitEdit, MayRebase, LateInv
<1>1. PICK at \in 1..Len(queue) + 1 : queue' = InsertAt(queue, at, op)
  BY DEF SubmitEdit
<1>2. /\ Len(queue') = Len(queue) + 1
      /\ \A i \in 1..at - 1 : queue'[i] = queue[i]
      /\ queue'[at] = op
      /\ \A i \in at + 1..Len(queue) + 1 : queue'[i] = queue[i - 1]
  <2>1. queue \in Seq(Operation) /\ op \in Operation /\ queue' = InsertAt(queue, at, op)
    BY <1>0, <1>1
  <2>. HIDE DEF op
  <2>. QED  BY <2>1, InsertAtElements
<1>3. ASSUME NEW i \in 1..Len(queue'), queue'[i].edit \in late'
      PROVE  ~queue'[i].rebase /\ base[queue'[i].edit] < revision
  <2>1. CASE i = at
    <3>1. queue'[i].edit = e /\ queue'[i].rebase = (base[e] = revision)
      BY <1>2, <2>1 DEF MayRebase
    <3>2. base[e] < revision /\ base[e] \in Nat
      BY <1>0, <1>3, <3>1
    <3>3. base[e] # revision
      BY <1>0, <3>2
    <3>4. queue'[i].rebase = FALSE
      BY <3>1, <3>3
    <3>. QED  BY <3>1, <3>2, <3>4
  <2>2. CASE i # at
    <3>1. PICK k \in 1..Len(queue) : queue'[i] = queue[k]
      <4>1. CASE i < at
        <5>1. i \in 1..Len(queue) /\ queue'[i] = queue[i]
          BY <1>0, <1>1, <1>2, <4>1
        <5>. QED  BY <5>1
      <4>2. CASE i > at
        <5>1. i - 1 \in 1..Len(queue) /\ queue'[i] = queue[i - 1]
          BY <1>0, <1>1, <1>2, <4>2
        <5>. QED  BY <5>1
      <4>. QED  BY <2>2, <4>1, <4>2
    <3>2. queue[k] \in Operation
      BY <1>0
    <3>3. queue[k].edit # e
      <4>1. ASSUME queue[k].edit = e PROVE FALSE
        <5>1. queue[k].edit # Snapshot
          BY <4>1, JournalAssumption
        <5>2. fate[e] = "Queued"
          BY <4>1, <5>1 DEF QueueInv
        <5>. QED  BY <1>0, <5>2
      <4>. QED  BY <4>1
    <3>4. queue[k].edit \in late
      BY <1>0, <1>3, <3>1, <3>3
    <3>. QED  BY <3>1, <3>4 DEF LateInv
  <2>. QED  BY <2>1, <2>2
<1>4. \A d \in late' : fate'[d] \notin {"New", "Begun"}
  BY <1>0 DEF LateInv
<1>5. ASSUME NEW n \in 1..Len(history) PROVE history[n] \notin late'
  <2>1. history[n] # e
    <3>1. fate[history[n]] # "Begun"
      BY DEF QueueInv
    <3>. QED  BY <1>0, <3>1
  <2>2. history[n] \notin late
    BY DEF LateInv
  <2>. QED  BY <1>0, <2>1, <2>2
<1>. QED  BY <1>0, <1>3, <1>4, <1>5 DEF LateInv

LEMMA LateCommit ==
    ASSUME TypeOK, LateInv, CommitEdit
    PROVE  LateInv'
<1>0. /\ queue # <<>> /\ Head(queue) = queue[1] /\ Len(queue) >= 1 /\ Len(queue) \in Nat
      /\ queue[1].edit \in Edits
      /\ queue[1].rebase \/ base[queue[1].edit] = revision
      /\ UNCHANGED <<queue, fate, base, late>> /\ revision' = revision + 1
      /\ base \in [Edits -> Nat] /\ revision \in Nat
      /\ late \subseteq Edits
  BY QueueFacts DEF CommitEdit, TypeOK
<1>1. queue[1].edit \notin late
  BY <1>0 DEF LateInv
<1>2. /\ Len(history) \in Nat /\ Len(history') = Len(history) + 1
      /\ history'[Len(history) + 1] = queue[1].edit
      /\ \A i \in 1..Len(history) : history'[i] = history[i]
  BY <1>0, AppendElements DEF CommitEdit, Commit, TypeOK
<1>3. \A n \in 1..Len(history') : n \in 1..Len(history) \/ n = Len(history) + 1
  BY <1>2
<1>4. \A n \in 1..Len(history') : history'[n] \notin late
  BY <1>1, <1>2, <1>3 DEF LateInv
<1>5. \A i \in 1..Len(queue) : queue[i].edit \in late =>
          ~queue[i].rebase /\ base[queue[i].edit] < revision'
  <2>1. ASSUME NEW d \in late, base[d] < revision PROVE base[d] < revision'
    BY <1>0, <2>1
  <2>. QED  BY <2>1 DEF LateInv
<1>. QED  BY <1>0, <1>4, <1>5 DEF LateInv

\* What remains once the service or the process is gone.
LEMMA LateForgotten ==
    ASSUME TypeOK, LateInv, Forgotten, \A e \in Edits : fate'[e] \in {fate[e], "Lost"}
    PROVE  LateInv'
BY DEF Forgotten, LateInv, TypeOK

LEMMA LateStep ==
    ASSUME TypeOK, MemoryInv, FileInv, QueueInv, LateInv, [Next]_vars
    PROVE  LateInv'
<1>. USE DEF memory, disk
<1>0. /\ queue # <<>> => Head(queue) = queue[1] /\ queue[1].edit \in Edits \cup {Snapshot}
      /\ fate \in [Edits -> Fates] /\ Len(queue) \in Nat
  BY QueueFacts DEF TypeOK
<1>1. ASSUME NEW e \in Edits, Begin(e) PROVE LateInv'
  BY <1>1, LateBegin
<1>2. ASSUME NEW e \in Edits, SubmitEdit(e) PROVE LateInv'
  BY <1>2, LateSubmit
<1>3. CASE RequestSnapshot
  <2> DEFINE op == [edit |-> Snapshot, rebase |-> FALSE]
  <2>1. queue \in Seq(Operation) /\ op \in Operation /\ queue' = Append(queue, op)
    BY <1>3, QueueFacts DEF RequestSnapshot, Operation
  <2>2. op.edit \notin late
    BY JournalAssumption DEF TypeOK
  <2>. HIDE DEF op
  <2>3. /\ Len(queue') = Len(queue) + 1 /\ queue'[Len(queue) + 1] = op
        /\ \A i \in 1..Len(queue) : queue'[i] = queue[i]
    BY <2>1, AppendElements
  <2>4. \A i \in 1..Len(queue') : i \in 1..Len(queue) \/ i = Len(queue) + 1
    BY <1>0, <2>3
  <2>5. UNCHANGED <<revision, history, base, late, fate>>
    BY <1>3 DEF RequestSnapshot
  <2>6. \A i \in 1..Len(queue') : queue'[i].edit \in late =>
            ~queue'[i].rebase /\ base[queue'[i].edit] < revision
    BY <2>2, <2>3, <2>4 DEF LateInv
  <2>. QED  BY <2>5, <2>6 DEF LateInv
<1>4. CASE RequestStop
  BY <1>4, LateKept DEF RequestStop
<1>5. CASE RejectEdit
  <2>1. \A e \in Edits : fate'[e] \in {fate[e], "Rejected", "Committed", "Lost"}
    BY <1>0, <1>5 DEF RejectEdit, Answer
  <2>. QED  BY <1>5, <2>1, LateTaken DEF RejectEdit
<1>6. CASE CommitEdit
  BY <1>6, LateCommit
<1>7. CASE PublishEdit
  <2>1. \A e \in Edits : fate'[e] \in {fate[e], "Rejected", "Committed", "Lost"}
    BY <1>0, <1>7 DEF PublishEdit, Answer
  <2>2. queue # <<>>
    BY <1>7 DEF PublishEdit, QueueInv
  <2>. QED  BY <1>7, <2>1, <2>2, LateTaken DEF PublishEdit
<1>8. CASE TakeSnapshot
  BY <1>0, <1>8, LateTaken DEF TakeSnapshot
<1>9. CASE LeaveLoop
  BY <1>9, LateKept DEF LeaveLoop
<1>10. CASE RunReturns
  BY <1>10, LateKept DEF RunReturns
<1>11. CASE TakeJob
  BY <1>11, LateKept DEF TakeJob
<1>12. CASE Write
  BY <1>12, LateKept DEF Write
<1>13. CASE Sync
  BY <1>13, LateKept DEF Sync
<1>14. CASE WriteFails
  BY <1>14, LateKept DEF WriteFails
<1>15. CASE Open
  <2>1. queue' = <<>> /\ Len(queue') = 0
    BY <1>15 DEF Open, MemoryInv
  <2>2. Len(history) \in Nat /\ Len(Recovered) \in Nat
    BY RecoveredFacts DEF TypeOK
  <2>3. UNCHANGED <<fate, base, late>> /\ (history' = history \/ history' = Recovered)
    BY <1>15 DEF Open
  <2>4. \A n \in 1..Len(history') : n \in 1..Len(history) /\ history'[n] = history[n]
    BY <2>2, <2>3, RecoveredFacts
  <2>. QED  BY <2>1, <2>3, <2>4 DEF LateInv
<1>16. CASE Close
  BY <1>16, LateForgotten DEF Close
<1>17. CASE Crash
  BY <1>17, LateForgotten DEF Crash
<1>18. CASE UNCHANGED vars
  BY <1>18, LateKept DEF vars
<1>. QED
  BY <1>1, <1>2, <1>3, <1>4, <1>5, <1>6, <1>7, <1>8, <1>9, <1>10, <1>11, <1>12, <1>13,
     <1>14, <1>15, <1>16, <1>17, <1>18 DEF Next, RuntimeStep, WriterStep

-----------------------------------------------------------------------------
(* The invariant and what follows from it.                                 *)

LEMMA InitIInv == Init => IInv
<1>. SUFFICES ASSUME Init PROVE IInv
  OBVIOUS
<1>1. Len(queue) = 0 /\ Len(jobs) = 0 /\ Len(history) = 0 /\ Len(file) = 0 /\ Len(journal) = 0
  BY DEF Init
<1>2. TypeOK
  <2>1. /\ queue \in Seq([edit : Edits \cup {Snapshot}, rebase : BOOLEAN])
        /\ journal \in Seq(Edits) /\ jobs \in Seq(Job)
        /\ file \in Seq(Edits \cup {Torn}) /\ history \in Seq(Edits)
    BY DEF Init
  <2>2. base \in [Edits -> Nat] /\ fate \in [Edits -> Fates]
    BY DEF Init, Fates
  <2>3. Len(queue) <= QueueCapacity /\ Len(journal) <= JournalCapacity
        /\ revision = Len(journal) /\ synced \in 0..Len(file)
    BY <1>1, JournalAssumption DEF Init
  <2>. QED  BY <2>1, <2>2, <2>3 DEF Init, TypeOK
<1>3. MemoryInv /\ ChainInv
  BY <1>1, JournalAssumption DEF Init, MemoryInv, ChainInv, Sound
<1>4. Whole(0)
  BY <1>1 DEF Whole
<1>5. FileInv
  BY <1>1, <1>4 DEF FileInv
<1>6. QueueInv /\ LateInv
  BY <1>1 DEF Init, QueueInv, LateInv
<1>. QED  BY <1>2, <1>3, <1>5, <1>6 DEF IInv

\* The inductive invariant holds in every reachable state.
THEOREM Inductive == Spec => []IInv
<1>1. IInv /\ [Next]_vars => IInv'
  BY TypeStep, MemoryStep, ChainStep, FileStep, QueueStep, LateStep DEF IInv
<1>. QED  BY InitIInv, <1>1, PTL DEF Spec

\* The journal, the queue, the file and the histories keep their types and
\* their capacities.
THEOREM TypeCorrect == Spec => []TypeOK
<1>1. IInv => TypeOK
  BY DEF IInv
<1>. QED  BY Inductive, <1>1, PTL

\* Whatever fails or dies, the file can be loaded and holds a beginning of the
\* committed edits, in commit order.
THEOREM FileAlwaysFollows == Spec => []FileFollowsCommits
<1>1. ASSUME IInv PROVE FileFollowsCommits
  <2>0. file \in Seq(Edits \cup {Torn}) /\ history \in Seq(Edits) /\ Torn \notin Edits
        /\ Len(file) \in Nat /\ Len(history) \in Nat
    BY <1>1, JournalAssumption DEF IInv, TypeOK
  <2>1. PICK n \in 0..Len(history) : Whole(n) \/ WithTorn(n)
    BY <1>1 DEF IInv, FileInv
  <2>2. /\ SubSeq(history, 1, n) \in Seq(Edits \cup {Torn}) /\ Len(SubSeq(history, 1, n)) = n
        /\ \A i \in 1..n : SubSeq(history, 1, n)[i] = history[i]
    <3>1. history \in Seq(Edits \cup {Torn})
      BY <2>0
    <3>. QED  BY <2>1, <3>1, PrefixElements
  <2>3. \A i \in 1..n : file[i] \in Edits
    BY <2>0, <2>1 DEF Whole, WithTorn
  <2>4. Readable
    BY <2>0, <2>1, <2>3 DEF Readable, Whole, WithTorn
  <2>5. CASE Whole(n)
    <3>1. file = SubSeq(history, 1, n)
      BY <2>0, <2>2, <2>5, EqualElements DEF Whole
    <3>. QED  BY <2>4, <3>1 DEF FileFollowsCommits
  <2>6. CASE WithTorn(n)
    <3> DEFINE t == Append(SubSeq(history, 1, n), Torn)
    <3>1. /\ t \in Seq(Edits \cup {Torn}) /\ Len(t) = n + 1 /\ t[n + 1] = Torn
          /\ \A i \in 1..n : t[i] = SubSeq(history, 1, n)[i]
      BY <2>2, AppendElements
    <3>. HIDE DEF t
    <3>2. \A i \in 1..Len(file) : file[i] = t[i]
      BY <2>1, <2>2, <2>6, <3>1 DEF WithTorn
    <3>3. file = t
      BY <2>0, <2>6, <3>1, <3>2, EqualElements DEF WithTorn
    <3>. QED  BY <2>4, <3>3 DEF FileFollowsCommits, t
  <2>. QED  BY <2>1, <2>5, <2>6
<1>. QED  BY Inductive, <1>1, PTL

\* After an orderly stop the file is the whole history.
THEOREM CleanStopComplete == Spec => []CleanStopKeepsEdits
<1>1. ASSUME IInv PROVE CleanStopKeepsEdits
  <2>1. SUFFICES ASSUME phase = "Stopped", ~cut PROVE file = history
    BY DEF CleanStopKeepsEdits
  <2>2. file \in Seq(Edits \cup {Torn}) /\ history \in Seq(Edits \cup {Torn})
    BY <1>1 DEF IInv, TypeOK
  <2>3. Whole(Len(history))
    BY <1>1, <2>1 DEF IInv, FileInv
  <2>. QED  BY <2>2, <2>3, EqualElements DEF Whole
<1>. QED  BY Inductive, <1>1, PTL

\* A rejected transaction is neither in the file nor in the history.
THEOREM RejectedLeavesNothing == Spec => []RejectedNeverDurable
<1>1. ASSUME IInv PROVE RejectedNeverDurable
  <2>1. SUFFICES ASSUME NEW e \in Edits, e \in ToSet(file) \cup ToSet(history)
                 PROVE  fate[e] # "Rejected"
    BY DEF RejectedNeverDurable
  <2>2. file \in Seq(Edits \cup {Torn}) /\ history \in Seq(Edits) /\ Len(history) \in Nat
        /\ e # Torn
    BY <1>1, JournalAssumption DEF IInv, TypeOK
  <2>3. PICK n \in 0..Len(history) : Whole(n) \/ WithTorn(n)
    BY <1>1 DEF IInv, FileInv
  <2>4. CASE e \in ToSet(file)
    <3>1. PICK i \in 1..Len(file) : file[i] = e
      BY <2>2, <2>4, ToSetElements
    <3>2. i \in 1..Len(history) /\ history[i] = e
      BY <2>2, <2>3, <3>1 DEF Whole, WithTorn
    <3>. QED  BY <1>1, <3>2 DEF IInv, QueueInv
  <2>5. CASE e \in ToSet(history)
    <3>1. PICK i \in 1..Len(history) : history[i] = e
      BY <2>2, <2>5, ToSetElements
    <3>. QED  BY <1>1, <3>1 DEF IInv, QueueInv
  <2>. QED  BY <2>1, <2>4, <2>5
<1>. QED  BY Inductive, <1>1, PTL

\* A transaction that was late when it was queued is never committed.
THEOREM LateNeverCommitted == Spec => []LateEditsRejected
<1>1. ASSUME IInv PROVE LateEditsRejected
  <2>1. history \in Seq(Edits)
    BY <1>1 DEF IInv, TypeOK
  <2>. QED  BY <1>1, <2>1, ToSetElements DEF IInv, LateInv, LateEditsRejected
<1>. QED  BY Inductive, <1>1, PTL

\* Only a snapshot taken from the queue removes one, and it waited for the writer.
THEOREM SnapshotsAreOfTheFile == Spec => SnapshotsOfWrittenEdits
<1> DEFINE Taken == queue # <<>> /\ Head(queue).edit = Snapshot /\ queue' = Tail(queue)
                    /\ phase' # "Stopped" => file = journal \/ failure
<1>1. ASSUME IInv, [Next]_vars PROVE [Taken]_vars
  <2>1. SUFFICES ASSUME queue # <<>>, Head(queue).edit = Snapshot, queue' = Tail(queue),
                        phase' # "Stopped", ~failure
                 PROVE  file = journal
    OBVIOUS
  <2>2. /\ Len(queue) \in Nat /\ Len(queue') = Len(queue) - 1
        /\ queue[1].edit = Snapshot /\ Len(queue) >= 1
    BY <1>1, <2>1, QueueFacts DEF IInv
  <2>3. queue' # queue
    BY <2>2
  <2>4. TakeSnapshot
    <3>1. ASSUME NEW e \in Edits, SubmitEdit(e) PROVE FALSE
      <4>1. PICK at \in 1..Len(queue) + 1 :
                queue' = InsertAt(queue, at, [edit |-> e, rebase |-> MayRebase(e)])
        BY <3>1 DEF SubmitEdit
      <4>2. [edit |-> e, rebase |-> MayRebase(e)] \in Operation
        BY DEF Operation, MayRebase
      <4>3. queue \in Seq(Operation)
        BY <1>1, QueueFacts DEF IInv
      <4>4. Len(queue') = Len(queue) + 1
        BY <4>1, <4>2, <4>3, InsertAtElements
      <4>. QED  BY <2>2, <4>4
    <3>2. ~RequestSnapshot
      <4>1. queue \in Seq(Operation) /\ [edit |-> Snapshot, rebase |-> FALSE] \in Operation
        BY <1>1, QueueFacts DEF IInv, Operation
      <4>2. Len(Append(queue, [edit |-> Snapshot, rebase |-> FALSE])) = Len(queue) + 1
        BY <4>1, AppendElements
      <4>. QED  BY <2>2, <4>2 DEF RequestSnapshot
    <3>3. ~RejectEdit /\ ~CommitEdit
      BY <2>1 DEF RejectEdit, CommitEdit
    <3>4. ~PublishEdit
      BY <1>1, <2>2 DEF IInv, QueueInv, PublishEdit
    <3>5. ~Close /\ ~Crash
      BY <2>1 DEF Close, Crash, Forgotten
    <3>6. \A e \in Edits : ~Begin(e)
      BY <2>3 DEF Begin, memory
    <3>7. ~RequestStop /\ ~LeaveLoop /\ ~RunReturns
      BY <2>3 DEF RequestStop, LeaveLoop, RunReturns, memory
    <3>8. ~WriterStep /\ ~Open /\ ~UNCHANGED vars
      BY <2>3 DEF WriterStep, TakeJob, Write, Sync, WriteFails, Open, vars, memory
    <3>. QED  BY <1>1, <3>1, <3>2, <3>3, <3>4, <3>5, <3>6, <3>7, <3>8 DEF Next, RuntimeStep
  <2>5. jobs = <<>> /\ active = None /\ pc = "Loop"
    BY <2>1, <2>4 DEF TakeSnapshot, Drained
  <2>6. Sound /\ ~written
    BY <1>1, <2>1, <2>5 DEF IInv, MemoryInv, Sound
  <2>7. InFlight = 0 /\ Finished = Len(history)
    BY <1>1, <2>5 DEF IInv, TypeOK, InFlight, Finished
  <2>8. journal = history /\ Whole(Len(history))
    BY <1>1, <2>6, <2>7 DEF IInv, ChainInv
  <2>9. file \in Seq(Edits \cup {Torn}) /\ history \in Seq(Edits \cup {Torn})
    BY <1>1 DEF IInv, TypeOK
  <2>. QED  BY <2>8, <2>9, EqualElements DEF Whole
<1>2. Spec => [][Taken]_vars
  BY Inductive, <1>1, PTL DEF Spec
<1>. QED  BY <1>2 DEF SnapshotsOfWrittenEdits
=============================================================================
