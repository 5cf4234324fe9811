----------------------------- MODULE EditJournal -----------------------------
(***************************************************************************)
(* An edit transaction from the API to the disk.  The game thread queues   *)
(* it, the runtime thread accepts it into the in-memory journal, raises    *)
(* the world revision and answers, and a writer thread appends it to       *)
(* world.wtedit; the control thread loads that file when the world starts  *)
(* and closes it when the world stops.  Writes may fail, in part or after  *)
(* the fact, and the process may die at any step.                          *)
(*                                                                         *)
(* A revision is the number of edits before it (the baked world is         *)
(* revision 0) and a file is its sequence of segments, so sizes are        *)
(* lengths.  Abstracted: the commands of an edit and their replay, the     *)
(* source revision (one world), and the queued queries and coverage hints, *)
(* which touch neither the journal nor the disk.                           *)
(***************************************************************************)
EXTENDS Integers, Sequences, SequencesExt

CONSTANTS
    Edits,              \* transactions, each submitted at most once
    None,
    Torn,               \* an incomplete segment at the end of the file
    Snapshot,           \* a queued snapshot request
    QueueCapacity,      \* kWtProductionWorldOperationCapacity
    JournalCapacity     \* kWtProductionJournalTransactionCapacity

ASSUME JournalAssumption ==
    /\ None \notin Edits /\ Torn \notin Edits /\ Snapshot \notin Edits
    /\ None # Torn /\ None \notin [edit : Edits, at : Nat]
    /\ QueueCapacity \in Nat \ {0} /\ JournalCapacity \in Nat

VARIABLES
    phase,      \* lifecycle: "Stopped", "Running", "Failed", "Stopping"
    pc,         \* runtime thread: "None", "Loop", "Publish", "Flush", "Returned"
    queue,      \* world_operations_: [edit, rebase], edits before snapshots
    revision,   \* world_revision_
    journal,    \* in-memory journal: the edits in commit order
    jobs,       \* writer: segments not yet taken, [edit, at]
    active,     \* writer: the segment being written, or None
    written,    \* writer: fwrite has returned
    failure,    \* writer: sticky I/O failure
    file,       \* world.wtedit
    synced,     \* the segments of the file a power loss cannot take
    base,       \* edit -> the revision its transaction was begun at
    fate,       \* edit -> what became of it
    history,    \* history: the edits of this world, in commit order
    late,       \* history: edits begun at an older revision than they were queued at
    cut         \* history: a crash or failure since the world was last opened

memory == <<queue, revision, journal, jobs, active, written, failure>>
disk == <<file, synced>>
vars == <<phase, pc, memory, disk, base, fate, history, late, cut>>

Job == [edit : Edits, at : Nat]

Fates == {"New", "Begun", "Queued", "Committed", "Rejected", "Lost"}

Init ==
    /\ phase = "Stopped" /\ pc = "None"
    /\ queue = <<>> /\ revision = 0 /\ journal = <<>>
    /\ jobs = <<>> /\ active = None /\ written = FALSE /\ failure = FALSE
    /\ file = <<>> /\ synced = 0
    /\ base = [e \in Edits |-> 0]
    /\ fate = [e \in Edits |-> "New"]
    /\ history = <<>> /\ late = {} /\ cut = FALSE

-----------------------------------------------------------------------------
(* The game thread.                                                        *)

\* Variant: the operation queue grows without limit.
AnyQueueRoom == TRUE

QueueRoom == Len(queue) < QueueCapacity

\* begin_edit_transaction
Begin(e) ==
    /\ phase = "Running" /\ fate[e] = "New"
    /\ base' = [base EXCEPT ![e] = revision]
    /\ fate' = [fate EXCEPT ![e] = "Begun"]
    /\ UNCHANGED <<phase, pc, memory, disk, history, late, cut>>

\* Variant: every queued edit may be rebased.
AlwaysRebased(e) == TRUE

\* An edit current when it is queued may follow those queued before it.
MayRebase(e) == base[e] = revision

\* Where an edit enters the queue: at the first operation that is not one.
Insertion(at) ==
    /\ at \in 1..Len(queue) + 1
    /\ \A i \in 1..at - 1 : queue[i].edit # Snapshot
    /\ at <= Len(queue) => queue[at].edit = Snapshot

\* submit_edit
SubmitEdit(e) ==
    /\ phase = "Running" /\ fate[e] = "Begun"
    /\ QueueRoom
    /\ \E at \in 1..Len(queue) + 1 :
           /\ Insertion(at)
           /\ queue' = InsertAt(queue, at, [edit |-> e, rebase |-> MayRebase(e)])
    /\ fate' = [fate EXCEPT ![e] = "Queued"]
    /\ late' = IF base[e] < revision THEN late \cup {e} ELSE late
    /\ UNCHANGED <<phase, pc, revision, journal, jobs, active, written, failure,
                   disk, base, history, cut>>

RequestSnapshot ==
    /\ phase = "Running"
    /\ QueueRoom
    /\ queue' = Append(queue, [edit |-> Snapshot, rebase |-> FALSE])
    /\ UNCHANGED <<phase, pc, revision, journal, jobs, active, written, failure,
                   disk, base, fate, history, late, cut>>

RequestStop ==
    /\ phase \in {"Running", "Failed"}
    /\ phase' = "Stopping"
    /\ UNCHANGED <<pc, memory, disk, base, fate, history, late, cut>>

-----------------------------------------------------------------------------
(* The runtime thread.                                                     *)

\* push_publication fails once a stop was requested: the edit has no answer.
Answer(e, answer) ==
    fate' = [fate EXCEPT ![e] = IF phase = "Stopping" THEN "Lost" ELSE answer]

\* The transaction is stale, its replacement cannot be prepared, or the
\* journal is full or has failed.
RejectEdit ==
    /\ pc = "Loop" /\ queue # <<>> /\ Head(queue).edit # Snapshot
    /\ queue' = Tail(queue)
    /\ Answer(Head(queue).edit, "Rejected")
    /\ UNCHANGED <<phase, pc, revision, journal, jobs, active, written, failure,
                   disk, base, history, late, cut>>

\* append_deferred: the edit is committed in memory and its segment queued for
\* the writer under one lock.
Commit(e) ==
    /\ journal' = Append(journal, e)
    /\ jobs' = Append(jobs, [edit |-> e, at |-> Len(journal)])
    /\ history' = Append(history, e)

CommitEdit ==
    LET op == Head(queue)
    IN  /\ pc = "Loop" /\ queue # <<>> /\ op.edit # Snapshot
        /\ op.rebase \/ base[op.edit] = revision
        /\ ~failure /\ Len(journal) < JournalCapacity
        /\ Commit(op.edit)
        /\ revision' = revision + 1
        /\ pc' = "Publish"
        /\ UNCHANGED <<phase, queue, active, written, failure, disk, base, fate, late, cut>>

\* Variant: the loaded chunks are examined after the append instead of before.
PublishOrReject ==
    /\ pc = "Publish"
    /\ queue' = Tail(queue)
    /\ \E answer \in {"Committed", "Rejected"} : Answer(Head(queue).edit, answer)
    /\ pc' = "Loop"
    /\ UNCHANGED <<phase, revision, journal, jobs, active, written, failure, disk,
                   base, history, late, cut>>

\* apply_prepared and the publications; a failed replacement stops the runtime.
PublishEdit ==
    /\ pc = "Publish"
    /\ queue' = Tail(queue)
    /\ \/ Answer(Head(queue).edit, "Committed") /\ pc' = "Loop"
       \/ fate' = [fate EXCEPT ![Head(queue).edit] = "Lost"] /\ pc' = "Flush"
    /\ UNCHANGED <<phase, revision, journal, jobs, active, written, failure, disk,
                   base, history, late, cut>>

\* Variant: the wait ends when the queue is empty, the last segment in flight.
NothingQueued == failure \/ jobs = <<>>

\* flush_deferred returns
Drained == failure \/ (jobs = <<>> /\ active = None)

\* process_snapshot_operation; the snapshot's own files are not modelled.
TakeSnapshot ==
    /\ pc = "Loop" /\ queue # <<>> /\ Head(queue).edit = Snapshot
    /\ Drained
    /\ queue' = Tail(queue)
    /\ UNCHANGED <<phase, pc, revision, journal, jobs, active, written, failure,
                   disk, base, fate, history, late, cut>>

\* run() leaves its loop for a journal failure or a stop request, and waits for
\* the writer once more.
LeaveLoop ==
    /\ pc = "Loop" /\ (failure \/ phase = "Stopping")
    /\ pc' = "Flush"
    /\ UNCHANGED <<phase, memory, disk, base, fate, history, late, cut>>

RunReturns ==
    /\ pc = "Flush" /\ Drained
    /\ pc' = "Returned"
    /\ phase' = IF phase = "Stopping" THEN phase ELSE "Failed"
    /\ UNCHANGED <<memory, disk, base, fate, history, late, cut>>

-----------------------------------------------------------------------------
(* The writer thread.                                                      *)

\* Variant: the writer takes the queue and forgets all but its first segment.
TakeAll ==
    /\ jobs # <<>> /\ active = None
    /\ active' = Head(jobs) /\ jobs' = <<>>
    /\ UNCHANGED <<phase, pc, queue, revision, journal, written, failure, disk,
                   base, fate, history, late, cut>>

TakeJob ==
    /\ jobs # <<>> /\ active = None
    /\ active' = Head(jobs) /\ jobs' = Tail(jobs)
    /\ UNCHANGED <<phase, pc, queue, revision, journal, written, failure, disk,
                   base, fate, history, late, cut>>

\* A file of another size than the segment was queued for is not appended to.
Write ==
    /\ active # None /\ ~written
    /\ Len(file) = active.at
    /\ file' \in {Append(file, active.edit), Append(file, Torn)}
    /\ written' = TRUE
    /\ UNCHANGED <<phase, pc, queue, revision, journal, jobs, active, failure, synced,
                   base, fate, history, late, cut>>

Sync ==
    /\ written /\ Last(file) = active.edit
    /\ synced' = Len(file)
    /\ active' = None /\ written' = FALSE
    /\ UNCHANGED <<phase, pc, queue, revision, journal, jobs, failure, file,
                   base, fate, history, late, cut>>

\* Opening, writing, flushing or closing failed.  The file is cut back to its
\* size before the segment, unless that fails too; a cut that succeeds but
\* cannot be flushed counts as one that fails.
WriteFails ==
    /\ active # None
    /\ \/ /\ active.at <= Len(file)
          /\ file' = SubSeq(file, 1, active.at) /\ synced' = active.at
       \/ UNCHANGED disk
    /\ failure' = TRUE /\ jobs' = <<>> /\ active' = None /\ written' = FALSE
    /\ cut' = TRUE
    /\ UNCHANGED <<phase, pc, queue, revision, journal, base, fate, history, late>>

-----------------------------------------------------------------------------
(* The control thread, and the process.                                    *)

\* Variant: an incomplete last segment is counted as loaded.
WithTail == file

\* WtEditJournal::load stops at an incomplete last segment, which is cut off.
Recovered == IF file # <<>> /\ Last(file) = Torn THEN Front(file) ELSE file

Readable == \A i \in 1..Len(file) - 1 : file[i] # Torn

\* start(): open() loads the journal and the runtime begins at its revision.
\* A file that cannot be read, or whose tail cannot be cut off, fails the start.
Open ==
    /\ phase = "Stopped"
    /\ \/ /\ Readable
          /\ file' = Recovered
          /\ synced' = IF file' = file THEN synced ELSE Len(file')
          /\ journal' = Recovered /\ history' = Recovered
          /\ revision' = Len(Recovered)
          /\ phase' = "Running" /\ pc' = "Loop" /\ cut' = FALSE
       \/ /\ ~Readable \/ Recovered # file
          /\ phase' = "Failed" /\ pc' = "Returned" /\ cut' = TRUE
          /\ UNCHANGED <<disk, journal, history, revision>>
    /\ UNCHANGED <<queue, jobs, active, written, failure, base, fate, late>>

\* Memory after the service, or the process, is gone.
Forgotten ==
    /\ phase' = "Stopped" /\ pc' = "None"
    /\ queue' = <<>> /\ revision' = 0 /\ journal' = <<>>
    /\ jobs' = <<>> /\ active' = None /\ written' = FALSE /\ failure' = FALSE
    /\ UNCHANGED <<base, history, late>>

\* close(): ~AsyncState waits for the writer and joins it.
Close ==
    /\ phase = "Stopping" /\ pc = "Returned"
    /\ jobs = <<>> /\ active = None
    /\ Forgotten
    /\ fate' = [e \in Edits |-> IF fate[e] = "Queued" THEN "Lost" ELSE fate[e]]
    /\ UNCHANGED <<disk, cut>>

\* The process or the machine dies: of what was not synced, the system keeps
\* some whole segments, perhaps part of the next, and any begun transaction is gone.
Crash ==
    /\ phase # "Stopped"
    /\ \E n \in synced..Len(file) :
           /\ \/ file' = SubSeq(file, 1, n)
              \/ n < Len(file) /\ file' = Append(SubSeq(file, 1, n), Torn)
           /\ synced' = Len(file')
    /\ Forgotten
    /\ fate' = [e \in Edits |-> IF fate[e] \in {"Begun", "Queued"} THEN "Lost" ELSE fate[e]]
    /\ cut' = TRUE

-----------------------------------------------------------------------------
RuntimeStep ==
    RejectEdit \/ CommitEdit \/ PublishEdit \/ TakeSnapshot \/ LeaveLoop \/ RunReturns

WriterStep == TakeJob \/ Write \/ Sync \/ WriteFails

Next ==
    \/ \E e \in Edits : Begin(e) \/ SubmitEdit(e)
    \/ RequestSnapshot \/ RequestStop
    \/ RuntimeStep
    \/ WriterStep
    \/ Open \/ Close \/ Crash

\* Both threads run while they have something to do.
Spec == Init /\ [][Next]_vars /\ WF_vars(RuntimeStep) /\ WF_vars(WriterStep)

-----------------------------------------------------------------------------
(* Properties.                                                             *)

TypeOK ==
    /\ phase \in {"Stopped", "Running", "Failed", "Stopping"}
    /\ pc \in {"None", "Loop", "Publish", "Flush", "Returned"}
    /\ queue \in Seq([edit : Edits \cup {Snapshot}, rebase : BOOLEAN])
    /\ Len(queue) <= QueueCapacity
    /\ journal \in Seq(Edits) /\ Len(journal) <= JournalCapacity
    /\ revision = Len(journal)
    /\ jobs \in Seq(Job) /\ active \in Job \cup {None}
    /\ written \in BOOLEAN /\ failure \in BOOLEAN
    /\ file \in Seq(Edits \cup {Torn}) /\ synced \in 0..Len(file)
    /\ base \in [Edits -> Nat] /\ fate \in [Edits -> Fates]
    /\ history \in Seq(Edits) /\ late \subseteq Edits /\ cut \in BOOLEAN

\* The file holds the world's edits in commit order, none skipped or doubled,
\* and at most an incomplete segment after them, through failed writes, failed
\* repairs, crashes and restarts: it can always be loaded, and loading it gives
\* a beginning of the edits that were committed.
FileFollowsCommits ==
    /\ Readable
    /\ \E n \in 0..Len(history) :
          file \in {SubSeq(history, 1, n), Append(SubSeq(history, 1, n), Torn)}

\* An orderly stop keeps every committed edit although they are written behind
\* their answers: after it, the file is the whole history.
CleanStopKeepsEdits == phase = "Stopped" /\ ~cut => file = history

\* A rejected transaction changes no durable bytes and none of the journal that
\* is yet to be written, whichever of its tests it failed and whatever was
\* rebased, committed or recovered around it.
RejectedNeverDurable ==
    \A e \in Edits : fate[e] = "Rejected" => e \notin ToSet(file) \cup ToSet(history)

\* test_wt_production_lod_streaming.cpp:2318: an edit begun at an older revision
\* than the one it was queued at is never committed, however the queue moves on.
LateEditsRejected == late \cap ToSet(history) = {}

\* A snapshot is taken of edits that are all in the file, none still on its way.
SnapshotsOfWrittenEdits ==
    [][queue # <<>> /\ Head(queue).edit = Snapshot /\ queue' = Tail(queue) /\ phase' # "Stopped"
           => file = journal \/ failure]_vars

\* Every edit committed with its segment still on the way to the disk becomes
\* durable, unless writing fails or the process dies first.
CommittedBecomesDurable ==
    \A e \in Edits :
        (\E j \in ToSet(jobs) \cup {active} : j # None /\ j.edit = e)
            ~> (e \in ToSet(SubSeq(file, 1, synced)) \/ cut)

=============================================================================
