--------------------------- MODULE StreamScheduler ---------------------------
(***************************************************************************)
(* The chunk scheduler, streaming/wt_stream_scheduler.cpp: one record per  *)
(* active chunk, a bounded priority queue of jobs and a bounded FIFO of    *)
(* job results.  The runtime thread owns the records; the page-meshing     *)
(* service executes the jobs it pops and hands their results back, any     *)
(* time later, naming only the chunk, the generation and the stage.        *)
(*                                                                         *)
(* Abstracted: the source revision (one per open world), the viewer table  *)
(* and metrics (no transition reads them), keys rejected as invalid, and   *)
(* the wrap of the 64-bit generation and sequence counters.                *)
(***************************************************************************)
EXTENDS Integers, Sequences, FiniteSets

CONSTANTS
    Keys,               \* chunk keys the callers may request
    Revisions,          \* world revisions
    Priorities,         \* int32 priorities in use
    NoEdit,             \* edit_delta.valid = false
    RecordCapacity, JobCapacity, CompletionCapacity,
    MaxGeneration,      \* requests and cancellations stop at this generation
    MaxSequence         \* requests and refreshes stop at this job number

ASSUME SchedulerAssumption ==
    /\ Revisions \subseteq Nat
    /\ Priorities \subseteq Int
    /\ NoEdit \notin Revisions
    /\ RecordCapacity \in Nat /\ JobCapacity \in Nat /\ CompletionCapacity \in Nat
    /\ MaxGeneration \in Nat /\ MaxSequence \in Nat

VARIABLES
    records,            \* chunk -> its record; lifecycle "Absent" when there is none
    jobs,               \* the queued jobs; `sequence' orders equal priorities
    completions,        \* results not applied yet, oldest first
    generationCounter,
    sequenceCounter,
    workers,            \* jobs popped and not answered yet (page-meshing service)
    meshed              \* history: versions <<key, generation, world>> some worker meshed

vars == <<records, jobs, completions, generationCounter, sequenceCounter,
          workers, meshed>>

Stages == {"Sample", "Mesh"}

Lifecycles == {"Absent", "Sampling", "Meshing", "Ready", "Cancelled", "Failed"}

ChunkRecord == [lifecycle : Lifecycles, generation : Nat, world : Revisions \cup {0},
                priority : Priorities \cup {0}, edit : Revisions \cup {NoEdit}]

ChunkJob == [key : Keys, generation : Nat, world : Revisions \cup {0}, sequence : Nat,
             priority : Priorities \cup {0}, stage : Stages, edit : Revisions \cup {NoEdit}]

JobResult == [key : Keys, generation : Nat, stage : Stages, success : BOOLEAN]

NoRecord == [lifecycle |-> "Absent", generation |-> 0, world |-> 0,
             priority |-> 0, edit |-> NoEdit]

-----------------------------------------------------------------------------
(* The record table and the two queues.                                    *)

Present(k) == records[k].lifecycle # "Absent"

PresentKeys == {k \in Keys : Present(k)}

\* Variant: the record table grows without limit.
UnboundedRecordRoom(k) == TRUE

RecordRoom(k) == Present(k) \/ Cardinality(PresentKeys) < RecordCapacity

JobRoom == Cardinality(jobs) < JobCapacity

\* job_precedes: the order in which the queue is kept sorted.
Precedes(a, b) ==
    \/ a.priority > b.priority
    \/ a.priority = b.priority /\ a.sequence < b.sequence

\* make_job, with the sequence number the caller has just drawn.
MakeJob(k, record, stage) ==
    [key |-> k, generation |-> record.generation, world |-> record.world,
     sequence |-> sequenceCounter + 1, priority |-> record.priority,
     stage |-> stage, edit |-> record.edit]

AwaitsStage(k, stage) ==
    \/ stage = "Sample" /\ records[k].lifecycle = "Sampling"
    \/ stage = "Mesh" /\ records[k].lifecycle = "Meshing"

\* Variant: a result is matched by chunk and stage only.
ExpectedOfAnyGeneration(result) ==
    Present(result.key) /\ AwaitsStage(result.key, result.stage)

\* What apply_completions asks of a result before it believes it.
Expected(result) ==
    /\ Present(result.key)
    /\ records[result.key].generation = result.generation
    /\ AwaitsStage(result.key, result.stage)

\* CompletionQueue::erase_key: the results of other chunks, in their order.
Retained(k) == {i \in DOMAIN completions : completions[i].key # k}

Ascending(S) == {f \in [1..Cardinality(S) -> S] :
                    \A m, n \in 1..Cardinality(S) : m < n => f[m] < f[n]}

-----------------------------------------------------------------------------
Init ==
    /\ records = [k \in Keys |-> NoRecord]
    /\ jobs = {}
    /\ completions = <<>>
    /\ generationCounter = 0
    /\ sequenceCounter = 0
    /\ workers = {}
    /\ meshed = {}

\* Variant: the record is replaced before the job is pushed.
RequestBeforePush(k, world, priority, force, edit) ==
    LET candidate == [lifecycle |-> "Sampling", generation |-> generationCounter + 1,
                      world |-> world, priority |-> priority, edit |-> edit]
    IN  /\ generationCounter < MaxGeneration /\ sequenceCounter < MaxSequence
        /\ force \/ records[k].lifecycle # "Ready" \/ records[k].world # world
        /\ RecordRoom(k)
        /\ generationCounter' = generationCounter + 1
        /\ sequenceCounter' = sequenceCounter + 1
        /\ records' = [records EXCEPT ![k] = candidate]
        /\ jobs' = IF JobRoom THEN jobs \cup {MakeJob(k, candidate, "Sample")} ELSE jobs
        /\ UNCHANGED <<completions, workers, meshed>>

\* request_chunk_version_internal.  The generation and the sequence number are
\* drawn before the push: a full queue consumes them and changes nothing else.
RequestInternal(k, world, priority, force, edit) ==
    LET candidate == [lifecycle |-> "Sampling", generation |-> generationCounter + 1,
                      world |-> world, priority |-> priority, edit |-> edit]
    IN  /\ generationCounter < MaxGeneration /\ sequenceCounter < MaxSequence
        /\ \/ force
           \/ records[k].lifecycle # "Ready"
           \/ records[k].world # world
        /\ RecordRoom(k)
        /\ generationCounter' = generationCounter + 1
        /\ sequenceCounter' = sequenceCounter + 1
        /\ \/ /\ JobRoom
              /\ jobs' = jobs \cup {MakeJob(k, candidate, "Sample")}
              /\ records' = [records EXCEPT ![k] = candidate]
           \/ /\ ~JobRoom
              /\ UNCHANGED <<jobs, records>>
        /\ UNCHANGED <<completions, workers, meshed>>

\* Variant: a forced remesh keeps the delta of whatever revision it replaces.
RetainedAnyDelta(k, world, force) ==
    IF force /\ Present(k) THEN records[k].edit ELSE NoEdit

\* The edit delta a forced remesh of an unchanged revision keeps.
RetainedDelta(k, world, force) ==
    IF force /\ Present(k) /\ records[k].world = world
    THEN records[k].edit
    ELSE NoEdit

RequestChunkVersion(k, world, priority, force) ==
    RequestInternal(k, world, priority, force, RetainedDelta(k, world, force))

\* A valid delta is named by the world revision its transaction produced.
RequestEditedChunkVersion(k, world, priority) ==
    RequestInternal(k, world, priority, TRUE, world)

\* request_same_generation_refresh: a Ready chunk is sampled again without a
\* new generation.
RequestSameGenerationRefresh(k, priority) ==
    LET candidate == [records[k] EXCEPT !.priority = priority, !.lifecycle = "Sampling"]
    IN  /\ sequenceCounter < MaxSequence
        /\ records[k].lifecycle = "Ready"
        /\ sequenceCounter' = sequenceCounter + 1
        /\ \/ /\ JobRoom
              /\ jobs' = jobs \cup {MakeJob(k, candidate, "Sample")}
              /\ records' = [records EXCEPT ![k] = candidate]
           \/ /\ ~JobRoom
              /\ UNCHANGED <<jobs, records>>
        /\ UNCHANGED <<completions, generationCounter, workers, meshed>>

\* cancel_chunk leaves the queued jobs behind: the new generation makes them stale.
CancelChunk(k) ==
    /\ generationCounter < MaxGeneration
    /\ Present(k)
    /\ generationCounter' = generationCounter + 1
    /\ records' = [records EXCEPT ![k].generation = generationCounter + 1,
                                  ![k].lifecycle = "Cancelled"]
    /\ UNCHANGED <<jobs, completions, sequenceCounter, workers, meshed>>

ForgetChunk(k) ==
    /\ Present(k)
    /\ jobs' = {j \in jobs : j.key # k}
    /\ \E f \in Ascending(Retained(k)) :
           completions' = [i \in 1..Cardinality(Retained(k)) |-> completions[f[i]]]
    /\ records' = [records EXCEPT ![k] = NoRecord]
    /\ UNCHANGED <<generationCounter, sequenceCounter, workers, meshed>>

\* Variant: the queue keeps the priority a job was pushed with.
NotRequeued(k, priority) == jobs

\* Queued jobs of the record's generation follow the record's priority.
Requeued(k, priority) ==
    {IF j.key = k /\ j.generation = records[k].generation
     THEN [j EXCEPT !.priority = priority]
     ELSE j : j \in jobs}

ReprioritizeChunk(k, priority) ==
    /\ Present(k)
    /\ records[k].priority # priority
    /\ records' = [records EXCEPT ![k].priority = priority]
    /\ jobs' = Requeued(k, priority)
    /\ UNCHANGED <<completions, generationCounter, sequenceCounter, workers, meshed>>

\* reprioritize_chunks: `update' gives some chunks their new priority; one chunk
\* without a record rejects the whole batch.
ReprioritizeChunks(update) ==
    /\ \A k \in DOMAIN update : Present(k)
    /\ records' = [k \in Keys |-> IF k \in DOMAIN update
                                  THEN [records[k] EXCEPT !.priority = update[k]]
                                  ELSE records[k]]
    /\ jobs' = {IF j.key \in DOMAIN update /\ j.generation = records[j.key].generation
                THEN [j EXCEPT !.priority = update[j.key]]
                ELSE j : j \in jobs}
    /\ UNCHANGED <<completions, generationCounter, sequenceCounter, workers, meshed>>

\* pop_job with the filter `admitted': the most urgent admitted job leaves the
\* queue.  The callers' filters read state of other components (edits pending,
\* mesh workers busy, GPU slots), so any part of the queue may be admitted.
PopJob(admitted) ==
    \E j \in admitted :
        /\ \A other \in admitted : ~Precedes(other, j)
        /\ jobs' = jobs \ {j}
        /\ workers' = workers \cup {j}
        /\ UNCHANGED <<records, completions, generationCounter, sequenceCounter, meshed>>

\* Variant: an answer that finds the queue full is dropped.
SubmitOrDrop(j, success) ==
    /\ completions' = IF Len(completions) < CompletionCapacity
                      THEN Append(completions, [key |-> j.key, generation |-> j.generation,
                                                stage |-> j.stage, success |-> success])
                      ELSE completions
    /\ workers' = workers \ {j}
    /\ meshed' = IF j.stage = "Mesh" /\ success
                 THEN meshed \cup {<<j.key, j.generation, j.world>>}
                 ELSE meshed
    /\ UNCHANGED <<records, jobs, generationCounter, sequenceCounter>>

\* A worker answers its job; a full completion queue makes it try again later.
SubmitCompletion(j, success) ==
    /\ Len(completions) < CompletionCapacity
    /\ completions' = Append(completions, [key |-> j.key, generation |-> j.generation,
                                           stage |-> j.stage, success |-> success])
    /\ workers' = workers \ {j}
    /\ meshed' = IF j.stage = "Mesh" /\ success
                 THEN meshed \cup {<<j.key, j.generation, j.world>>}
                 ELSE meshed
    /\ UNCHANGED <<records, jobs, generationCounter, sequenceCounter>>

\* A popped job whose record moved on is abandoned without an answer.
AbandonStaleJob(j) ==
    /\ \/ records[j.key].generation # j.generation
       \/ ~AwaitsStage(j.key, j.stage)
    /\ workers' = workers \ {j}
    /\ UNCHANGED <<records, jobs, completions, generationCounter, sequenceCounter, meshed>>

\* One iteration of apply_completions.
ApplyStaleCompletion ==
    /\ completions # <<>>
    /\ ~Expected(Head(completions))
    /\ completions' = Tail(completions)
    /\ UNCHANGED <<records, jobs, generationCounter, sequenceCounter, workers, meshed>>

ApplyFailure ==
    /\ completions # <<>>
    /\ Expected(Head(completions)) /\ ~Head(completions).success
    /\ completions' = Tail(completions)
    /\ records' = [records EXCEPT ![Head(completions).key].lifecycle = "Failed"]
    /\ UNCHANGED <<jobs, generationCounter, sequenceCounter, workers, meshed>>

\* The mesh job follows the sample; without room for it the chunk has failed.
ApplySample ==
    LET result == Head(completions)
        k == result.key
    IN  /\ completions # <<>>
        /\ Expected(result) /\ result.success /\ result.stage = "Sample"
        /\ completions' = Tail(completions)
        /\ sequenceCounter' = sequenceCounter + 1
        /\ \/ /\ JobRoom
              /\ jobs' = jobs \cup {MakeJob(k, records[k], "Mesh")}
              /\ records' = [records EXCEPT ![k].lifecycle = "Meshing"]
           \/ /\ ~JobRoom
              /\ records' = [records EXCEPT ![k].lifecycle = "Failed"]
              /\ UNCHANGED jobs
        /\ UNCHANGED <<generationCounter, workers, meshed>>

ApplyMesh ==
    LET result == Head(completions)
    IN  /\ completions # <<>>
        /\ Expected(result) /\ result.success /\ result.stage = "Mesh"
        /\ completions' = Tail(completions)
        /\ records' = [records EXCEPT ![result.key].lifecycle = "Ready"]
        /\ UNCHANGED <<jobs, generationCounter, sequenceCounter, workers, meshed>>

ApplyCompletion ==
    ApplyStaleCompletion \/ ApplyFailure \/ ApplySample \/ ApplyMesh

-----------------------------------------------------------------------------
Request ==
    \E k \in Keys, world \in Revisions, priority \in Priorities :
        \/ \E force \in BOOLEAN : RequestChunkVersion(k, world, priority, force)
        \/ RequestEditedChunkVersion(k, world, priority)

Next ==
    \/ Request
    \/ \E k \in Keys, priority \in Priorities : RequestSameGenerationRefresh(k, priority)
    \/ \E k \in Keys : CancelChunk(k)
    \/ \E k \in Keys : ForgetChunk(k)
    \/ \E k \in Keys, priority \in Priorities : ReprioritizeChunk(k, priority)
    \/ \E K \in SUBSET Keys : \E update \in [K -> Priorities] : ReprioritizeChunks(update)
    \/ \E admitted \in SUBSET jobs : PopJob(admitted)
    \/ \E j \in workers, success \in BOOLEAN : SubmitCompletion(j, success)
    \/ \E j \in workers : AbandonStaleJob(j)
    \/ ApplyCompletion

SafetySpec == Init /\ [][Next]_vars

\* The runtime thread's loop pops and applies in every iteration, and each job
\* it pops is answered or dropped as stale; callers owe nothing.
Fairness ==
    /\ WF_vars(PopJob(jobs))
    /\ WF_vars(\E j \in workers, success \in BOOLEAN : SubmitCompletion(j, success))
    /\ WF_vars(ApplyCompletion)

Spec == SafetySpec /\ Fairness

-----------------------------------------------------------------------------
\* Types, and the capacities the scheduler was constructed with.
TypeOK ==
    /\ records \in [Keys -> ChunkRecord]
    /\ jobs \subseteq ChunkJob
    /\ completions \in Seq(JobResult)
    /\ generationCounter \in Nat /\ sequenceCounter \in Nat
    /\ workers \subseteq ChunkJob
    /\ meshed \subseteq Keys \X Nat \X (Revisions \cup {0})
    /\ Cardinality(PresentKeys) <= RecordCapacity
    /\ Cardinality(jobs) <= JobCapacity
    /\ Len(completions) <= CompletionCapacity

\* The work under way for the stage chunk k waits for, wherever it is.
LiveJobs(k) == {j \in jobs \cup workers :
                    /\ j.key = k /\ j.generation = records[k].generation
                    /\ AwaitsStage(k, j.stage)}

LiveResults(k) == {i \in DOMAIN completions :
                       completions[i].key = k /\ Expected(completions[i])}

\* A chunk that waits for a sample or a mesh has exactly one job or result under
\* way for it (queued, with a worker, or not applied yet): requests, full queues,
\* retries, refreshes and cancellations neither lose its work nor double it.
NoLostWork ==
    \A k \in Keys :
        records[k].lifecycle \in {"Sampling", "Meshing"} =>
            Cardinality(LiveJobs(k)) + Cardinality(LiveResults(k)) = 1

\* A result names no revision, yet a Ready chunk was meshed by a worker for
\* exactly the generation and the world revision its record claims.
ReadyMeansMeshed ==
    \A k \in Keys :
        records[k].lifecycle = "Ready" =>
            <<k, records[k].generation, records[k].world>> \in meshed

\* The queue orders a chunk's current job by the priority its record has now.
QueueFollowsPriority ==
    \A j \in jobs :
        j.generation = records[j.key].generation => j.priority = records[j.key].priority

\* An edit delta limits derived work to one transaction: a record, and every job
\* made from it, carries a delta of its own world revision or none.
EditDeltaOfRevision ==
    /\ \A k \in Keys : records[k].edit \in {NoEdit, records[k].world}
    /\ \A j \in jobs \cup workers : j.edit \in {NoEdit, j.world}

-----------------------------------------------------------------------------
\* What the scheduler promises its callers, queues and workers hidden.
Versions == INSTANCE ChunkVersions WITH
    issued <- generationCounter,
    version <- [k \in Keys |-> records[k].generation],
    status <- [k \in Keys |->
                  IF records[k].lifecycle \in {"Sampling", "Meshing"}
                  THEN "Pending" ELSE records[k].lifecycle]

\* Every version the scheduler accepts settles exactly as ChunkVersions allows,
\* and a pending one does settle while the runtime thread keeps running.
ImplementsVersions == Versions!Spec
=============================================================================
