------------------------------ MODULE MeshWork ------------------------------
(***************************************************************************)
(* The mesh half of the page-meshing runtime: how a chunk's mesh job is    *)
(* admitted, prepared, run by a pool of worker threads, and answered; how  *)
(* its collision leaves early; and how its GPU capture takes a slot of the *)
(* capture queue, at once or deferred until one is free.                   *)
(*                                                                         *)
(* Sampling is one step here (module PageLoading models it), and so is the *)
(* frame thread's use of a capture (module Residency).  What is cached and  *)
(* what physics holds is left open (module DesiredSets), so a collision    *)
(* that is demanded is one that is owed; and so is which of the eligible   *)
(* mesh jobs the runtime dispatches: the edit and interaction filters, and *)
(* a blocked visual job before a collision refresh, only hold jobs back.   *)
(*                                                                         *)
(* A collision asked of a chunk that is drawn already is built again under *)
(* the same generation: a collision-only refresh, whose job captures       *)
(* nothing.  So one generation may be meshed several times.                *)
(***************************************************************************)
EXTENDS Integers, FiniteSets, Sequences, SequencesExt

CONSTANTS
    Keys,                \* chunk keys
    Lod0,                \* those of the finest level
    Demands,             \* the demands considered: <<roles, priority>>
    Priorities,
    FocusPriority,       \* kWtInteractionFocusPriority
    SupportPriority,     \* kWtPlayerSupportPriority
    BackgroundWorkers, InteractionWorkers,
    QueueCapacity,       \* of each job queue, of both completion queues: record capacity
    GpuCapacity,         \* captures the GPU queue holds, reserved ones included
    DeferredCapacity,    \* kWtDeferredGpuCaptureCapacity
    ResultCapacity,      \* the scheduler's completion queue
    MaxEvents            \* demands and repairs considered

Workers == BackgroundWorkers \cup InteractionWorkers

ASSUME MeshAssumption ==
    /\ Lod0 \subseteq Keys
    /\ Demands \subseteq ((SUBSET {"visual", "collision"}) \ {{}}) \X Priorities
    /\ Priorities \subseteq Nat /\ FocusPriority \in Nat /\ SupportPriority \in Nat
    /\ BackgroundWorkers # {} /\ BackgroundWorkers \cap InteractionWorkers = {}
    /\ QueueCapacity \in Nat \ {0} /\ ResultCapacity \in Nat \ {0}
    /\ GpuCapacity \in Nat /\ DeferredCapacity \in Nat /\ MaxEvents \in Nat
    /\ Cardinality(Keys) <= QueueCapacity

VARIABLES
    chunks,      \* the scheduler's record of each chunk
    roles,       \* the roles each chunk's application record demands
    refresh,     \* its collision_only_refresh
    results,     \* the scheduler's completion queue
    records,     \* the page-meshing record of each chunk
    work,        \* queued jobs: [background, interactive] sets
    workers,     \* where each worker stands, and its job
    completed,   \* the pool's completions, oldest first
    early,       \* the pool's early collision completions
    pool,        \* "open", "stopping" (flag stored), "notified"
    gpu,         \* captures the GPU queue holds
    given,       \* history: what became of each generation's capture: "nothing"
                 \* yet, "captured", or "abandoned": dropped by a refresh
    running,     \* run() has not returned
    events       \* demands and repairs so far

vars == <<chunks, roles, refresh, results, records, work, workers, completed, early, pool,
          gpu, given, running, events>>

Generations == 0..MaxEvents

NoChunk == [generation |-> 0, lifecycle |-> "Absent", priority |-> 0, job |-> FALSE]

\* mesh: the mesh the runtime has not popped; delivered is history: whether
\* terrain_mesh_ready was called for the record's job.
NoRecord == [phase |-> "None", generation |-> 0, roles |-> {}, field |-> FALSE,
             deferred |-> FALSE, mesh |-> FALSE, delivered |-> FALSE]

\* A prepared job: the roles it was dispatched with, whether its pre-mesh field
\* is captured ("None", into a "Reserved" slot, or "Deferred"), whether LOD0
\* collision is derived beforehand (prewarm), and whether it is in the
\* interaction lane.
NoJob == [key |-> CHOOSE k \in Keys : TRUE, generation |-> 0, priority |-> 0,
          roles |-> {}, capture |-> "None", prewarm |-> FALSE, lane |-> FALSE]

Version(j) == <<j.key, j.generation>>

Init ==
    /\ chunks = [k \in Keys |-> NoChunk]
    /\ roles = [k \in Keys |-> {}] /\ refresh = [k \in Keys |-> FALSE]
    /\ results = <<>>
    /\ records = [k \in Keys |-> NoRecord]
    /\ work = [background |-> {}, interactive |-> {}]
    /\ workers = [w \in Workers |-> [at |-> "idle", job |-> NoJob, ok |-> FALSE, early |-> FALSE]]
    /\ completed = <<>> /\ early = <<>>
    /\ pool = "open"
    /\ gpu = 0 /\ given = [k \in Keys |-> "nothing"]
    /\ running = TRUE /\ events = 0

-----------------------------------------------------------------------------
(* Records and jobs.                                                       *)

Queued == work.background \cup work.interactive

\* cancel_async_work: the queued job of a record that goes; one that a worker
\* already took runs on and comes back stale.
Cancelled(k) ==
    [queue \in {"background", "interactive"} |->
        {j \in work[queue] : Version(j) # <<k, records[k].generation>>}]

\* release_chunk, cancel_generation
Release(k) ==
    /\ records' = [records EXCEPT ![k] = NoRecord]
    /\ work' = Cancelled(k)

\* The slots of the capture queue that jobs still to run have reserved.
Holders ==
    {j \in Queued \cup {workers[w].job : w \in {v \in Workers : workers[v].at = "executing"}} :
        j.capture = "Reserved"}

GpuRoom == Cardinality(Holders) + gpu < GpuCapacity

Deferred == {k \in Keys : records[k].deferred}

Pending(phase) == phase \in {"MeshReady", "MeshFailedReady"}

\* submit_pending_result for a record in one of the Pending phases
Submitted(r, k) ==
    IF Len(results) = ResultCapacity
    THEN [record |-> r, results |-> results]
    ELSE [record |-> IF r.phase = "MeshReady" THEN [r EXCEPT !.phase = "Ready"] ELSE NoRecord,
          results |-> Append(results, [key |-> k, generation |-> r.generation,
                                       ok |-> r.phase = "MeshReady"])]

Submit(r, k) ==
    /\ records' = [records EXCEPT ![k] = Submitted(r, k).record]
    /\ results' = Submitted(r, k).results

-----------------------------------------------------------------------------
(* Demand events.                                                          *)

Event == running /\ events < MaxEvents /\ events' = events + 1

\* Variant: the new generation's application record keeps the flag of the old.
KeepsRefresh(k, demand, priority) ==
    /\ chunks' = [chunks EXCEPT ![k] = [generation |-> events + 1, lifecycle |-> "Sampling",
                                        priority |-> priority, job |-> FALSE]]
    /\ roles' = [roles EXCEPT ![k] = demand]
    /\ given' = [given EXCEPT ![k] = "nothing"]
    /\ UNCHANGED refresh

\* A new generation; removal from the table of records comes with it when the
\* chunk is edited or a role is added, else begin_sample_job replaces it.
Requested(k, demand, priority) ==
    /\ chunks' = [chunks EXCEPT ![k] = [generation |-> events + 1, lifecycle |-> "Sampling",
                                        priority |-> priority, job |-> FALSE]]
    /\ roles' = [roles EXCEPT ![k] = demand]
    /\ refresh' = [refresh EXCEPT ![k] = FALSE]
    /\ given' = [given EXCEPT ![k] = "nothing"]

RequestChunk(k, demand, priority, release) ==
    /\ Event
    /\ Requested(k, demand, priority)
    /\ IF release THEN Release(k) ELSE UNCHANGED <<records, work>>
    /\ UNCHANGED <<results, workers, completed, early, pool, gpu, running>>

\* Variant: any record of the generation takes a new role on.
AcceptsAnyPhase(k, role) == records[k].generation = chunks[k].generation

\* owned_generation_accepts_role_promotion
Accepts(k, role) ==
    LET r == records[k]
    IN  /\ r.phase # "None" /\ r.generation = chunks[k].generation
        /\ \/ r.phase = "AwaitingMesh"
           \/ /\ ~(role = "collision" /\ r.phase = "Ready")
              /\ r.field
              /\ r.phase \in {"Meshing", "AwaitingGpuCapture", "MeshReady", "Ready"}

\* role_promotion_requires_remesh
NeedsRemesh(k, role) == chunks[k].lifecycle \in {"Meshing", "Ready"} /\ ~Accepts(k, role)

\* release_owned_chunk, request_same_generation_refresh and
\* begin_collision_only_refresh: the chunk is sampled again under its
\* generation; the released record takes its deferred capture along.
Refreshed(k) ==
    /\ chunks' = [chunks EXCEPT ![k].lifecycle = "Sampling"]
    /\ refresh' = [refresh EXCEPT ![k] = TRUE]
    /\ Release(k)
    /\ given' = IF records[k].deferred /\ given[k] = "nothing"
                THEN [given EXCEPT ![k] = "abandoned"] ELSE given

\* A viewer asks for another role.  A generation that can still serve it goes
\* on; one that cannot be drawn is built again as a new one; and a collision of
\* a chunk that is drawn is published from the cache, or refreshed: at once, or
\* by the repair, when the mesh is in flight or the scheduler has no job free.
Promote(k, role) ==
    /\ Event
    /\ chunks[k].lifecycle # "Absent" /\ role \notin roles[k]
    /\ \/ /\ NeedsRemesh(k, role) /\ role = "visual"
          /\ Requested(k, roles[k] \cup {role}, chunks[k].priority) /\ Release(k)
       \/ /\ ~NeedsRemesh(k, role) \/ role = "collision"
          /\ roles' = [roles EXCEPT ![k] = @ \cup {role}]
          /\ UNCHANGED <<chunks, refresh, records, work, given>>
       \/ /\ NeedsRemesh(k, role) /\ role = "collision"
          /\ roles' = [roles EXCEPT ![k] = @ \cup {role}]
          /\ refresh' = [refresh EXCEPT ![k] = TRUE]
          /\ UNCHANGED <<chunks, records, work, given>>
       \/ /\ NeedsRemesh(k, role) /\ role = "collision" /\ chunks[k].lifecycle = "Ready"
          /\ roles' = [roles EXCEPT ![k] = @ \cup {role}]
          /\ Refreshed(k)
    /\ UNCHANGED <<results, workers, completed, early, pool, gpu, running>>

Withdraw(k, role) ==
    /\ Event
    /\ role \in roles[k] /\ roles[k] # {role}
    /\ roles' = [roles EXCEPT ![k] = @ \ {role}]
    /\ UNCHANGED <<chunks, refresh, results, records, work, workers, completed, early,
                   pool, gpu, given, running>>

\* CompletionQueue::erase_key keeps the results of other chunks in their order.
Retained(k) == {i \in DOMAIN results : results[i].key # k}

Ascending(S) == {f \in [1..Cardinality(S) -> S] :
                    \A m, n \in 1..Cardinality(S) : m < n => f[m] < f[n]}

RemoveChunk(k) ==
    /\ Event
    /\ chunks[k].lifecycle # "Absent"
    /\ chunks' = [chunks EXCEPT ![k] = NoChunk]
    /\ roles' = [roles EXCEPT ![k] = {}] /\ refresh' = [refresh EXCEPT ![k] = FALSE]
    /\ given' = [given EXCEPT ![k] = "nothing"]
    /\ \E f \in Ascending(Retained(k)) :
           results' = [i \in 1..Cardinality(Retained(k)) |-> results[f[i]]]
    /\ Release(k)
    /\ UNCHANGED <<workers, completed, early, pool, gpu, running>>

\* A queued job follows its chunk's priority but stays in its queue; only a
\* background job has its collision derived beforehand from then on.
Reprioritize(k, priority) ==
    /\ Event
    /\ chunks[k].lifecycle # "Absent" /\ chunks[k].priority # priority
    /\ chunks' = [chunks EXCEPT ![k].priority = priority]
    /\ LET mine(j) == Version(j) = <<k, chunks[k].generation>>
       IN  work' =
            [background |-> {IF mine(j)
                             THEN [j EXCEPT !.priority = priority,
                                            !.prewarm = /\ j.capture # "None" /\ k \in Lod0
                                                        /\ "visual" \in j.roles
                                                        /\ priority >= FocusPriority]
                             ELSE j : j \in work.background},
             interactive |-> {IF mine(j) THEN [j EXCEPT !.priority = priority] ELSE j
                              : j \in work.interactive}]
    /\ UNCHANGED <<roles, refresh, results, records, workers, completed, early, pool,
                   gpu, given, running>>

-----------------------------------------------------------------------------
(* The runtime thread.                                                     *)

\* The chunk is sampled: begin_sample_job replaced the record of an older
\* generation, and the scheduler queued the mesh job.
Sampled(k) ==
    /\ running /\ chunks[k].lifecycle = "Sampling"
    /\ records' = [records EXCEPT ![k] = [NoRecord EXCEPT !.phase = "AwaitingMesh",
                                                          !.generation = chunks[k].generation]]
    /\ work' = Cancelled(k)
    /\ chunks' = [chunks EXCEPT ![k].lifecycle = "Meshing", ![k].job = TRUE]
    /\ UNCHANGED <<roles, refresh, results, workers, completed, early, pool, gpu, given,
                   running, events>>

\* asynchronous_mesh_admission_available
Admission ==
    \/ Cardinality(work.background) < Cardinality(BackgroundWorkers)
    \/ Cardinality(work.interactive) < QueueCapacity

\* The roles a job is dispatched with: a refresh builds collision alone.
JobRoles(k) == IF refresh[k] THEN roles[k] \ {"visual"} ELSE roles[k]

\* How the field of a mesh job is captured: visual work owns the GPU queue's
\* slots; without one only work that also owes collision goes ahead.  Near
\* collision-only work keeps its field for a later promotion, a refresh of a
\* drawn chunk keeps none.
CaptureOf(k) ==
    IF "visual" \in JobRoles(k)
    THEN IF GpuRoom THEN "Reserved"
         ELSE IF "collision" \in roles[k] /\ Cardinality(Deferred) < DeferredCapacity
              THEN "Deferred" ELSE "Blocked"
    ELSE IF /\ "visual" \notin roles[k] /\ chunks[k].priority >= SupportPriority
            /\ Cardinality(Deferred) < DeferredCapacity
         THEN "Deferred" ELSE "None"

PreparedJob(k, capture) ==
    [key |-> k, generation |-> chunks[k].generation, priority |-> chunks[k].priority,
     roles |-> JobRoles(k), capture |-> capture,
     prewarm |-> /\ capture # "None" /\ "visual" \in JobRoles(k) /\ k \in Lod0
                 /\ chunks[k].priority >= FocusPriority,
     lane |-> "collision" \in roles[k] /\ k \in Lod0 /\ chunks[k].priority > FocusPriority]

\* process_scheduler_jobs with dispatch_mesh_job: the record is being meshed
\* from here on, unless the pool refuses the job.
Dispatch(k) ==
    LET capture == CaptureOf(k)
        j == PreparedJob(k, capture)
        queue == IF j.lane THEN "interactive" ELSE "background"
        fresh == [NoRecord EXCEPT !.phase = "Meshing", !.generation = records[k].generation,
                                  !.roles = JobRoles(k), !.field = capture # "None"]
    IN  /\ running /\ chunks[k].job
        /\ Admission /\ capture # "Blocked"
        /\ chunks' = [chunks EXCEPT ![k].job = FALSE]
        /\ IF Cardinality(work[queue]) < QueueCapacity
           THEN /\ work' = [work EXCEPT ![queue] = @ \cup {j}]
                /\ records' = [records EXCEPT ![k] = fresh]
                /\ UNCHANGED results
           ELSE /\ Submit([fresh EXCEPT !.phase = "MeshFailedReady"], k)
                /\ UNCHANGED work
        /\ UNCHANGED <<roles, refresh, workers, completed, early, pool, gpu, given,
                       running, events>>

\* process_async_mesh_completions, early ones first.
AcceptEarly ==
    /\ running /\ early # <<>>
    /\ early' = Tail(early)
    /\ records' = [k \in Keys |-> IF Head(early) = <<k, records[k].generation>>
                                  THEN [records[k] EXCEPT !.delivered = TRUE] ELSE records[k]]
    /\ UNCHANGED <<chunks, roles, refresh, results, work, workers, completed, pool, gpu,
                   given, running, events>>

\* A worker that tests for room holds the mutex until it sleeps.
MutexFree == \A w \in Workers : workers[w].at # "falling"

\* Variant: a pop wakes nobody.
NoneWoken(w) == workers

\* notify_one after a pop; a woken worker tests again.
Woken(w) == [workers EXCEPT ![w].at = IF @ = "asleep" THEN "executed" ELSE @]

\* pop_completion: the interaction lane first.
NextCompletion ==
    LET urgent == SelectInSeq(completed, LAMBDA c : c.job.lane)
    IN  IF urgent = 0 THEN 1 ELSE urgent

\* The stale tests of accept_prepared_mesh_completion.
Current(j) ==
    /\ records[j.key].generation = j.generation /\ records[j.key].phase = "Meshing"
    /\ chunks[j.key].generation = j.generation /\ chunks[j.key].lifecycle = "Meshing"

\* Variant: a job with a captured field is taken for delivered early.
DeliversUncaptured(c) == c.ok /\ ~c.early /\ c.job.capture = "None"

\* A collision that did not leave early is delivered now, if one was built.
Delivers(c) ==
    /\ c.ok /\ ~c.early
    /\ c.job.capture = "None" \/ "collision" \in c.job.roles \/ c.job.prewarm

\* The mesh is there; a deferred capture keeps a visual record from its answer
\* until the GPU queue has taken it.
AcceptedRecord(c) ==
    LET r == records[c.job.key]
        kept == [r EXCEPT !.deferred = c.job.capture = "Deferred", !.mesh = TRUE,
                          !.delivered = @ \/ Delivers(c)]
    IN  IF ~c.ok THEN [r EXCEPT !.phase = "MeshFailedReady"]
        ELSE IF kept.deferred /\ "visual" \in c.job.roles
             THEN [kept EXCEPT !.phase = "AwaitingGpuCapture"]
             ELSE [kept EXCEPT !.phase = "MeshReady"]

AcceptCompletion ==
    LET i == NextCompletion
        c == completed[i]
        k == c.job.key
        accepted == AcceptedRecord(c)
    IN  /\ running /\ completed # <<>> /\ MutexFree
        /\ completed' = RemoveAt(completed, i)
        /\ \/ \E w \in Workers : workers[w].at = "asleep" /\ workers' = Woken(w)
           \/ (\A w \in Workers : workers[w].at # "asleep") /\ UNCHANGED workers
        /\ IF Current(c.job)
           THEN IF Pending(accepted.phase)
                THEN Submit(accepted, k)
                ELSE records' = [records EXCEPT ![k] = accepted] /\ UNCHANGED results
           ELSE UNCHANGED <<records, results>>
        /\ UNCHANGED <<chunks, roles, refresh, work, early, pool, gpu, given, running,
                       events>>

\* process_deferred_gpu_captures: a deferred capture the viewers still ask for
\* takes a slot and is submitted once.
Deferrable ==
    {k \in Deferred : /\ records[k].phase \in {"AwaitingGpuCapture", "Ready"}
                      /\ "visual" \in roles[k]}

Taken(r) == [r EXCEPT !.deferred = FALSE]

SubmitDeferred(k) ==
    LET taken == Taken(records[k])
    IN  /\ running /\ k \in Deferrable /\ GpuRoom
        /\ chunks[k].generation = records[k].generation
        /\ gpu' = gpu + 1 /\ given' = [given EXCEPT ![k] = "captured"]
        /\ IF records[k].phase = "Ready"
           THEN records' = [records EXCEPT ![k] = taken] /\ UNCHANGED results
           ELSE Submit([taken EXCEPT !.phase = "MeshReady"], k)
        /\ UNCHANGED <<chunks, roles, refresh, work, workers, completed, early, pool,
                       running, events>>

\* flush_scheduler_results
FlushResult(k) ==
    /\ running /\ Pending(records[k].phase) /\ Len(results) < ResultCapacity
    /\ Submit(records[k], k)
    /\ UNCHANGED <<chunks, roles, refresh, work, workers, completed, early, pool, gpu,
                   given, running, events>>

\* apply_completions, one result: a stale one is dropped.
ApplyResult ==
    LET result == Head(results)
        k == result.key
    IN  /\ running /\ results # <<>>
        /\ results' = Tail(results)
        /\ chunks' =
             IF chunks[k].generation = result.generation /\ chunks[k].lifecycle = "Meshing"
             THEN [chunks EXCEPT ![k].lifecycle = IF result.ok THEN "Ready" ELSE "Failed"]
             ELSE chunks
        /\ UNCHANGED <<roles, refresh, records, work, workers, completed, early, pool,
                       gpu, given, running, events>>

\* process_mesh_completions, one mesh: a refresh has nothing to draw, and is over.
ConsumeMesh(k) ==
    /\ running /\ records[k].phase = "Ready" /\ records[k].mesh
    /\ records' = [records EXCEPT ![k].mesh = FALSE]
    /\ refresh' = IF records[k].generation = chunks[k].generation
                  THEN [refresh EXCEPT ![k] = FALSE] ELSE refresh
    /\ UNCHANGED <<chunks, roles, results, work, workers, completed, early, pool, gpu,
                   given, running, events>>

\* process_collision_readiness_repairs for a Ready chunk that owes collision:
\* a cached one is published and ends a refresh; without one the chunk is
\* refreshed, or built again as a new generation.
Repair(k) ==
    /\ Event
    /\ chunks[k].lifecycle = "Ready" /\ "collision" \in roles[k]
    /\ \/ /\ refresh[k]
          /\ refresh' = [refresh EXCEPT ![k] = FALSE]
          /\ UNCHANGED <<chunks, roles, records, work, given>>
       \/ /\ refresh[k]
          /\ Refreshed(k)
          /\ UNCHANGED roles
       \/ /\ ~refresh[k]
          /\ Requested(k, roles[k], chunks[k].priority)
          /\ UNCHANGED <<records, work>>
    /\ UNCHANGED <<results, workers, completed, early, pool, gpu, running>>

-----------------------------------------------------------------------------
(* The pool's worker threads.                                              *)

\* An interaction worker serves its lane only, the others serve it first.
QueueOf(w) ==
    IF w \in InteractionWorkers \/ work.interactive # {} THEN "interactive" ELSE "background"

TakeJob(w) ==
    LET queue == QueueOf(w)
    IN  /\ workers[w].at = "idle" /\ pool = "open"
        /\ \E j \in work[queue] :
              /\ \A other \in work[queue] : other.priority <= j.priority
              /\ work' = [work EXCEPT ![queue] = @ \ {j}]
              /\ workers' = [workers EXCEPT ![w].at = "executing", ![w].job = j]
        /\ UNCHANGED <<chunks, roles, refresh, results, records, completed, early, pool,
                       gpu, given, running, events>>

\* The collision of a captured LOD0 job leaves early.
LeavesEarly(j) ==
    j.capture # "None" /\ j.key \in Lod0 /\ ("collision" \in j.roles \/ j.prewarm)

EarlyRoom == pool = "open" /\ Len(early) < QueueCapacity

\* The capture of an older generation serves nobody.
Given(j) ==
    IF j.generation = chunks[j.key].generation
    THEN [given EXCEPT ![j.key] = "captured"] ELSE given

\* execute_prepared_mesh_job: the field is captured into the reserved slot, the
\* early callback runs, then the rest may still fail.  What the reservation
\* did not use is released.
Execute(w) ==
    LET j == workers[w].job
    IN  /\ workers[w].at = "executing"
        /\ \E meshed \in {TRUE} \cup {j.capture = "None"}, ok \in BOOLEAN :
              LET sent == meshed /\ LeavesEarly(j) /\ EarlyRoom
              IN  /\ ok => meshed
                  /\ IF meshed /\ j.capture = "Reserved"
                     THEN gpu' = gpu + 1 /\ given' = Given(j)
                     ELSE UNCHANGED <<gpu, given>>
                  /\ early' = IF sent THEN Append(early, Version(j)) ELSE early
                  /\ workers' = [workers EXCEPT ![w].at = "executed", ![w].ok = ok,
                                                ![w].early = sent]
        /\ UNCHANGED <<chunks, roles, refresh, results, records, work, completed, pool,
                       running, events>>

NoWork == [at |-> "idle", job |-> NoJob, ok |-> FALSE, early |-> FALSE]

\* The worker hands its completion over, waits for room, or leaves it.
Complete(w) ==
    /\ workers[w].at = "executed" /\ MutexFree
    /\ \/ /\ pool = "open" /\ Len(completed) < QueueCapacity
          /\ completed' = Append(completed, [job |-> workers[w].job, ok |-> workers[w].ok,
                                             early |-> workers[w].early])
          /\ workers' = [workers EXCEPT ![w] = NoWork]
       \/ /\ pool = "open" /\ Len(completed) = QueueCapacity
          /\ workers' = [workers EXCEPT ![w].at = "falling"]
          /\ UNCHANGED completed
       \/ /\ pool # "open"
          /\ workers' = [workers EXCEPT ![w].at = "exited"]
          /\ UNCHANGED completed
    /\ UNCHANGED <<chunks, roles, refresh, results, records, work, early, pool, gpu,
                   given, running, events>>

FallAsleep(w) ==
    /\ workers[w].at = "falling"
    /\ workers' = [workers EXCEPT ![w].at = "asleep"]
    /\ UNCHANGED <<chunks, roles, refresh, results, records, work, completed, early,
                   pool, gpu, given, running, events>>

IdleExit(w) ==
    /\ workers[w].at = "idle" /\ pool # "open"
    /\ workers' = [workers EXCEPT ![w].at = "exited"]
    /\ UNCHANGED <<chunks, roles, refresh, results, records, work, completed, early,
                   pool, gpu, given, running, events>>

-----------------------------------------------------------------------------
(* The frame thread, and the end of the world.                             *)

\* The frame thread has used a capture up.
GpuDone ==
    /\ gpu > 0
    /\ gpu' = gpu - 1
    /\ UNCHANGED <<chunks, roles, refresh, results, records, work, workers, completed,
                   early, pool, given, running, events>>

Stop ==
    /\ running
    /\ running' = FALSE
    /\ UNCHANGED <<chunks, roles, refresh, results, records, work, workers, completed,
                   early, pool, gpu, given, events>>

\* ~AsyncState: the flag is stored under work_mutex ...
BeginShutdown ==
    /\ ~running /\ pool = "open"
    /\ pool' = "stopping"
    /\ work' = [background |-> {}, interactive |-> {}]
    /\ UNCHANGED <<chunks, roles, refresh, results, records, workers, completed, early,
                   gpu, given, running, events>>

\* ... and the workers are notified without completion_mutex.
NotifyAll ==
    /\ pool = "stopping"
    /\ pool' = "notified"
    /\ workers' = [w \in Workers |-> IF workers[w].at = "asleep"
                                     THEN [workers[w] EXCEPT !.at = "executed"] ELSE workers[w]]
    /\ UNCHANGED <<chunks, roles, refresh, results, records, work, completed, early,
                   gpu, given, running, events>>

-----------------------------------------------------------------------------
Demand ==
    \E k \in Keys :
        \/ \E demand \in Demands, release \in BOOLEAN :
              RequestChunk(k, demand[1], demand[2], release)
        \/ \E role \in {"visual", "collision"} : Promote(k, role) \/ Withdraw(k, role)
        \/ RemoveChunk(k) \/ Repair(k)
        \/ \E p \in Priorities : Reprioritize(k, p)

RunLoop ==
    \/ \E k \in Keys : \/ Sampled(k) \/ Dispatch(k) \/ SubmitDeferred(k)
                       \/ FlushResult(k) \/ ConsumeMesh(k)
    \/ AcceptEarly \/ AcceptCompletion \/ ApplyResult

Worker(w) == TakeJob(w) \/ Execute(w) \/ Complete(w) \/ FallAsleep(w) \/ IdleExit(w)

Shutdown == BeginShutdown \/ NotifyAll

Next ==
    \/ Demand \/ RunLoop \/ Stop \/ Shutdown
    \/ \E w \in Workers : Worker(w)
    \/ GpuDone

\* Some thread has a step to take.
WorkerBusy(w) ==
    \/ workers[w].at \in {"executing", "falling"}
    \/ workers[w].at = "executed" /\ MutexFree
    \/ workers[w].at = "idle" /\ (pool # "open" \/ work[QueueOf(w)] # {})

Busy ==
    \/ \E w \in Workers : WorkerBusy(w)
    \/ gpu > 0
    \/ ~running /\ pool # "notified"
    \/ /\ running
       /\ \/ early # <<>> \/ results # <<>>
          \/ completed # <<>> /\ MutexFree
          \/ GpuRoom /\ \E k \in Deferrable : chunks[k].generation = records[k].generation
          \/ \E k \in Keys : \/ chunks[k].lifecycle = "Sampling"
                             \/ chunks[k].job /\ Admission /\ CaptureOf(k) # "Blocked"
                             \/ Pending(records[k].phase) /\ Len(results) < ResultCapacity
                             \/ records[k].phase = "Ready" /\ records[k].mesh

\* While some thread of the program can take a step, one is taken; demands and
\* stops owe nothing, and there are at most MaxEvents + 1 of them.
Fairness == <>[]Busy => []<><<TRUE>>_vars

Spec == Init /\ [][Next]_vars /\ Fairness

-----------------------------------------------------------------------------
(* Properties.                                                             *)

\* VisualServed: a chunk that is Ready while its viewers want it drawn has had
\* its capture submitted, or still holds it, through promotions, collision
\* refreshes that capture nothing and repairs: none is accepted by a record
\* that cannot serve it (owned_generation_accepts_role_promotion,
\* begin_collision_only_refresh).  Except one whose deferred capture a refresh
\* released with its record.
VisualServed ==
    \A k \in Keys :
        (/\ records[k].phase = "Ready" /\ records[k].generation = chunks[k].generation
         /\ "visual" \in roles[k])
        => \/ records[k].deferred
           \/ given[k] \in {"captured", "abandoned"}

\* CollisionNotLost: once the mesh of a job that owed collision is accepted,
\* the collision was delivered or waits in the early queue, also when that
\* queue was full (accept_prepared_mesh_completion).
CollisionNotLost ==
    \A k \in Keys :
        (/\ records[k].phase \in {"AwaitingGpuCapture", "MeshReady", "Ready"}
         /\ "collision" \in records[k].roles)
        => records[k].delivered \/ <<k, records[k].generation>> \in ToSet(early)

\* A record that waits for its deferred capture after the viewers stopped
\* asking for it: nothing answers it until they ask again or leave.
Withdrawn(k) == records[k].phase = "AwaitingGpuCapture" /\ "visual" \notin roles[k]

\* MeshJobsAnswered: a chunk does not stay Meshing while the world runs, unless
\* its visual role was withdrawn while it waited for its capture: jobs,
\* capture slots, completion slots and result slots all come free.
MeshJobsAnswered ==
    \A k \in Keys :
        (chunks[k].lifecycle = "Meshing" /\ running)
        ~> (chunks[k].lifecycle # "Meshing" \/ ~running \/ Withdrawn(k))

=============================================================================
