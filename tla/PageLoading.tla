---------------------------- MODULE PageLoading ----------------------------
(***************************************************************************)
(* The sample half of the page-meshing runtime: how a chunk's sample job   *)
(* becomes a record that pins the pages it depends on, from the cache or   *)
(* from the asynchronous storage service, and is answered to the           *)
(* scheduler.  The runtime thread runs every handler here; the storage     *)
(* workers run between them.                                               *)
(*                                                                         *)
(* The scheduler is abstracted to each chunk's generation, lifecycle,      *)
(* priority and queued job, and to its bounded queue of results; module    *)
(* StreamScheduler models it.  Meshing is one step here; module MeshWork   *)
(* models it.  The demands that make chunks come and go are events of the  *)
(* environment, MaxEvents of them.                                         *)
(***************************************************************************)
EXTENDS AsyncStorage, PageCache

CONSTANTS
    Keys,              \* chunk keys; a chunk's own page has its key
    DependencySets,    \* chunk -> the sets of pages its transition masks may need
    Neighbours,        \* page -> the pages interaction_warm_shell adds for it
    Leases,            \* the sets of pages an interaction lease may hold
    None,              \* not asked for
    ResultCapacity,    \* the scheduler's completion queue
    ResumeLimit,       \* records resumed per iteration of the runtime loop
    MaxEvents          \* demand events considered

ASSUME LoadingAssumption ==
    /\ Keys \subseteq Pages
    /\ \A k \in Keys : \A d \in DependencySets[k] : k \in d /\ d \subseteq Pages
    /\ \A p \in Pages : Neighbours[p] \subseteq Pages
    /\ Leases \subseteq SUBSET Pages
    /\ None \notin Priorities /\ FocusPriority - 1 \in Priorities
    /\ ResultCapacity \in Nat \ {0} /\ ResumeLimit \in Nat \ {0} /\ MaxEvents \in Nat

VARIABLES
    chunks,    \* the scheduler's view of each chunk
    results,   \* the scheduler's completion queue
    records,   \* the page-meshing record of each chunk
    cache,     \* the storage page cache
    focus,     \* pages under an interaction lease
    warm,      \* interaction_warm_keys_
    world,     \* "running", or why run() returned
    events     \* demand events so far

loadingVars == <<chunks, results, records, cache, focus, warm, world, events>>
vars == <<storage, workers, loadingVars>>

Phases == {"None", "Loading", "SampleReady", "SampleFailedReady", "AwaitingMesh", "Ready"}

NoRecord == [phase |-> "None", generation |-> 0, priority |-> 0, pages |-> {},
             pinned |-> {}, asked |-> [p \in Pages |-> None]]

Record == [phase : Phases, generation : 0..MaxEvents, priority : Priorities \cup {0},
           pages : SUBSET Pages, pinned : SUBSET Pages,
           asked : [Pages -> Priorities \cup {None}]]

NoChunk == [generation |-> 0, lifecycle |-> "Absent", priority |-> 0, job |-> "None"]

Chunk == [generation : 0..MaxEvents, priority : Priorities \cup {0},
          lifecycle : {"Absent", "Sampling", "Meshing", "Ready", "Failed"},
          job : {"None", "Sample", "Mesh"}]

TypeOK ==
    /\ StorageType
    /\ chunks \in [Keys -> Chunk]
    /\ results \in Seq([key : Keys, generation : 1..MaxEvents, ok : BOOLEAN])
    /\ Len(results) <= ResultCapacity
    /\ records \in [Keys -> Record]
    /\ ToSet(cache.encoded) \subseteq Pages /\ ToSet(cache.decoded) \subseteq Pages
    /\ Len(cache.encoded) <= EncodedCapacity /\ Len(cache.decoded) <= DecodedCapacity
    /\ focus \subseteq Pages /\ warm \subseteq Pages
    /\ world \in {"running", "stopped", "StorageFailure", "NotFound", "AlreadyPending"}
    /\ events \in 0..MaxEvents

Init ==
    /\ StorageInit
    /\ chunks = [k \in Keys |-> NoChunk]
    /\ results = <<>>
    /\ records = [k \in Keys |-> NoRecord]
    /\ cache = EmptyCache
    /\ focus = {} /\ warm = {}
    /\ world = "running"
    /\ events = 0

-----------------------------------------------------------------------------
(* The helpers of the page-meshing runtime, on a state s of its records,   *)
(* the storage service, the cache and the result queue.                    *)

Now == [records |-> records, storage |-> storage, cache |-> cache, results |-> results]

Becomes(s) ==
    /\ records' = s.records /\ storage' = s.storage
    /\ cache' = s.cache /\ results' = s.results

\* The sorted containers: op on the state for each key of S, from the lowest
\* key up or from the highest down.
Upwards(op(_, _), s, S) == MapThenFoldSet(LAMBDA key, a : op(a, key), s, LAMBDA key : key, Max, S)

Downwards(op(_, _), s, S) == MapThenFoldSet(LAMBDA key, a : op(a, key), s, LAMBDA key : key, Min, S)

Pending(phase) == phase \in {"SampleReady", "SampleFailedReady"}

\* submit_pending_result: with the result queue full the record waits for a
\* flush; a reported failure erases the record.
Submit(s, k) ==
    LET r == s.records[k]
    IN  IF ~Pending(r.phase) \/ Len(s.results) = ResultCapacity
        THEN s
        ELSE [s EXCEPT
                !.results = Append(@, [key |-> k, generation |-> r.generation,
                                       ok |-> r.phase = "SampleReady"]),
                !.records[k] = IF r.phase = "SampleReady"
                               THEN [r EXCEPT !.phase = "AwaitingMesh"]
                               ELSE NoRecord]

\* mark_sample_failure
SampleFailed(s, k) ==
    Submit([s EXCEPT !.records[k].phase = "SampleFailedReady", !.records[k].pinned = {}], k)

Pinned(s, k, page) ==
    [s EXCEPT !.cache = LookUp(@, page),
              !.records[k].pinned = @ \cup {page},
              !.records[k].asked[page] = None]

\* A record with every page pinned is ready to answer.
Sampled(s, k) ==
    IF s.records[k].phase = "Loading" /\ s.records[k].pinned = s.records[k].pages
    THEN Submit([s EXCEPT !.records[k].phase = "SampleReady"], k)
    ELSE s

\* resolve_dependency, for record k of a.s; a.status ends the loop over its pages.
ResolveDependency(a, k, page) ==
    LET r == a.s.records[k]
        status == RequestStatus(a.s.storage, page, r.priority)
    IN  IF a.status # "Ok" \/ page \in r.pinned THEN a
        ELSE IF Cached(a.s.cache, page) THEN [a EXCEPT !.s = Pinned(@, k, page)]
        ELSE IF r.asked[page] = r.priority THEN a
        ELSE CASE status \in {"Ok", "AlreadyPending"} ->
                    [a EXCEPT !.s.storage = RequestPage(@, page, r.priority, "PageMeshing"),
                              !.s.records[k].asked[page] = r.priority]
               [] status = "RequestQueueFull" -> [a EXCEPT !.status = "Backpressure"]
               [] OTHER -> [s |-> SampleFailed(a.s, k), status |-> "StorageFailure"]

\* resolve_loading_record
Resolve(s, k) ==
    LET tried == Upwards(LAMBDA a, page : ResolveDependency(a, k, page),
                         [s |-> s, status |-> "Ok"], s.records[k].pages)
        sampled == Sampled(tried.s, k)
    IN  IF tried.status # "Ok" THEN tried
        ELSE [s |-> sampled,
              status |-> IF sampled.records[k].phase = "SampleReady"
                         THEN "Backpressure" ELSE "Ok"]

Asked(r) == {p \in Pages : r.asked[p] # None}

\* cancel_orphaned_dependency_requests: queued pages no other record asked for.
CancelOrphan(s, page) ==
    IF \E k \in Keys : s.records[k].asked[page] # None THEN s
    ELSE [s EXCEPT !.storage = CancelQueued(@, page, "PageMeshing")]

CancelOrphans(s, removed) == Upwards(CancelOrphan, s, Asked(removed))

\* release_chunk
Released(s, k) == CancelOrphans([s EXCEPT !.records[k] = NoRecord], s.records[k])

-----------------------------------------------------------------------------
(* Demand events: the scheduler calls and page-runtime calls of the        *)
(* desired-set, edit and foreground handlers.                              *)

Running == world = "running"

Event == Running /\ events < MaxEvents /\ events' = events + 1

\* A new generation is requested; an edit replacement cancels the page record
\* of the superseded generation, a remesh leaves it to begin_sample_job.
RequestChunk(k, priority, edit) ==
    /\ Event
    /\ edit => chunks[k].lifecycle # "Absent"
    /\ chunks' = [chunks EXCEPT ![k] = [generation |-> events + 1, lifecycle |-> "Sampling",
                                        priority |-> priority, job |-> "Sample"]]
    /\ Becomes(IF edit /\ records[k].generation = chunks[k].generation
               THEN Released(Now, k) ELSE Now)
    /\ UNCHANGED <<workers, focus, warm, world>>

\* A Ready chunk is sampled again in its generation: the page record goes
\* first, so that begin_sample_job does not take it for the same job.
RefreshSameGeneration(k, priority) ==
    /\ Event
    /\ chunks[k].lifecycle = "Ready"
    /\ Becomes(Released(Now, k))
    /\ chunks' = [chunks EXCEPT ![k].lifecycle = "Sampling", ![k].job = "Sample",
                                ![k].priority = priority]
    /\ UNCHANGED <<workers, focus, warm, world>>

\* forget_chunk: the results of the chunk leave the queue.
Forgotten(queue, k) ==
    FoldLeft(LAMBDA left, r : IF r.key = k THEN left ELSE Append(left, r), <<>>, queue)

\* A chunk leaves the desired set.
RemoveChunk(k) ==
    /\ Event
    /\ chunks[k].lifecycle # "Absent"
    /\ LET released == Released(Now, k)
       IN  Becomes([released EXCEPT
                      !.cache = ErasePage(@, k),
                      !.results = Forgotten(@, k)])
    /\ chunks' = [chunks EXCEPT ![k] = NoChunk]
    /\ UNCHANGED <<workers, focus, warm, world>>

\* The record's requests follow its priority when it is next resumed.
Prioritized(update) ==
    /\ chunks' = [k \in Keys |-> [chunks[k] EXCEPT !.priority = update[k]]]
    /\ records' = [k \in Keys |->
                     IF records[k].phase # "None" /\ records[k].generation = chunks[k].generation
                     THEN [records[k] EXCEPT !.priority = update[k]]
                     ELSE records[k]]

Reprioritize(k, priority) ==
    /\ Event
    /\ chunks[k].lifecycle # "Absent" /\ chunks[k].priority # priority
    /\ Prioritized([c \in Keys |-> IF c = k THEN priority ELSE chunks[c].priority])
    /\ UNCHANGED <<storage, workers, results, cache, focus, warm, world>>

\* The warm pages a request is not accepted for are forgotten.
WarmPage(a, page) ==
    LET status == RequestStatus(a.storage, page, FocusPriority)
    IN  IF page \in warm THEN [a EXCEPT !.warm = @ \cup {page}]
        ELSE IF Cached(a.cache, page)
        THEN [a EXCEPT !.cache = LookUp(@, page), !.warm = @ \cup {page}]
        ELSE IF status \in {"Ok", "AlreadyPending"}
        THEN [a EXCEPT !.storage = RequestPage(@, page, FocusPriority, "InteractionWarm"),
                       !.warm = @ \cup {page}]
        ELSE a

\* process_foreground_priority_event: pages out of the new shell are cancelled,
\* new ones are warmed, and the leased chunks' priorities are raised.
WarmFocus(leased) ==
    LET shell == (UNION {Neighbours[p] \cup {p} : p \in leased}) \cap Stored
        cancelled == Upwards(LAMBDA s, page : CancelQueued(s, page, "InteractionWarm"),
                             storage, warm \ shell)
        warmed == Upwards(WarmPage, [storage |-> cancelled, cache |-> cache, warm |-> {}], shell)
    IN  /\ Event
        /\ leased # focus
        /\ storage' = warmed.storage /\ cache' = warmed.cache /\ warm' = warmed.warm
        /\ Prioritized([k \in Keys |->
              IF chunks[k].lifecycle = "Absent" THEN chunks[k].priority
              ELSE IF k \in leased THEN FocusPriority
              ELSE IF k \in focus THEN FocusPriority - 1
              ELSE chunks[k].priority])
        /\ focus' = leased
        /\ UNCHANGED <<workers, results, world>>

-----------------------------------------------------------------------------
(* The runtime loop.                                                       *)

\* begin_sample_job for a popped sample job of the current generation; a
\* record of an older generation is cancelled.
BeginSample(k, pages) ==
    /\ Running /\ chunks[k].job = "Sample"
    /\ chunks' = [chunks EXCEPT ![k].job = "None"]
    /\ IF records[k].phase # "None" /\ records[k].generation = chunks[k].generation
       THEN /\ world' = "AlreadyPending"
            /\ UNCHANGED <<storage, results, records, cache>>
       ELSE /\ LET fresh == [NoRecord EXCEPT !.phase = "Loading", !.pages = pages,
                                             !.generation = chunks[k].generation,
                                             !.priority = chunks[k].priority]
                   replaced == Released(Now, k)
               IN  Becomes(Resolve([replaced EXCEPT !.records[k] = fresh], k).s)
            /\ UNCHANGED world
    /\ UNCHANGED <<workers, focus, warm, events>>

Waits(r, page) ==
    r.phase = "Loading" /\ page \in r.pages \ r.pinned /\ r.asked[page] # None

\* Variant: only the most recent of the waiting records is answered.
OneWaiting(page) ==
    LET all == {k \in Keys : Waits(records[k], page)}
    IN  {k \in all : \A other \in all : records[other].generation <= records[k].generation}

Waiting(page) == {k \in Keys : Waits(records[k], page)}

\* process_storage_completions, one completion: pages enter the cache and every
\* waiting record; a failed load fails them all and ends the world.
AcceptCompletion ==
    LET completion == Head(storage.completed)
        page == completion.page
        popped == [Now EXCEPT !.storage = PopCompletion(@)]
        cached == [popped EXCEPT !.cache = AcceptPage(@, page)]
        fanned == Downwards(LAMBDA s, k : Sampled(Pinned(s, k, page), k), cached, Waiting(page))
        leased == IF page \in focus THEN [fanned EXCEPT !.cache = LookUp(@, page)] ELSE fanned
    IN  /\ Running /\ storage.completed # <<>>
        /\ \/ /\ completion.ok
              /\ Becomes(leased)
              /\ UNCHANGED world
           \/ /\ ~completion.ok
              /\ Becomes(Downwards(SampleFailed, popped, Waiting(page)))
              /\ world' = IF Waiting(page) = {} THEN world ELSE "StorageFailure"
        /\ UNCHANGED <<workers, chunks, focus, warm, events>>

\* resume_loading_records: the first ResumeLimit loading records, the most
\* urgent first; backpressure ends the pass.
Loading == {k \in Keys : records[k].phase = "Loading"}

Sooner(k, other) ==
    \/ records[k].priority > records[other].priority
    \/ records[k].priority = records[other].priority /\ k < other

Soonest ==
    {k \in Loading : Cardinality({other \in Loading : Sooner(other, k)}) < ResumeLimit}

LeastUrgent(S) == CHOOSE k \in S : \A other \in S \ {k} : Sooner(other, k)

ResumeNext(a, k) == IF a.status = "Backpressure" THEN a ELSE Resolve(a.s, k)

Resumed ==
    MapThenFoldSet(LAMBDA k, a : ResumeNext(a, k), [s |-> Now, status |-> "Ok"],
                   LAMBDA k : k, LeastUrgent, Soonest).s

ResumeLoading ==
    /\ Running
    /\ Resumed # Now
    /\ Becomes(Resumed)
    /\ UNCHANGED <<workers, chunks, focus, warm, world, events>>

\* flush_scheduler_results
Flushed == Upwards(Submit, Now, Keys)

FlushResults ==
    /\ Running
    /\ Flushed # Now
    /\ Becomes(Flushed)
    /\ UNCHANGED <<workers, chunks, focus, warm, world, events>>

\* Variant: a result of any generation moves its chunk on.
ApplyAnyResult ==
    LET k == Head(results).key
    IN  /\ Running /\ results # <<>>
        /\ results' = Tail(results)
        /\ IF chunks[k].lifecycle = "Sampling" /\ Head(results).ok
           THEN chunks' = [chunks EXCEPT ![k].lifecycle = "Meshing", ![k].job = "Mesh"]
           ELSE UNCHANGED chunks
        /\ UNCHANGED <<storage, workers, records, cache, focus, warm, world, events>>

\* apply_completions, one result: a stale one is dropped.
ApplyResult ==
    LET result == Head(results)
        k == result.key
    IN  /\ Running /\ results # <<>>
        /\ results' = Tail(results)
        /\ IF /\ chunks[k].generation = result.generation
              /\ chunks[k].lifecycle = "Sampling"
           THEN IF result.ok
                THEN chunks' = [chunks EXCEPT ![k].lifecycle = "Meshing", ![k].job = "Mesh"]
                ELSE chunks' = [chunks EXCEPT ![k].lifecycle = "Failed"]
           ELSE UNCHANGED chunks
        /\ UNCHANGED <<storage, workers, records, cache, focus, warm, world, events>>

\* The mesh job finds the record of its generation with every page pinned
\* (prepare_mesh_job) and releases the pins; without a record the world ends.
MeshJob(k) ==
    /\ Running /\ chunks[k].job = "Mesh"
    /\ IF records[k].phase = "None" \/ records[k].generation # chunks[k].generation
       THEN /\ world' = "NotFound"
            /\ chunks' = [chunks EXCEPT ![k].job = "None"]
            /\ UNCHANGED records
       ELSE /\ chunks' = [chunks EXCEPT ![k].job = "None",
                            ![k].lifecycle = IF records[k].phase = "AwaitingMesh"
                                             THEN "Ready" ELSE @]
            /\ records' = IF records[k].phase = "AwaitingMesh"
                          THEN [records EXCEPT ![k].phase = "Ready", ![k].pinned = {}]
                          ELSE records
            /\ UNCHANGED world
    /\ UNCHANGED <<storage, workers, results, cache, focus, warm, events>>

\* The world is asked to stop: run() returns after its current iteration.
Stop ==
    /\ Running
    /\ world' = "stopped"
    /\ UNCHANGED <<storage, workers, chunks, results, records, cache, focus, warm, events>>

\* The lifecycle thread closes the service when run() has returned.
Close ==
    /\ ~Running
    /\ BeginClose \/ EndClose
    /\ UNCHANGED loadingVars

Worker(w) == WorkerStep(w) /\ UNCHANGED loadingVars

Demand ==
    \/ \E k \in Keys, priority \in Priorities :
          \/ \E edit \in BOOLEAN : RequestChunk(k, priority, edit)
          \/ RefreshSameGeneration(k, priority)
          \/ Reprioritize(k, priority)
    \/ \E k \in Keys : RemoveChunk(k)
    \/ \E leased \in Leases : WarmFocus(leased)

BeginSomeSample == \E k \in Keys : \E pages \in DependencySets[k] : BeginSample(k, pages)

RunLoop ==
    \/ ApplyResult \/ AcceptCompletion
    \/ \E k \in Keys : MeshJob(k)
    \/ BeginSomeSample \/ FlushResults \/ ResumeLoading

Work == (\E w \in Workers : Worker(w)) \/ Close \/ RunLoop

Next == Demand \/ Stop \/ Work

\* The disjunction of the guards of Work: some thread can take a step.
WorkerBusy(w) ==
    \/ workers[w].at = "loading"
    \/ storage.phase = "open" /\ \/ workers[w].at = "idle" /\ Selected(w) # 0
                                 \/ /\ workers[w].at = "loaded"
                                    /\ Len(storage.completed) < CompletionCapacity
    \/ Leaves(w)

Busy ==
    \/ \E w \in Workers : WorkerBusy(w)
    \/ /\ ~Running
       /\ \/ storage.phase = "open"
          \/ storage.phase = "stopping" /\ \A w \in Workers : workers[w].at = "exited"
    \/ /\ Running
       /\ \/ results # <<>> \/ storage.completed # <<>>
          \/ \E k \in Keys : chunks[k].job # "None"
          \/ Flushed # Now \/ Resumed # Now

\* Weak fairness of Work, spelled with its guard: while some thread of the
\* program has something to do, some step is taken.  Demands and stops owe
\* nothing, and there are at most MaxEvents + 1 of them.
Fairness == <>[]Busy => []<><<TRUE>>_vars

Spec == Init /\ [][Next]_vars /\ Fairness

-----------------------------------------------------------------------------
(* Properties.                                                             *)

\* A page a loading record asked for and does not hold is still on its way:
\* requested, being loaded, or waiting in the completion ring.  The record
\* never asks twice at one priority, so a request cancelled under it (by the
\* release of another record, or by the interaction warm-up leaving the page)
\* would leave the chunk loading for ever.
NoLostRequest ==
    Running => \A k \in Keys : \A page \in records[k].pages \ records[k].pinned :
        records[k].phase = "Loading" /\ records[k].asked[page] # None
            => page \in storage.active

\* A queued mesh job belongs to a record of its generation that waits for it
\* with every page pinned.  Without the record, the job's status would end the
\* world; with the record in another phase, the chunk would never be meshed.
MeshJobsHaveTheirPages ==
    Running => \A k \in Keys :
        chunks[k].job = "Mesh" =>
            /\ records[k].phase = "AwaitingMesh"
            /\ records[k].generation = chunks[k].generation
            /\ records[k].pinned = records[k].pages

\* Every sample job the page runtime began is answered, superseded or released
\* while the world runs: queue limits, a full completion ring, evictions,
\* cancellations and priority changes only delay it.
SamplesAreAnswered ==
    \A k \in Keys :
        records[k].phase \in {"Loading", "SampleReady", "SampleFailedReady"} ~>
            \/ records[k].phase \notin {"Loading", "SampleReady", "SampleFailedReady"}
            \/ ~Running

\* A world that ended has its storage threads joined and nothing left in the
\* service, whatever each worker was doing.
StorageCloses == ~Running ~> storage.phase = "closed"

=============================================================================
