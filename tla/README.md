# Formal models of the World Transvoxel terrain addon

The addon (`addons/world_transvoxel/src`, C++ for Godot) streams, meshes and edits a
voxel world.  Four kinds of threads share its state: the game's frame thread, one
runtime thread per open world, a control thread that opens and closes the world, and
worker threads for storage, meshing and the edit journal.  These modules model the
concurrent core: what is queued, in which order it is taken, what may be lost, stale or
late, and what survives a stop or a crash.  Below, `R/` stands for
`src/addons/world_transvoxel/src/`.

Contents: [inventory](#inventory), [modules](#modules), [runs](#runs),
[proofs](#proofs), [findings](#what-disagrees-with-the-documents),
[limits](#what-is-not-modelled), [plan](#plan).

## Inventory

### Threads and who owns what

| Thread | Runs | State it owns |
|---|---|---|
| frame | Godot's `_physics_process` and `_process` of the terrain node (`R/api`) | the node's application records, retirement and replacement tables, sinks |
| runtime | `WtReadOnlyWorldRuntime::run` (`R/services`) | scheduler records, its own application records, desired set, in-memory journal, world revision |
| control | `WtWorldLifecycle::control_main` | the runtime object itself: creates, opens, closes and destroys it |
| storage, mesh and journal workers | `wt_async_storage_service_worker.cpp`, `wt_page_meshing_runtime.cpp`, `wt_edit_journal_store.cpp` | the job they hold |

The runtime and the frame thread talk through two bounded rings of publications (runtime to
frame) and one queue of operations (frame to runtime).  The runtime talks to the storage
and mesh workers through job and completion queues, to the journal writer through a job
list and a condition variable.  Every queue is bounded; only the publication rings block
the producer, every other one refuses.

### Components

* **Chunk scheduler** (`R/streaming/wt_stream_scheduler.cpp`).  State: one record per active
  chunk (lifecycle, generation, world revision, priority, edit delta), a bounded priority
  queue of jobs, a bounded FIFO of results, two counters.  Operations: request, edited
  request, same-generation refresh, cancel, forget, reprioritise one or many, pop with a
  filter, submit a result, apply results.  Hard: results arrive late and name only chunk,
  generation and stage; any of the three tables may be full at each call; a refresh reuses
  its generation.  Correct when no wait is without work, no result is believed by another
  version, and every accepted version settles.
* **Publication rings and the frame's drains** (`R/services/wt_read_only_world_runtime_thread.cpp`,
  `R/api/world_transvoxel_terrain_streaming.cpp`).  State: priority ring, normal ring, the
  blocked push, the publication kept back by a budget.  Operations: push (deduplicates
  collision payloads, waits for room), three pops with different selection orders, two
  callbacks with budgets, stop, join, destruction.  Hard: three orders over two rings must
  not overtake a version's announcement; the producer sleeps; stop races the sleep.
* **Edit journal and edit operations** (`R/storage/wt_edit_journal_store.cpp`,
  `R/services/wt_read_only_world_runtime_operations.cpp`, `..._edit.cpp`).  State: operation
  queue, in-memory journal, world revision, the writer's jobs, the file and how much of it is
  synced.  Operations: begin, submit (rebase), commit, reject, publish, deferred append,
  snapshot, flush, close, load and tail repair.  Hard: answers precede writes; a write can
  fail half way and so can its repair; the process can die anywhere.
* **World lifecycle** (`R/services/wt_world_lifecycle.cpp`): stopped, starting, running,
  stopping, failed; three start variants.  Correct when no call is served by a runtime that is
  being destroyed, and a stop always completes.
* **Chunk application** (`R/services/wt_chunk_application.cpp`), one instance in the runtime
  and one in the node.  State: per chunk expected generation, visual and collision generation
  and readiness, GPU placeholder and external activation flags, two bounded apply queues and
  a deferred collision list.  Hard: payloads of older generations arrive after newer
  expectations; a payload may be popped and find its deferral list full; the two instances
  agree only through publications and acknowledgements.
* **Retirement and replacement staging** (`R/api/world_transvoxel_terrain_streaming.cpp`,
  `R/services/wt_chunk_publication_policy.cpp`): a chunk's old mesh and collision stay until
  all that replaces them is ready.  Correct when a visible region never has a hole and never
  two surfaces, and every retirement ends.
* **Page meshing runtime** (`R/services/wt_page_meshing_runtime*.cpp`) and **asynchronous
  storage** (`R/storage/wt_async_storage_service*.cpp`, `wt_storage_page_cache.cpp`): page
  dependencies of jobs, shared requests, a worker pool, cancellation, bounded caches.  Hard:
  many jobs wait for one page; cancellation races completion; destruction races the workers'
  wait for completion space.
* **Desired set** (`R/streaming/wt_multi_viewer_desired_set.cpp`,
  `R/services/wt_desired_set_runtime.cpp`) and **edit replacement**
  (`wt_edit_runtime_replacement.cpp`): viewers' plans, their union and delta, and its
  application to scheduler and application records, preflighted so that it is all or nothing.
  Hard: the preflight must count exactly what the application uses.
* **Demand, completions and repairs** (`R/services/wt_read_only_world_runtime_demand.cpp`,
  `..._publication.cpp`, `..._completion.cpp`) and the **resource cache**
  (`wt_chunk_resource_cache.cpp`): the steps of the runtime's loop that apply a delta, publish it, consume
  meshes and look for roles nothing serves.  Hard: roles change while a mesh for the old roles is being
  built; entries are evicted; a repair must neither repeat what is under way nor give up.
* **World snapshot store** (`R/storage/wt_world_snapshot_store.cpp`): staging directory,
  publication by rename, interruption.
* **LOD planner and LOD map** (`R/streaming/wt_lod_map.cpp`, `wt_balanced_lod_planner.cpp`) and the
  **planning of viewer requests** (`wt_read_only_world_runtime_demand.cpp`): from viewers, focus and
  edits to a target cut, and from the accepted cut to the target in staged passes.  Hard: requests,
  edits and drawings arrive between a plan and its acceptance; capacity and balance may refuse a pass.
  Correct when what is drawn stays covered and the cut comes to rest at the target.
* **Edit commands and replay**, **collision and render queues and sinks**, **meshing and collision
  building**, **GPU backend, telemetry and diagnostics**: algorithms over geometry, calls into
  Godot's servers, observers.

`PROJECT.json` lists each with its status and `hazards` lists where this code can go wrong
in ways a test hardly reaches, line by line.

## Modules

| Module | Models | Extends or instantiates |
|---|---|---|
| `StreamScheduler` | the chunk scheduler | instantiates `ChunkVersions` |
| `ChunkVersions` | what the scheduler promises its callers (abstract) | |
| `PublicationQueue` | the rings, both frame callbacks, stop and destruction | |
| `EditJournal` | edits from the API to the disk, crash and recovery | |
| `DesiredSets` | viewer deltas, edits, completions and repairs over the runtime's tables | |
| `AsyncStorage` | page requests, storage workers, completions, shutdown | |
| `PageCache` | the storage page cache, as functions | |
| `PageLoading` | sample jobs, their page dependencies and the runtime around them | `AsyncStorage`, `PageCache` |
| `MeshWork` | mesh jobs, the worker pool, captures, early collision | |
| `ChunkApplication` | the node's application record and render sink entry, as functions | |
| `PublicationPolicy` | overlap regions, coverage and cohorts, as functions | |
| `Residency` | how drawn terrain is replaced, runtime to renderer | `ChunkApplication`, `PublicationPolicy` |
| `ChunkKeys` | chunk keys, families and the page catalog | |
| `LodPlanner` | the LOD map and the balanced planner, as functions | `ChunkKeys` |
| `LodStaging` | the staged passes from one cut to another, as functions | `LodPlanner` |
| `ViewerPlanning` | viewer requests, focus and edits to accepted cuts | `LodStaging` |
| `MCDesiredSets`, `MCPageLoading`, `MCMeshWork`, `MCResidency`, `MCViewerPlanning` | constants and symmetry for TLC | the module named |
| `SequenceLemmas` | facts about `Tail`, `Append`, `RemoveAt`, `SelectInSeq`; induction over sets of numbers, the greatest element | the library |
| `FoldInduction` | induction over the fold of a finite set, for any round, order and claim | `SequenceLemmas`; instantiated once per fold |
| `StreamSchedulerProofs`, `PublicationQueueProofs`, `EditJournalProofs`, `PageLoadingProofs`, `MeshWorkProofs`, `DesiredSetsProofs` | theorems | the module named, `SequenceLemmas`; `PageLoadingProofs` also has those of `AsyncStorage` |

### StreamScheduler

`records`, `jobs` and `completions` are the three members of `WtStreamScheduler`; the job
vector, which the code keeps sorted, is a set with the order `Precedes` (`job_precedes`), since
sequence numbers are unique.  One action per public method.  `RequestInternal` is
`request_chunk_version_internal`: it draws the generation and the sequence number before the
push, so a full job queue consumes both and changes nothing else.  `ApplyCompletion` is one
iteration of `apply_completions`, split by outcome; `Expected` is its test.  `PopJob` takes any
admitted subset of the queue, because the filters that callers pass read other components'
state.  `workers` stands for the page-meshing service, which holds popped jobs and answers, or
abandons those whose record has moved on.  `meshed` is a history variable: a result carries no
world revision, so without it `ReadyMeansMeshed` could not be said.

`ChunkVersions` hides queues, jobs and workers: a version is opened, settles as Ready or Failed
under its own number, and only a Ready one may be reopened.  `ImplementsVersions` is the
refinement, with its fairness: a pending version settles.

### PublicationQueue

`priority` and `normal` are the rings; `pc` is where `push_publication` stands.  A push tests
its predicate under the mutex (`Checked`), and only then sleeps (`Blocked`): the two steps are
separate because `request_stop` notifies without that mutex.  `TakeCollision` is
`pop_interaction_collision_publication` with its search for prerequisites (`FrontOf`),
`TakeOldest` the two other pops.  `frame` follows `_process`: `DrainNext` is one turn of
the drain's loop up to the budget test, `DrainOvertake` the pop that passes a publication kept
back in `deferred`; `PhysicsTake` is one turn of the physics callback's loop.  `expected` and
`orphans` are histories of what reached the application.

### EditJournal

`queue`, `revision`, `journal` belong to the runtime, `jobs`, `active`, `written`, `failure` to the
writer's `AsyncState`, `file` and `synced` to the disk.  A revision is the number of edits before it, a
file is its sequence of segments, so a size is a length; `Torn` is an incomplete segment.
`SubmitEdit` is the frame thread's call, `RejectEdit`, `CommitEdit` and `PublishEdit` the stages of
`process_edit_operation`, which the writer and a crash can interleave.  `Write`, `Sync` and `WriteFails`
are the writer's append: open, write, flush, fsync, and truncation to the old size on any failure.
A truncation whose own flush fails counts as not made.  `Open` is the load with its tail repair,
`Close` the destruction that drains the writer, `Crash` may strike at any step and keeps any part of the
file beyond `synced`.  `fate`, `history`, `late` and `cut` are histories.

### DesiredSets

The runtime thread keeps five tables that must name the same versions: `desired` (what the viewers
want), `chunk` and `jobs` (the scheduler), `app` (its own application records), `cached` (the resource
cache) and `dormant` (finished chunks kept for a return).  `renders` and `shapes` are the two apply
queues of its application service.  `sent` and `attempts` are the debt of collision payloads: what the
frame thread has yet to answer, and whether a repair of that generation is suppressed.

A delta `d` is the demand after a viewer event; `Added`, `Removed`, `Updated` are `build_delta`.  The
operators from `StatesMatch` to `JobsFit` are the preflight of `apply_delta` in its order, `Evicted`,
`Retainable`, `Remeshed`, `CollisionOnly` and `Reusable` name the cases of its loops.  `Applied` is the
state those loops leave, `ApplicationOf` one application record of it.  `ViewerEvent` is
`process_viewer_event` from the delta on: application, publication, and cached shapes offered.  Its last
step, the remesh pass, is `RemeshPass`, which `owed` forces to come next and which the loop also runs by
itself.  `Refusal` tells which deltas end the world and which wait.  `Edit` is `prepare_loaded_chunks` with
`apply_prepared`.  `PopJob`, `SampleDone`, `MeshAccepted` and `MeshConsumed` are the pipeline;
`early` says that a mesh job was dispatched with the callback that builds its collision at once, a choice
made from the record as it was at dispatch.  `CollisionRepairs` and `VisualRepairs` are the two repair passes.
`Install` and `Drop` are the frame thread's answers, `Matches` the test an answer has to pass
(`acknowledge_collision_residency`), which refuses every answer of revision 0.  A world starts at the revision of its
storage or its journal (`wt_read_only_world_runtime.cpp:87`), `InitialWorld` here: 0 if it was never edited.

A generation has one payload in flight at most, because the ring deduplicates them.  The model keeps only the
newest of a chunk: an answer to a payload that a newer generation's has overtaken in the ring is left out.  An
attempt lapses after 100 ms: a pass may find any of them lapsed.  Both repair passes wait for an empty
publication ring, which `PublicationQueue` shows the frame thread provides.

### AsyncStorage, PageCache and PageLoading

`storage` is the shared state of `WtAsyncStorageService` (request queue, active pages, completion ring,
phase), `workers` where each of its threads stands: idle, loading outside the lock, holding a loaded page
that waits for a completion slot, or gone.  `RequestPage`, `CancelQueued` and `PopCompletion` are functions of
that state because a handler of the runtime makes several of them in one step.  `Call` and `ServiceSpec` give
the service to any caller at all; that a page is in one place is proved of it first, then of the runtime below.

`PageLoading` is the sample half of the page-meshing runtime.  `records` pins pages and remembers at what
priority each was asked for; `Resolve` walks the dependencies of one record, `AcceptCompletion` hands a page to
every record that waits for it, `ResumeLoading` retries a bounded number of them, `CancelOrphans` withdraws
what nobody else asked for.  `WarmFocus` is the interaction's warm-up, the second user of the service.
Requests, edits, refreshes, removals and reprioritisations of chunks are the environment, `MaxEvents` of them;
meshing is one step (`MeshJob`).

### MeshWork

The mesh half.  `Dispatch` is `process_scheduler_jobs` with `dispatch_mesh_job`: admission, the roles the job is
prepared with, and where its field goes (`CaptureOf`: a reserved slot of the capture queue, deferred, or
nowhere).  A worker takes a job (`TakeJob`), runs it (`Execute`, where collision may leave early), and hands it
over, waits or leaves (`Complete`, `FallAsleep`: test and sleep are separate steps since the destructor
notifies without `completion_mutex`).  `AcceptCompletion` and `AcceptEarly` are the runtime's side, `SubmitDeferred`
gives a freed slot to a deferred capture.  `Promote` and `Withdraw` change roles while all that is under way.

Collision asked of a chunk whose visual is built does not make a new generation.  `Refreshed` is that branch of
`apply_delta`: the page record is released (and with it a capture that was deferred), the scheduler samples the same
generation again, and `refresh`, the application record's `collision_only_refresh`, is set; when the mesh is still in flight
or no job slot is free only the flag is set.  A job dispatched under the flag asks for collision alone (`JobRoles`)
and captures nothing (`CaptureOf`).  `ConsumeMesh`, the runtime's pop of the finished mesh, ends it; `Repair` is the collision
repair pass, which serves the debt from the cache and ends the refresh, refreshes again, or, without the flag, makes a
new generation.  What the cache holds and how many job slots are free is left open, so `Promote` may take any of its
branches; where collision is demanded it is taken to be owed.  `given` and `delivered` are histories: what became of a
generation's capture, and whether its collision was handed over.

### ChunkApplication, PublicationPolicy and Residency

`ChunkApplication` has the two records the frame thread keeps of a visual, with one function per operation of
`WtChunkApplicationService` and `WtGodotRenderSink` that GPU-resident publication uses.  `PublicationPolicy` has the
geometry on a line of cells: which retirements a replacement requires, when a set covers another, and the
cohort of a seed with its sewn faces.

`Residency` lets the runtime change plans, edit, complete, remesh and repair (`ChangePlan` to `Evict`), and
the frame thread drain what it published (`Frame`: expectations, placeholders, removals, then the flushes of
retirements, replacements and staged records).  The renderer is external: it holds the buffers of `captures`, and
`Prepare`, `Query`, `Activate` and `Reconcile` are the node's handlers of its calls; `LoseCapture` is a rejected or
evicted buffer.  `Activate` is the only step that swaps what is drawn.

### ChunkKeys, LodPlanner, LodStaging and ViewerPlanning

One axis of the three: a key is a level and a place, a family two children, a chunk two faces.
`Plan` and `Balance` are the planner, `StageToward`, `StageForeground` and `ForegroundTarget` the staged passes, all
functions of viewers, cut and what is drawn.  `ViewerPlanning` takes requests from the queue in one step (`Take...`)
and plans and applies them in another (`Settle`), or puts them back for a pending edit (`CancelPlan`); between the
two the game may queue, chunks may be drawn, and an edit may arrive.  Staging is a switch of the configuration,
`policy.staged` here and off by default (`wt_runtime_config.h:42`): without it the plan is the accepted cut at once, there is
no target and no staged pass, and `OutcomeOf` follows that branch (`wt_read_only_world_runtime_demand.cpp:844`).

## Runs

| Run | Configuration | Shows |
|---|---|---|
| `Scheduler` | 2 chunks over 1 record, 2 jobs, 1 completion, 2 revisions, 2 priorities | type and capacity, `NoLostWork`, `ReadyMeansMeshed`, `QueueFollowsPriority`, `EditDeltaOfRevision`, `ImplementsVersions` |
| `Publication` | 1 generation of 1 chunk, rings of 2 and 1 | rings within their slots, `PayloadAfterExpect`, `OneCollisionQueued`, `PushReturns`, `ExpectApplied` |
| `EditJournalRecovery` | 3 edits, 2 queue slots, 3 journal slots | `FileFollowsCommits`, `CleanStopKeepsEdits`, `RejectedNeverDurable`, `LateEditsRejected`, `SnapshotsOfWrittenEdits`, `CommittedBecomesDurable` |
| `DesiredTables` | 3 visual chunks, 2 active, 2 records, 1 dormant, 4 generations | tables within their sizes, `RecordsAgree` |
| `DesiredChunk` | 1 chunk from revision 0 on, both roles, up to 2 edits, every cache may evict | `EditsReachChunks`, `ShapesAreAnswered`, `CollisionDebtPaid`, `VisualDebtPaid` |
| `PageLoading` | 2 chunks sharing pages, 3 pages of which 1 is not stored, 2 workers | `ActiveIsOnePlace`, `NoLostRequest`, `MeshJobsHaveTheirPages`, `SamplesAreAnswered`, `StorageCloses` |
| `MeshWork` | 1 chunk with contending generations, 2 workers, every queue of 1 | `VisualServed`, `CollisionNotLost`, `MeshJobsAnswered` |
| `Residency` | 4 chunks of 2 levels, 2 plans, an edit, evictions and lost buffers | `NoOverlap`, `SwapsKeepCoverage`, `EditsAreAtomic`, `RefinementsAreSewn`, `QuietIsSettled` |
| `ViewerPlanning` | 8 cells of 3 levels, capacity 5, a viewer, a collision viewer, a lease, edits, staging off and on with both activation policies | `DrawnCoverageKept`, `QuietIsSettled`, `Converges` |
| `StopWakesWaits`, `DeltaPreflight`, `ViewerCancel` | as their passing siblings, or smaller | each refutes a sentence of the documents, see below |

### Bounds

*Scheduler.*  Two chunks contend for one record, two job slots let a result's follow-up compete with a request,
and one result fills the completion queue.  `MaxGeneration = MaxSequence = 3` allow a request, its replacement or
cancellation, and a third version while work of the first two is still with a worker, the longest
chain the code's comparisons (one record against one job or result) can tell apart.  The safety properties are
proved for all values; the run is there for liveness and for the mutants.

*Publication.*  One generation of one chunk: the safety properties are proved for all chunks and generations, and
what blocks, wakes and starves depends on neither.  Two priority slots hold an announcement and a payload, with
the normal ring's single slot full behind them.  Budgets of one are spent by one payload; a second is kept back.
`MaxDrain = 2` lets the drain both stop at its count and be cut by its deadline.

*Journal.*  Three edits give one on disk, one with the writer and one queued; a queue of two
overflows.  The revision and journal length follow from the edits, so the state space is finite without
a cap on crashes or restarts.

*Desired sets.*  The tables are exercised with three chunks and every capacity at two, so that a delta can
swap both active chunks at once, retain one, and crowd another out; with a record table no larger than the
active set (the program's is up to 64 larger) every free record counts.  Its two invariants are proved for any sizes, as
are those of `DesiredChunk`.  That run makes no edit.  Roles, edits, evictions and
repairs concern one chunk at a time but for the job slots, so `DesiredChunk` explores them with one chunk
and one job slot.  There `EventGenerations = 2` lets viewers, the edit and a promotion renew the chunk
once; repairs may go on to `MaxGeneration = 4`, since a repair whose generation is not answered must be able to
ask again.  TLC shows that no repair is held back by that bound, or `VisualDebtPaid` would fail.  The world starts
at revision 0, of which `CollisionDebtPaid` says nothing (see the observations), and two edits make shapes of an older
revision than the record's.  `DeltaPreflight` needs two chunks with roles, a space too large to exhaust, and stops at its counterexample.

*Page loading.*  A shared page, a missing page and a neighbour to warm are three pages; two request slots with one
reserved make the reserve matter, one completion slot holds a worker back, caches of one page evict at every
use.  `MaxEvents = 3` allows a request, its replacement and a lease or removal while a page is being loaded.
The three invariants are proved for all values; the run is there for liveness and for the mutants.

*Mesh work.*  Generations of one chunk contend like chunks do, and every queue has one slot.  Three demands, far
collision, near visual, and near work for both, reach both lanes, all three ways to capture, promotion and refresh in
three events: a request, a promotion that refreshes, and an edit, a withdrawal, a removal or a repair after it.

*Residency.*  Two fine chunks under a coarse one, beside a coarse neighbour: the smallest world with a refinement,
a collapse, a seam and an edit of two chunks.  Two events over three generations overlap any two of plan, edit,
eviction and lost buffer.

*Viewer planning.*  `DrawnCoverageKept` and `QuietIsSettled` speak of staged configurations: without staging the accepted
cut drops what is drawn before its replacement is, and only the retirement of regions in `Residency` keeps it on the screen.
`Converges` holds of both.  Two outer roots cut in half make families that cannot be split or collapsed; five chunks make
capacity bind.  Zones, leases and viewers are one each, inputs three.

### Fairness

*Scheduler.*  Weak fairness of popping, of answering and of applying: the runtime's loop does the
first and last in every iteration, and a worker answers or abandons each job it took
(`process_scheduler_jobs`, `process_storage_completions`).  Nothing is assumed of callers.

*Publication.*  Weak fairness of the runtime once inside a call and of the frame's call in progress,
strong fairness of the drain steps because they wait for a mutex the push takes and releases
repeatedly.  Both callbacks run every frame while the node is in the tree.  Pushing is not fair:
the runtime may have nothing to say.

*Journal.*  Weak fairness of the runtime's loop and of the writer; edits, stops, starts and crashes
owe nothing.

*Desired sets.*  The runtime's loop takes each of its steps in every turn, but a viewer event can come between any two, and
its remesh pass (`owed`) disables the others for a moment: strong fairness for those, weak for the pass itself,
which nothing disables.  Physics answers a payload that is published again and again (strong fairness of
`Install`); a single one it may refuse.  The two liveness properties assume in their statement that the
runtime's own apply queue is empty, see the observations below for what happens otherwise.

*Page loading and mesh work.*  `Fairness` there is `<>[]Busy => []<><<TRUE>>_vars`, with `Busy` the guard of the
threads' steps written out: while some thread of the program can take a step, some step is taken.  That is weak
fairness of the whole work, the weakest that makes a program run; demands and stops are bounded by `MaxEvents`.

*Residency and viewer planning* need none: `QuietIsSettled` says of every state that it is settled or somebody has a
step to take, `Converges` that the accepted cut changes finitely often whatever happens.

`CHECK_DEADLOCK FALSE` is set where the system really stops: when bounded counters and events are
used up and all work is settled, when the world was destroyed and the node is gone, or when a world of
`DesiredSets` has failed or has no generation left to issue.

## Proofs

Six modules prove theorems, for every value of the constants that the named assumptions admit; `PROJECT.json`
lists the theorems a reader should know of.  `SequenceLemmas` and `FoldInduction` are their library: lemmas about sequences
and folds that say nothing of this system.  Every theorem is of `SafetySpec` or `Spec => []...` by
an inductive invariant: the initial states satisfy it, each action preserves it (one lemma or step per action), and it
implies the property.  None of the properties is inductive by itself.

The assumptions are those of the modules: capacities are natural numbers, priorities and revisions numbers,
`None`, `NoEdit`, `Torn` and the like are not members of the sets they are told apart from, `Keys` of `DesiredSets` and `Pages` and
`Workers` where they are counted are finite.  `DesiredSets` also assumes that the record table holds the active set, as
the program's options do, and that the model's own bound on viewer events is within its bound on generations.  TLC evaluates each of them in a passing run.

### Scheduler

`TypeCorrect`, `WorkNeverLost`, `ReadyIsMeshed`, `QueueFollowsRecords`, `EditsFollowRecords`.  The invariant is
`Typed /\ Issued /\ OneWork /\ Versioned`:

* `Typed` adds to `TypeOK` that the queue and the record table are finite, which the cardinalities
  need.
* `Issued`: every generation and sequence number in use has been handed out, a chunk without a record
  has generation 0 and no job or result does, and sequence numbers identify jobs, queued and popped
  together.  So a new number is fresh, and everything older than a new record is stale.
* `OneWork` restates `NoLostWork` without cardinalities.  Work is *current* if it names its record's generation.
  Current work is of the stage the record awaits (so a generation that settled has none left, which is
  what makes `RequestSameGenerationRefresh` safe), there is at most one piece, and a waiting record has
  at least one.
* `Versioned`: current work was made for the record's own revision, has its priority while queued,
  and once answered as a mesh is in `meshed`.

Forgetting a chunk renumbers the completion queue; `ForgottenResults` gives the renaming once.  `OneWorkCounted` turns
`OneWork` back into the statement with cardinalities.

`RefinesVersions` is the safety part of `ImplementsVersions`: the initial state is one of `ChunkVersions`, and each action
opens, reopens, settles or forgets one version, spends a number, or keeps every version (`Keeps`), under the same
invariant.  That a pending version settles is left to the run.

### Publications

`TypeCorrect`, `PayloadsFollowExpect`, `OneCopyQueued`.  A payload may be in the priority ring, the normal ring, the waiting
push or the deferred slot, and the pops take from the middle of a ring, so the invariant says for each place where
the payload's `ExpectChunk` is: earlier in the priority ring or applied (`RingInv`); for what the runtime has
announced, covered or itself waiting for room (`AnnouncedInv`); for a deferred payload, applied (`DeferredInv`).  `CopyInv`
counts collision payloads, the waiting one included.  The pops select by priority among the entries nothing
earlier of the same version stands before, which is why removing one never strands another.

### Edits on disk

`TypeCorrect`, `FileAlwaysFollows`, `CleanStopComplete`, `RejectedLeavesNothing`, `LateNeverCommitted`, `SnapshotsAreOfTheFile` (an action
property).  While the world is open and no write has failed, the file is the finished beginning of the history and the
segments in flight are the rest of it, in order, each with the offset it will be written at (`ChainInv`); a torn segment
can only follow that beginning.  After a failure nothing is in flight any more, so what is on disk can only be a
beginning with at most one torn segment (`FileInv`), which is what `Open` repairs; a crash cuts the file no shorter than
what was synced.  `QueueInv` says that an edit is queued once and before its commit, which gives the two properties
of rejected and late edits.

### Pages

`PageInOnePlace` is about the service alone: in `ServiceSpec`, where any caller may request, cancel or pop at any time,
queue, hands and completion ring hold distinct pages and the active pages are those three together (`OnePlace`).

`NoRequestIsLost`, `MeshJobsAreBacked` and `LoadingKeepsPlaces` are about the runtime that makes those calls, several in
one step.  Their invariant, `LoadingInv`, adds to that of the service while the world runs:

* `Owed`: every page a record waits for is active, and its request, if still queued, is one the warm-up may not
  cancel (`Safe`).  `NoLostRequest` says only the first, which is not inductive: the interaction's warm-up cancels
  what it asked for, so a request that page meshing came to share must be known to stay.
* `Answers`: of a chunk's current generation there is one trace.  A record without an answer means the chunk is
  still sampling; a result means the record is the one its mesh job will need, all pages pinned, or gone if the sample
  failed; a mesh job has that record.  Results and records of older generations are left free, as they are in the program.

The handlers fold over sets: the pages of a record (`CancelOrphans`, `Resolve`), the pages around the focus, the records
that wait for a page, the loading records to resume, the completions to flush, the chunks to forget.  The lemma `FoldHolds` of
`FoldInduction` proves once that what holds of the initial value and is kept by each round holds of the whole fold: the equation
that defines the fold has a solution on the subsets of any finite set, by induction on their size.  Each
fold instantiates it with its round and with what the round keeps (`Sound`, with the pairs of record and page whose turn
is still to come set aside: while a page is being handed over, those it has not reached yet wait for something no longer
on its way).

### Mesh jobs

`ReadyIsDrawable` and `CollisionDelivered`, from `Inductive`.  The invariant is `Fit /\ PoolDistinct /\ ResultsDistinct`.

* `Fit` follows each chunk's record.  A job or answer of its generation is dispatched for it and repeats what
  it remembers (roles, field), and a mark a worker left on a record (`delivered`, an early collision)
  precedes the answer that relies on it.  A demanded chunk has a role, so one without a visual role owes
  collision.  A record with a field either still has its capture under way (a job that holds it, `deferred`) or `given`
  says it was captured or abandoned; that is what a promotion accepted by a record in flight relies on.  `RefreshFits`
  is what lets a refresh run without any field: the generation was captured before or lost its capture to a refresh, its record
  holds it still, or its mesh failed.
* `PoolDistinct` and `ResultsDistinct`: of one generation there is at most one job, with a worker, queued or answered, that its record
  still waits for, and at most one result.  A refresh meshes the same generation a second time, so the generation no longer tells a
  late job or result from the current one; that the earlier ones are gone by then has to be known.

Work of an older generation never matches a record again, because generations are drawn once (`IssuedFits`).

### Desired sets

`TablesAgree`, `EditsArrive`, `ShapesAnswered` (an action property).  `RecordsAgree` is inductive with the types alone once each delta is
split into what it adds (afresh or reused from dormancy), removes (retained or gone), updates (remeshed, promoted for
collision only, or kept) and leaves alone: the new application, scheduler and dormant tables are described chunk by
chunk (`ApplicationOf`, `VersionsAfter`) and compared in each case.  The dormant list is a sequence rebuilt from the
places that stay (`Staying`, `Ascending`) and what is retained; that an enumeration of a finite set meets every member needs
`Keys` finite.  `EditsReachChunks` holds because every version is requested at the committed revision, which no edit is ahead of
(`TouchedPast`), and a dormant chunk is reused only at that revision.  None of this needs a capacity.

`TablesNeverOverflow` is the capacities, on top of the agreement.  A delta leaves as many records as there were, less
those evicted from dormancy and those removed, plus those retained and those added afresh, and what may be retained is
counted from just that room.  The dormant list loses at least the chunks reused and evicted before it takes the retained
ones.  New jobs find the places that `JobsFit`, or the repair's own test of the room left, counted.  The expectations are
for chunks the viewers want, of which no delta lets in more than the active capacity (`WantedFit`).  A record's version has
a number (`Numbered`), or an absent chunk could be taken for a retained one.

### Only model-checked

* Liveness: `ImplementsVersions`' fairness part, `PushReturns`, `ExpectApplied`, `CommittedBecomesDurable`, `SamplesAreAnswered`, `StorageCloses`,
  `MeshJobsAnswered`, `CollisionDebtPaid`, `VisualDebtPaid`, `Converges`.  The prover has no rules for fairness and `ENABLED`.
* `Residency`: `NoOverlap`, `SwapsKeepCoverage`, `EditsAreAtomic`, `RefinementsAreSewn`, `QuietIsSettled`.  They rest on what
  the plan, the publications in the outbox, the retirements and the staging sets have to do with each other in every
  order of draining, and on geometry the module does not assume of its chunks (plans that tile, levels that nest).
  Not attempted.
* `ViewerPlanning`: `DrawnCoverageKept`, `QuietIsSettled`.  The planner's functions in `LodPlanner` and `LodStaging` are `RECURSIVE`
  operators, for which the prover has no SMT backend.

## What disagrees with the documents

Three disagreements have a run that shows them.

* `StopWakesWaits`: `request_stop` notifies without `publication_mutex_`, so the notification can
  fall between a push's test and its sleep.  `stop_world` alone does no harm, since later frames' pops
  wake the push, but the service's destructor joins at once and then waits for ever.  The streaming
  contract says that stopping wakes all waits.
* `DeltaPreflight`: the preflight of a delta does not count the job slots of collision-only promotions, but the
  update loop takes them.  An addition in the same delta then finds the queue full, and the world ends with the
  delta half applied; the workload contract says such a delta is rejected before any mutation.
* `ViewerCancel`: a batch of queued viewer requests is taken at once, but when its plan is cancelled for a pending
  edit only the first of them goes back to the queue.  The charter says the newest equivalent event stays queued.

Further observations come from modelling and reading, and have no run of their own.

* Publication: with a publication kept back by the render budget, `_process` pops collision payloads too, answers
  them as invalid input and drops them (`world_transvoxel_terrain_streaming.cpp:408`); the comment at line 540 says only
  `_physics_process` removes them.
* Journal: `EditCommitted` is published (`wt_read_only_world_runtime_edit.cpp:278`) when the segment is queued for the writer;
  PRODUCTION_EDIT_JOURNAL_CONTRACT.md:52 says no commit success is published before the durable append.  Lines 25-28
  of it say that only the first of two transactions with one base commits; `submit_edit` and `rebase_queued_edit`
  commit both when both were current when queued, and a test expects it.  After a failed fsync whose truncation
  fails too, restarting the world in the same process accepts the segment, and nothing syncs it before the next
  append: `synced` stays behind `file` in `Open`.
* Repairs: cached payloads are submitted to the apply queues of the runtime's own application service
  (`wt_desired_set_runtime.cpp:433`, 558, 633, 643), which nothing in the runtime applies.  Once one is there the
  collision repair pass returns at once for ever (`wt_read_only_world_runtime_completion.cpp:557`), and the visual one for
  render payloads; the charter promises a retry while debt remains.  A refresh that finds the job queue full
  (line 714) ends the world, while the visual repair and the remesh pass wait.
* Storage: a duplicate request takes over the queued one's priority even when it is lower
  (`wt_async_storage_service.cpp:403`); M5_ASYNC_STORAGE_CONTRACT.md:54 says it may raise it.  The interaction reserve can be
  filled by requests demoted later, and warm-up pages that are refused are not asked for again.
* Pool shutdown: `~AsyncState` notifies `completion_space` without `completion_mutex`
  (`wt_page_meshing_runtime.cpp:124`), so a worker between its test and its sleep is joined for ever;
  PRODUCTION_LIFECYCLE_CONTRACT.md:102 says final destruction joins owned native threads.  `FallAsleep` and `NotifyAll` in
  `MeshWork` are these two steps, and `MeshJobsAnswered` speaks of the running world only.
* Revision 0: `acknowledge_collision_residency` refuses an answer of revision 0 as invalid (`wt_chunk_application.cpp:265`),
  so in a world never edited no collision is ever recorded as current, and the repair pass publishes the same shapes for
  ever.  The charter says the retry becomes dormant once every record holds its collision, and
  PRODUCTION_CLEAN_INSTALL_SOAK_CONTRACT.md:53 that revision zero is valid.  With `app[k].world # 0` taken out of
  `CollisionDebtPaid`, `DesiredChunk` fails with just that cycle.
* Refreshes: a near chunk meshed for collision keeps its field as a deferred capture; the viewers ask for its visual, which
  that capture will serve, drop collision and ask for it again while the GPU queue is full.  The refresh releases the page record with
  the capture (`wt_desired_set_runtime.cpp:451`), and the generation is never captured; a visual repair has to make a new
  one.  The charter says the same generation resumes its capture.  `VisualServed` names that case (`abandoned`); it takes four events.
* Captures: a record in `AwaitingGpuCapture` whose visual role is withdrawn stays there until the role or the chunk
  goes (`Withdrawn` in `MeshWork`).
* Residency: `reconcile_gpu_resident_render_chunks` deactivates a drawn visual on an update of its mask alone
  (`world_transvoxel_terrain_gpu_resident.cpp:1972`), which is the exception in `SwapsKeepCoverage`; a second mask update of a
  generation is dropped while the first is queued (`wt_read_only_world_runtime_thread.cpp`'s claim), which is `MasksArrived`;
  a member of an edit that is meshed again loses its membership and the others wait for ever (`NoEditStranded`);
  buffers lost after a placeholder was accepted are never asked for again (`NothingLost`).
* Planning: refresh passes use up the activation wake-up without refining the rest; with viewer activation every
  pass keeps cells outside the focus at their base level; a focus refresh deferred and then overtaken by a
  rejected update of its viewer is lost; a rejected staged pass makes the runtime spin.
* Edited samples (read only): an SDF edit changes samples within radius + 1, while the page tests use
  radius + smoothing, so two pages may disagree on a shared sample; a compacted procedural snapshot's overlay pages are
  not consulted after reopening; a left-over `.tmp` directory makes every later snapshot fail.

## What is not modelled

Numeric code (meshing, collision building, edit geometry, byte formats), calls into Godot's servers, the GPU
driver, telemetry and diagnostics: no protocol state, or not this code.  The snapshot store is a synchronous library
call whose moment `EditJournal` has; its files and rename are not modelled.  Counters of 64 bits are taken
not to wrap: at one request per microsecond they last half a million years.  `Residency` leaves out collision roles
and the sink's own retirements; `ViewerPlanning` works on one axis with families of two and leaves out the collision
flags of visual demands; `PageCache` counts entries, not bytes.

## Plan

Proofs: the invariant behind `NoOverlap` of `Residency`, with the geometry its chunks have, and from it `SwapsKeepCoverage`; that
every handler of `PageLoading` is a sequence of `Call`s of `ServiceSpec`; that `PageLoading` with `MeshWork` implements the
`workers` of `StreamScheduler`.

Models: `WorldLifecycle`'s start variants; the snapshot store's staging and rename under crashes; the runtime's own
render acknowledgements and the node's collision residency as a component beside `Residency`.
