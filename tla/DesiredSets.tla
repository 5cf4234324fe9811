----------------------------- MODULE DesiredSets -----------------------------
(***************************************************************************)
(* How the runtime thread turns what the viewers want into work, and keeps *)
(* its five tables together: the desired set, the scheduler's records and  *)
(* job queue, its own application records, the resource cache and the list *)
(* of dormant chunks.  A viewer event replaces the desired set; the delta  *)
(* is preflighted, applied to every table and published.  Edits replace    *)
(* generations; completed meshes fill the cache; repairs look for roles    *)
(* that nothing serves.  The frame thread answers collision payloads.      *)
(*                                                                         *)
(* Abstracted: priorities and supporter counts (they reorder work), the    *)
(* order of keys inside a delta (any order), storage pages, transition     *)
(* masks, publications other than collision payloads, and the shapes that a *)
(* delta that has to wait for job slots already rebuilt.  Pages load and    *)
(* meshes build: a chunk fails only for want of a job slot.  The mesher is *)
(* the CPU one: no GPU capture is ever pending.                            *)
(***************************************************************************)
EXTENDS Integers, Sequences, FiniteSets, FiniteSetsExt, SequencesExt, Functions

CONSTANTS
    Keys,               \* chunk keys the viewers may ask for
    Demands,            \* sets of roles they may ask for
    ActiveCapacity,     \* desired chunks, application records, jobs, apply queues
    RecordCapacity,     \* scheduler records: the active ones and the dormant
    DormantCapacity,
    InitialWorld,       \* the opened world's revision: 0 if it was never edited
    MaxWorld,           \* edits stop at this world revision
    EventGenerations,   \* viewers, edits and evictions stop at this generation
    MaxGeneration,      \* repairs stop at this one
    Evictable,          \* resources whose cache may run full
    NoShape             \* collision_ready = false

\* Chunk keys are integers of fixed width: there are finitely many.
ASSUME DesiredSetsAssumption ==
    /\ IsFiniteSet(Keys)
    /\ ActiveCapacity \in Nat /\ RecordCapacity \in Nat /\ DormantCapacity \in Nat
    /\ ActiveCapacity <= RecordCapacity
    /\ InitialWorld \in Nat /\ MaxWorld \in Nat /\ InitialWorld <= MaxWorld
    /\ EventGenerations \in Nat /\ MaxGeneration \in Nat
    /\ EventGenerations <= MaxGeneration
    /\ Demands \subseteq SUBSET {"visual", "collision"}
    /\ Evictable \subseteq {"mesh", "render", "collision"} /\ NoShape \notin Nat

VARIABLES
    desired,            \* chunk -> roles the viewers want it for
    chunk,              \* chunk -> scheduler record
    jobs,               \* queued scheduler jobs, those of replaced generations too
    issued,             \* the scheduler's generation counter
    early,              \* chunks whose mesh was dispatched with a collision callback
    meshed,             \* chunks whose mesh waits to be consumed
    app,                \* chunk -> the runtime's own application record
    cached,             \* chunk -> resources cached for its generation
    dormant,            \* retained <<key, generation>> pairs, oldest first
    renders,            \* length of the runtime's own render apply queue
    shapes,             \* <<key, generation>> in its own collision apply queue
    sent,               \* chunk -> the last version whose payload physics has to answer
    attempts,           \* chunk -> what its version's collision debt waits for
    remeshes,           \* pending_transition_remeshes_
    owed,               \* the viewer event's trailing remesh pass is still to run
    world,              \* the committed world revision
    touched,            \* history: chunk -> the last revision that edited it
    failure             \* what ended the world

vars == <<desired, chunk, jobs, issued, early, meshed, app, cached, dormant, renders,
          shapes, sent, attempts, remeshes, owed, world, touched, failure>>

Roles == {"visual", "collision"}

Resources == {"mesh", "render", "collision"}

Waits == {"None", "Mesh", "Answer"}

Failures == {"None", "StateMismatch", "RecordCapacity", "JobCapacity", "Scheduler",
             "Application", "CollisionRepair"}

NoChunk == [status |-> "Absent", generation |-> 0, world |-> 0]

NoApplication == [generation |-> 0, world |-> 0, roles |-> {}, shape |-> NoShape,
                  staged |-> FALSE, refresh |-> FALSE]

-----------------------------------------------------------------------------
(* The tables.                                                             *)

Recorded == {k \in Keys : chunk[k].status # "Absent"}

Expected == {k \in Keys : app[k].generation # 0}

DormantKeys == {dormant[i][1] : i \in DOMAIN dormant}

Room(queue) == ActiveCapacity - Cardinality(queue)

\* The stage a record waits for has been taken from the queue by a worker.
AtWork(k, status, stage) ==
    /\ chunk[k].status = status
    /\ <<k, chunk[k].generation, stage>> \notin jobs

NoPayload == [generation |-> 0, world |-> 0]

Payload(version) == [generation |-> version.generation, world |-> version.world]

\* The record of a version just requested.
Version(generation, revision) ==
    [status |-> "Sampling", generation |-> generation, world |-> revision]

\* Variant: the readiness of the collision is carried as of the new revision.
ExpectedAsCurrent(k, version, roles, staged, preserve) ==
    [generation |-> version.generation, world |-> version.world, roles |-> roles,
     shape |-> IF preserve /\ "collision" \in roles \cap app[k].roles
                  /\ app[k].shape # NoShape
               THEN version.world ELSE NoShape,
     staged |-> staged, refresh |-> FALSE]

\* expect_chunk for a chunk without a record, or with one of an older generation.
Expectation(k, version, roles, staged, preserve) ==
    [generation |-> version.generation, world |-> version.world, roles |-> roles,
     shape |-> IF preserve /\ "collision" \in roles \cap app[k].roles
               THEN app[k].shape ELSE NoShape,
     staged |-> staged, refresh |-> FALSE]

\* collision_work_required: the shape does not stand for the record's revision.
CollisionDebt(k) ==
    /\ "collision" \in app[k].roles
    /\ app[k].shape # app[k].world

\* Numbers for the versions requested for the chunks S, in any order.
Numberings(S) == Bijection(S, (issued + 1)..(issued + Cardinality(S)))

-----------------------------------------------------------------------------
(* The delta `d' from the desired set to d.roles and its preflight.  The     *)
(* chunks of d.moved stay desired and only their priority changes.             *)

Added(d) == {k \in Keys : desired[k] = {} /\ d.roles[k] # {}}

Removed(d) == {k \in Keys : desired[k] # {} /\ d.roles[k] = {}}

Updated(d) ==
    {k \in Keys : desired[k] # {} /\ d.roles[k] # {}
                    /\ (d.roles[k] # desired[k] \/ k \in d.moved)}

Gains(d, role) == {k \in Updated(d) : role \in d.roles[k] \ app[k].roles}

Withdrawn(d) == {k \in Updated(d) : "collision" \in app[k].roles \ d.roles[k]}

\* role_promotion_requires_remesh: the mesh under way, or done, misses the role.
NeedsRemesh(k) ==
    \/ chunk[k].status = "Ready"
    \/ AtWork(k, "Meshing", "Mesh")

StatesMatch(d) ==
    /\ \A k \in Removed(d) :
          /\ k \in Recorded
          /\ IF k \in Expected THEN app[k].generation = chunk[k].generation
                               ELSE chunk[k].status = "Ready"
    /\ \A k \in Updated(d) :
          k \in Recorded \cap Expected /\ app[k].generation = chunk[k].generation
    /\ \A k \in Added(d) :
          /\ k \in Recorded => <<k, chunk[k].generation>> \in Range(dormant)
          /\ k \notin Expected

\* Variant: a dormant chunk is reused whatever revision it was built for.
ReusableAtAnyRevision(d) ==
    {k \in Added(d) \cap DormantKeys :
        /\ <<k, chunk[k].generation>> \in Range(dormant)
        /\ chunk[k].status = "Ready"
        /\ "visual" \in d.roles[k] => "render" \in cached[k]
        /\ "collision" \in d.roles[k] => "collision" \in cached[k]}

\* Dormant chunks that come back as they are.
Reusable(d) ==
    {k \in Added(d) \cap DormantKeys :
        /\ <<k, chunk[k].generation>> \in Range(dormant)
        /\ chunk[k].status = "Ready" /\ chunk[k].world = world
        /\ "visual" \in d.roles[k] => "render" \in cached[k]
        /\ "collision" \in d.roles[k] => "collision" \in cached[k]}

Outdated(d) == (Added(d) \cap DormantKeys) \ Reusable(d)

Fresh(d) == Added(d) \ Reusable(d)

FreeRecords == RecordCapacity - Cardinality(Recorded)

Shortfall(d) ==
    Max({0, Cardinality(Fresh(d)) - FreeRecords - Cardinality(Outdated(d))
               - Cardinality(Removed(d))})

\* The oldest dormant chunks make room for records the delta needs.
Crowded(d) ==
    LET others == {i \in DOMAIN dormant : dormant[i][1] \notin Added(d)}
        ahead(i) == Cardinality({m \in others : m < i})
    IN  {dormant[i][1] : i \in {m \in others : ahead(m) < Shortfall(d)}}

Evicted(d) == Outdated(d) \cup Crowded(d)

\* The places of the dormant list whose chunks stay in it, in their order.
Staying(d) == {i \in DOMAIN dormant : dormant[i][1] \notin Added(d) \cup Evicted(d)}

Ascending(S) == {f \in [1..Cardinality(S) -> S] :
                    \A m, n \in 1..Cardinality(S) : m < n => f[m] < f[n]}

RecordsFit(d) ==
    /\ Cardinality(Fresh(d)) <=
          FreeRecords + Cardinality(Evicted(d)) + Cardinality(Removed(d))
    /\ Cardinality(Added(d)) <= Room(Expected) + Cardinality(Removed(d))

\* Variant: removals are retained without looking for a free record.
RetainableIntoSlots(d) ==
    LET ready == {k \in Removed(d) : chunk[k].status = "Ready"}
        slots == DormantCapacity - Len(dormant) + Cardinality(Reusable(d))
                    + Cardinality(Evicted(d))
    IN  kSubset(Min({Cardinality(ready), Max({0, slots})}), ready)

\* Variant: a chunk is retained whatever it is waiting for.
RetainableInAnyState(d) ==
    LET slots == DormantCapacity - Len(dormant) + Cardinality(Reusable(d))
                    + Cardinality(Evicted(d))
        records == FreeRecords + Cardinality(Evicted(d)) + Cardinality(Removed(d))
                      - Cardinality(Fresh(d))
    IN  kSubset(Min({Cardinality(Removed(d)), Max({0, slots}), records}), Removed(d))

\* Which removed chunks become dormant: as many Ready ones as there is room for.
Retainable(d) ==
    LET ready == {k \in Removed(d) : chunk[k].status = "Ready"}
        slots == DormantCapacity - Len(dormant) + Cardinality(Reusable(d))
                    + Cardinality(Evicted(d))
        records == FreeRecords + Cardinality(Evicted(d)) + Cardinality(Removed(d))
                      - Cardinality(Fresh(d))
    IN  kSubset(Min({Cardinality(ready), Max({0, slots}), records}), ready)

\* Promotions that need a new generation.
Remeshed(d) == {k \in Gains(d, "visual") : NeedsRemesh(k)}

\* Collision for a chunk whose visual mesh is already under way or done.
CollisionOnly(d) ==
    {k \in Gains(d, "collision") : NeedsRemesh(k) /\ "visual" \in app[k].roles}

Submitted(d) == {k \in CollisionOnly(d) : "collision" \in cached[k]}

Reopenable(d) ==
    {k \in CollisionOnly(d) \ Submitted(d) : chunk[k].status = "Ready"}

JobsFit(d) ==
    Room(jobs) >= Cardinality(Fresh(d)) + Cardinality(Remeshed(d))

\* What apply_delta submits to the runtime's own apply queues.
RenderSubmissions(d) ==
    {k \in Gains(d, "visual") \ Remeshed(d) : "render" \in cached[k]}
        \cup {k \in Reusable(d) : "visual" \in d.roles[k]}

ShapeSubmissions(d) ==
    {<<k, chunk[k].generation>> :
        k \in Submitted(d) \cup {r \in Reusable(d) : "collision" \in d.roles[r]}}

QueuesFit(d) ==
    /\ renders + Cardinality(RenderSubmissions(d)) <= ActiveCapacity
    /\ Cardinality(shapes \cup ShapeSubmissions(d)) <= ActiveCapacity

\* The job slots left once the forgotten chunks took their jobs along.
SlotsAfter(forgotten) == Room({j \in jobs : j[1] \notin forgotten})

Accepted(d) ==
    /\ Cardinality({k \in Keys : d.roles[k] # {}}) <= ActiveCapacity
    /\ StatesMatch(d) /\ RecordsFit(d) /\ JobsFit(d)

\* contains_replacement: what is added stands in for something withdrawn.
Replaces(d) ==
    \/ Removed(d) # {}
    \/ \E k \in Updated(d) : "visual" \in desired[k] \ d.roles[k]

\* Collision payloads the event publishes from the cache.
Offered(d) ==
    {k \in Updated(d) \ Remeshed(d) :
        "collision" \in d.roles[k] /\ cached[k] \cap {"mesh", "collision"} # {}}

OfferedAgain(d) == {k \in Reusable(d) : "collision" \in d.roles[k]}

\* Without a collision viewer, chunks on their way out lend physics the shape
\* they were not asked for, if visual viewers own collision.
Outgoing(d) ==
    {k \in Removed(d) :
        "collision" \notin desired[k] /\ cached[k] \cap {"mesh", "collision"} # {}}

\* The application record of k once the delta is applied and k has `version'.
ApplicationOf(d, k, version) ==
    CASE k \in Removed(d) -> NoApplication
      [] k \in Added(d) -> Expectation(k, version, d.roles[k], Replaces(d), FALSE)
      [] k \in Remeshed(d) -> Expectation(k, version, d.roles[k], TRUE, TRUE)
      [] k \in CollisionOnly(d) ->
            [app[k] EXCEPT !.roles = @ \cup {"collision"}, !.shape = NoShape,
                           !.refresh = @ \/ k \notin Submitted(d)]
      [] k \in Updated(d) \ (Remeshed(d) \cup CollisionOnly(d)) ->
            [app[k] EXCEPT !.roles = d.roles[k],
                           !.shape = IF k \in Gains(d, "collision") THEN NoShape ELSE @,
                           !.staged = @ \/ "visual" \in d.roles[k] \ desired[k]]
      [] OTHER -> app[k]

ApplicationAfter(d, version) == [k \in Keys |-> ApplicationOf(d, k, version[k])]

CachedAfter(d, gone, lent) ==
    [k \in Keys |->
        IF k \in gone THEN {}
        ELSE IF k \in Offered(d) \cup lent THEN cached[k] \cup {"collision"}
        ELSE IF k \in Withdrawn(d) THEN cached[k] \ {"collision"}
        ELSE cached[k]]

Running == failure = "None" /\ ~owed

-----------------------------------------------------------------------------
Init ==
    /\ desired = [k \in Keys |-> {}]
    /\ chunk = [k \in Keys |-> NoChunk]
    /\ jobs = {} /\ issued = 0
    /\ early = {} /\ meshed = {}
    /\ app = [k \in Keys |-> NoApplication]
    /\ cached = [k \in Keys |-> {}]
    /\ dormant = <<>>
    /\ renders = 0 /\ shapes = {}
    /\ sent = [k \in Keys |-> NoPayload]
    /\ attempts = [k \in Keys |-> "None"]
    /\ remeshes = {} /\ owed = FALSE
    /\ world = InitialWorld /\ touched = [k \in Keys |-> 0]
    /\ failure = "None"

Deltas ==
    {d \in [roles : [Keys -> Demands \cup {{}}], moved : SUBSET Keys] :
        /\ \A k \in d.moved : desired[k] # {} /\ d.roles[k] = desired[k]
        /\ d.roles # desired \/ d.moved # {}}

\* Chunks that get a version of their own, and chunks that are forgotten.
Renewed(d) == Fresh(d) \cup Remeshed(d)

Gone(d, retained) == Evicted(d) \cup (Removed(d) \ retained)

\* The records once the delta is applied.
VersionsAfter(d, gone, number, reopened) ==
    [k \in Keys |->
        IF k \in Renewed(d) THEN Version(number[k], world)
        ELSE IF k \in reopened THEN [chunk[k] EXCEPT !.status = "Sampling"]
        ELSE IF k \in gone THEN NoChunk
        ELSE chunk[k]]

\* A collision-only promotion of a Ready chunk takes a job slot while there is
\* one and else waits for a repair.
Reopenings(d, gone) ==
    kSubset(Min({Cardinality(Reopenable(d)), SlotsAfter(gone) - Cardinality(Remeshed(d))}),
            Reopenable(d))

\* apply_delta and publish_delta: what the delta does to every table but the
\* dormant list.
Applied(d, retained, lent, number, reopened) ==
    LET gone == Gone(d, retained)
        offered == Offered(d) \cup OfferedAgain(d)
        version == VersionsAfter(d, gone, number, reopened)
    IN  /\ Cardinality(reopened \cup Renewed(d)) <= SlotsAfter(gone)
        /\ issued + Cardinality(Renewed(d)) <= EventGenerations
        /\ desired' = d.roles
        /\ chunk' = version
        /\ issued' = issued + Cardinality(Renewed(d))
        /\ jobs' = {j \in jobs : j[1] \notin gone}
                      \cup {<<k, version[k].generation, "Sample">> :
                               k \in Renewed(d) \cup reopened}
        /\ app' = ApplicationAfter(d, version)
        /\ cached' = CachedAfter(d, Renewed(d) \cup gone, lent)
        /\ early' = early \ (Removed(d) \cup Renewed(d) \cup reopened)
        /\ meshed' = meshed \ (Removed(d) \cup Renewed(d) \cup reopened)
        /\ renders' = renders + Cardinality(RenderSubmissions(d))
        /\ shapes' = shapes \cup ShapeSubmissions(d)
        /\ sent' = [k \in Keys |->
               IF k \in offered \cup lent THEN Payload(chunk[k]) ELSE sent[k]]
        /\ attempts' = [k \in Keys |->
               IF k \in offered THEN "Answer"
               ELSE IF k \in Removed(d) \cup Renewed(d) THEN "None"
               ELSE attempts[k]]
        /\ remeshes' = remeshes \cup
               {k \in Reopenable(d) \ reopened : "mesh" \notin cached[k]}
        /\ owed' = TRUE

\* The dormant list keeps what stays in its order, then come the retained.
Rested(d, retained) ==
    \E place \in Ascending(Staying(d)),
       order \in SetToSeqs({<<k, chunk[k].generation>> : k \in retained}) :
        dormant' = [i \in 1..Cardinality(Staying(d)) |-> dormant[place[i]]] \o order

\* process_viewer_event.
ViewerEvent(d) ==
    /\ Running
    /\ Accepted(d) /\ QueuesFit(d)
    /\ \E retained \in Retainable(d) :
          /\ Rested(d, retained)
          /\ \E lent \in {{}, Outgoing(d)}, number \in Numberings(Renewed(d)),
                reopened \in Reopenings(d, Gone(d, retained)) :
                Applied(d, retained, lent, number, reopened)
    /\ UNCHANGED <<world, touched, failure>>

\* What ends the world while a delta is preflighted or applied.  A delta that
\* finds no room for its jobs waits, unless the queue is empty already.
Refusal(d) ==
    LET enough == \E retained \in Retainable(d) :
            Cardinality(Reopenable(d) \cup Renewed(d)) <= SlotsAfter(Gone(d, retained))
    IN  IF ~StatesMatch(d) THEN "StateMismatch"
        ELSE IF ~RecordsFit(d) THEN "RecordCapacity"
        ELSE IF ~JobsFit(d) THEN IF jobs = {} THEN "JobCapacity" ELSE "None"
        ELSE IF ~enough /\ Renewed(d) # {} THEN "Scheduler"
        ELSE IF ~QueuesFit(d) THEN "Application"
        ELSE "None"

ViewerEventFails(d) ==
    /\ Running
    /\ Cardinality({k \in Keys : d.roles[k] # {}}) <= ActiveCapacity
    /\ issued < EventGenerations
    /\ Refusal(d) # "None"
    /\ failure' = Refusal(d)
    /\ UNCHANGED <<desired, chunk, jobs, issued, early, meshed, app, cached, dormant, renders,
                   shapes, sent, attempts, remeshes, owed, world, touched>>

\* New versions of the chunks K at `revision': the jobs and expectations that
\* replace the old ones, in whatever order the keys have.
Regenerate(K, revision, staged) ==
    \E number \in Numberings(K) :
        /\ issued' = issued + Cardinality(K)
        /\ chunk' = [k \in Keys |-> IF k \in K THEN Version(number[k], revision) ELSE chunk[k]]
        /\ jobs' = jobs \cup {<<k, number[k], "Sample">> : k \in K}
        /\ app' = [k \in Keys |->
              IF k \in K THEN Expectation(k, Version(number[k], revision), desired[k],
                                           k \in staged, k \in staged)
              ELSE app[k]]
        /\ cached' = [k \in Keys |-> IF k \in K THEN {} ELSE cached[k]]
        /\ attempts' = [k \in Keys |-> IF k \in K THEN "None" ELSE attempts[k]]
        /\ early' = early \ K /\ meshed' = meshed \ K

\* process_pending_transition_remeshes: a full queue ends the pass, and chunks
\* behind it in the list are not looked at.
RemeshPass ==
    LET lost == {k \in remeshes : desired[k] = {}}
        busy == {k \in remeshes : chunk[k].status \in {"Sampling", "Meshing"}}
        due == remeshes \ (lost \cup busy)
    IN  /\ failure = "None"
        /\ \/ owed
           \/ lost # {}
           \/ due # {} /\ Room(jobs) > 0
        /\ \E K \in kSubset(Min({Cardinality(due), Room(jobs)}), due) :
           \E unseen \in SUBSET lost :
              /\ unseen # {} => K # due
              /\ issued + Cardinality(K) <= MaxGeneration
              /\ Regenerate(K, world, K)
              /\ remeshes' = remeshes \ (K \cup (lost \ unseen))
        /\ owed' = FALSE
        /\ UNCHANGED <<desired, dormant, renders, shapes, sent, world, touched, failure>>

\* The loaded chunks an edit of T replaces.
EditTargets(T) == {k \in T : desired[k] # {}}

\* A committed edit: prepare_loaded_chunks and apply_prepared.
Edit(T) ==
    /\ Running /\ world < MaxWorld
    /\ Cardinality(EditTargets(T)) <= Room(jobs)
    /\ issued + Cardinality(EditTargets(T)) <= EventGenerations
    /\ world' = world + 1
    /\ touched' = [k \in Keys |-> IF k \in T THEN world + 1 ELSE touched[k]]
    /\ Regenerate(EditTargets(T), world + 1, EditTargets(T))
    /\ UNCHANGED <<desired, dormant, renders, shapes, sent, remeshes, owed, failure>>

-----------------------------------------------------------------------------
(* The pipeline.                                                           *)

\* A job leaves the queue; those of replaced generations are dropped.  A mesh
\* job learns now whether its result owes a collision shape at once.
PopJob(j) ==
    LET k == j[1]
    IN  /\ Running
        /\ jobs' = jobs \ {j}
        /\ early' = IF j = <<k, chunk[k].generation, "Mesh">>
                       /\ (CollisionDebt(k) \/ "visual" \notin app[k].roles \/ ~app[k].staged)
                    THEN early \cup {k} ELSE early
        /\ UNCHANGED <<desired, chunk, issued, meshed, app, cached, dormant, renders, shapes,
                       sent, attempts, remeshes, owed, world, touched, failure>>

\* A sample is applied; without room for the mesh job the chunk has failed.
SampleDone(k) ==
    /\ Running /\ AtWork(k, "Sampling", "Sample")
    /\ \/ /\ Room(jobs) > 0
          /\ chunk' = [chunk EXCEPT ![k].status = "Meshing"]
          /\ jobs' = jobs \cup {<<k, chunk[k].generation, "Mesh">>}
       \/ /\ Room(jobs) = 0
          /\ chunk' = [chunk EXCEPT ![k].status = "Failed"]
          /\ UNCHANGED jobs
    /\ UNCHANGED <<desired, issued, early, meshed, app, cached, dormant, renders, shapes, sent,
                   attempts, remeshes, owed, world, touched, failure>>

\* A payload of k is published; the debt waits for its answer.
Publish(k, condition) ==
    /\ sent' = IF condition THEN [sent EXCEPT ![k] = Payload(chunk[k])] ELSE sent
    /\ attempts' = IF condition THEN [attempts EXCEPT ![k] = "Answer"] ELSE attempts

\* A mesh is accepted and applied.  The early collision is cached, and with it
\* the mesh unless an edit built only a part of it.
MeshAccepted(k) ==
    /\ Running /\ AtWork(k, "Meshing", "Mesh")
    /\ chunk' = [chunk EXCEPT ![k].status = "Ready"]
    /\ meshed' = meshed \cup {k}
    /\ \/ k \notin early /\ UNCHANGED cached
       \/ k \in early /\ cached' = [cached EXCEPT ![k] = @ \cup {"collision"}]
       \/ /\ k \in early /\ ~app[k].refresh /\ "collision" \notin cached[k]
          /\ cached' = [cached EXCEPT ![k] = @ \cup {"mesh", "collision"}]
    /\ Publish(k, k \in early /\ "collision" \in app[k].roles)
    /\ UNCHANGED <<desired, jobs, issued, early, app, dormant, renders, shapes, remeshes,
                   owed, world, touched, failure>>

\* The token of an awaited remesh is released; that of a payload is not.
StopWaiting(k) ==
    IF attempts[k] = "Mesh" THEN [attempts EXCEPT ![k] = "None"] ELSE attempts

\* process_mesh_completions, one completion.  The result of a collision-only
\* refresh is discarded.
MeshConsumed(k) ==
    LET whole == "visual" \in app[k].roles /\ ~app[k].refresh
        late == whole /\ app[k].staged /\ "collision" \in app[k].roles /\ k \notin early
    IN  /\ Running /\ k \in meshed
        /\ meshed' = meshed \ {k} /\ early' = early \ {k}
        /\ app' = [app EXCEPT ![k].refresh = FALSE]
        /\ cached' = [cached EXCEPT ![k] = @ \cup (IF whole THEN {"mesh", "render"} ELSE {})
                                              \cup (IF late THEN {"collision"} ELSE {})]
        /\ \/ late /\ Publish(k, TRUE)
           \/ ~late /\ attempts' = StopWaiting(k) /\ UNCHANGED sent
        /\ UNCHANGED <<desired, chunk, jobs, issued, dormant, renders, shapes, remeshes,
                       owed, world, touched, failure>>

\* The cache drops what was used least; the shape physics shows is pinned.
EvictCached(k, resource) ==
    /\ Running /\ issued < EventGenerations
    /\ resource \in cached[k]
    /\ resource = "collision" => "collision" \notin app[k].roles \/ CollisionDebt(k)
    /\ cached' = [cached EXCEPT ![k] = @ \ {resource}]
    /\ UNCHANGED <<desired, chunk, jobs, issued, early, meshed, app, dormant, renders, shapes,
                   sent, attempts, remeshes, owed, world, touched, failure>>

-----------------------------------------------------------------------------
(* The repair passes at the end of every turn of the runtime thread, when  *)
(* every mesh was consumed.  They also wait until the frame thread emptied *)
(* the publication queue, which it does: that wait is left out.            *)

\* Variant: what was tried once for a generation is never tried again.
IndebtedUntried(lapsed) ==
    {k \in Keys : /\ "collision" \in desired[k] /\ CollisionDebt(k)
                  /\ chunk[k].status = "Ready" /\ attempts[k] = "None"}

\* Chunks whose collision debt the pass looks at: nothing was tried for their
\* generation, or that lapsed, 100 ms ago.
Indebted(lapsed) ==
    {k \in Keys : /\ "collision" \in desired[k] /\ CollisionDebt(k)
                  /\ chunk[k].status = "Ready"
                  /\ attempts[k] = "None" \/ k \in lapsed}

\* process_collision_readiness_repairs: republish the shape, or rebuild it
\* from the mesh, or sample the generation again, or ask for a new one.
CollisionRepairs(lapsed) ==
    LET served == {k \in Indebted(lapsed) : cached[k] \cap {"mesh", "collision"} # {}}
        resampled == {k \in Indebted(lapsed) \ served : app[k].refresh}
        replaced == Indebted(lapsed) \ (served \cup resampled)
    IN  /\ Running /\ meshed = {} /\ shapes = {}
        /\ Indebted(lapsed) # {}
        /\ \/ /\ Cardinality(resampled) > Room(jobs)
              /\ failure' = "CollisionRepair"
              /\ UNCHANGED <<app, cached, sent, chunk, jobs, attempts, early, remeshes>>
           \/ /\ Cardinality(resampled) <= Room(jobs)
              /\ app' = [k \in Keys |-> [app[k] EXCEPT !.refresh = @ /\ k \notin served]]
              /\ cached' = [k \in Keys |-> IF k \in served THEN cached[k] \cup {"collision"}
                                           ELSE cached[k]]
              /\ sent' = [k \in Keys |-> IF k \in served THEN Payload(chunk[k]) ELSE sent[k]]
              /\ chunk' = [k \in Keys |->
                    IF k \in resampled THEN [chunk[k] EXCEPT !.status = "Sampling"] ELSE chunk[k]]
              /\ jobs' = jobs \cup {<<k, chunk[k].generation, "Sample">> : k \in resampled}
              /\ early' = early \ resampled
              /\ remeshes' = remeshes \cup replaced
              /\ attempts' = [k \in Keys |->
                    IF k \in served THEN "Answer"
                    ELSE IF k \in resampled \cup replaced THEN "Mesh"
                    ELSE IF k \in lapsed THEN "None"
                    ELSE attempts[k]]
              /\ UNCHANGED failure
        /\ UNCHANGED <<desired, issued, meshed, dormant, renders, shapes, owed, world, touched>>

\* Variant: only chunks staged as replacements are looked at.
UnseenReplacements ==
    {k \in Keys : "visual" \in desired[k] /\ chunk[k].status = "Ready"
                    /\ app[k].staged /\ "render" \notin cached[k]}

Unseen ==
    {k \in Keys : "visual" \in desired[k] /\ chunk[k].status = "Ready"
                    /\ "render" \notin cached[k]}

\* process_visual_readiness_repairs: with nothing else to do, chunks without a
\* render payload get a new generation.
VisualRepairs ==
    /\ Running /\ meshed = {} /\ renders = 0 /\ jobs = {}
    /\ \A k \in Keys : chunk[k].status \notin {"Sampling", "Meshing"}
    /\ Unseen # {}
    /\ issued + Cardinality(Unseen) <= MaxGeneration
    /\ Regenerate(Unseen, world, {k \in Unseen : app[k].staged})
    /\ UNCHANGED <<desired, dormant, renders, shapes, sent, remeshes, owed, world, touched,
                   failure>>

-----------------------------------------------------------------------------
(* The frame thread.                                                       *)

\* The attempt of the answered generation is over.
Answered(k) ==
    IF sent[k].generation = app[k].generation THEN [attempts EXCEPT ![k] = "None"] ELSE attempts

\* acknowledge_collision_residency believes answers of the record's revision,
\* unless that is 0.
Matches(k) ==
    /\ "collision" \in app[k].roles /\ sent[k].world # 0
    /\ sent[k].generation <= app[k].generation /\ sent[k].world = app[k].world

\* Physics shows the shape.  (That it shows none of a chunk changes only what
\* nobody reads: the shape of a record without the collision role.)
Install(k) ==
    /\ sent[k] # NoPayload
    /\ sent' = [sent EXCEPT ![k] = NoPayload]
    /\ app' = IF Matches(k) THEN [app EXCEPT ![k].shape = app[k].world] ELSE app
    /\ attempts' = Answered(k)
    /\ UNCHANGED <<desired, chunk, jobs, issued, early, meshed, cached, dormant, renders, shapes,
                   remeshes, owed, world, touched, failure>>

\* The node refuses the payload, or drops it later without an answer.
Drop(k) ==
    /\ sent[k] # NoPayload
    /\ sent' = [sent EXCEPT ![k] = NoPayload]
    /\ attempts' \in {attempts, Answered(k)}
    /\ UNCHANGED <<desired, chunk, jobs, issued, early, meshed, app, cached, dormant, renders,
                   shapes, remeshes, owed, world, touched, failure>>

-----------------------------------------------------------------------------
Next ==
    \/ \E d \in Deltas : ViewerEvent(d) \/ ViewerEventFails(d)
    \/ RemeshPass
    \/ \E T \in SUBSET Keys : T # {} /\ Edit(T)
    \/ \E j \in jobs : PopJob(j)
    \/ \E k \in Keys : SampleDone(k) \/ MeshAccepted(k) \/ MeshConsumed(k)
    \/ \E k \in Keys, resource \in Evictable : EvictCached(k, resource)
    \/ \E lapsed \in SUBSET {k \in Keys : attempts[k] # "None"} : CollisionRepairs(lapsed)
    \/ VisualRepairs
    \/ \E k \in Keys : Install(k) \/ Drop(k)

SafetySpec == Init /\ [][Next]_vars

\* The runtime thread's loop takes each of these steps in every turn, between
\* viewer events however many there are; workers and pages answer.  Physics
\* answers a payload published again and again.  Viewers, edits and evictions
\* owe nothing.
Fairness ==
    /\ WF_vars(RemeshPass)
    /\ SF_vars(\E j \in jobs : PopJob(j))
    /\ \A k \in Keys : /\ SF_vars(SampleDone(k)) /\ SF_vars(MeshAccepted(k))
                        /\ SF_vars(MeshConsumed(k)) /\ SF_vars(Install(k))
    /\ SF_vars(CollisionRepairs({k \in Keys : attempts[k] # "None"}))
    /\ SF_vars(VisualRepairs)

Spec == SafetySpec /\ Fairness

-----------------------------------------------------------------------------
(* What the tables owe each other and the viewers.                         *)

Versions == [status : {"Absent", "Sampling", "Meshing", "Ready", "Failed"},
             generation : 0..MaxGeneration, world : 0..MaxWorld]

\* Every table holds what it is meant to, and none is overfull.
TypeOK ==
    /\ desired \in [Keys -> Demands \cup {{}}]
    /\ chunk \in [Keys -> Versions] /\ Cardinality(Recorded) <= RecordCapacity
    /\ jobs \subseteq Keys \X (1..MaxGeneration) \X {"Sample", "Mesh"}
    /\ Cardinality(jobs) <= ActiveCapacity
    /\ issued \in 0..MaxGeneration
    /\ early \subseteq Keys /\ meshed \subseteq Keys /\ remeshes \subseteq Keys
    /\ app \in [Keys -> [generation : 0..MaxGeneration, world : 0..MaxWorld,
                         roles : SUBSET Roles, shape : (0..MaxWorld) \cup {NoShape},
                         staged : BOOLEAN, refresh : BOOLEAN]]
    /\ Cardinality(Expected) <= ActiveCapacity
    /\ cached \in [Keys -> SUBSET Resources]
    /\ dormant \in Seq(Keys \X (1..MaxGeneration)) /\ Len(dormant) <= DormantCapacity
    /\ renders \in 0..ActiveCapacity
    /\ shapes \subseteq Keys \X (1..MaxGeneration) /\ Cardinality(shapes) <= ActiveCapacity
    /\ sent \in [Keys -> [generation : 0..MaxGeneration, world : 0..MaxWorld]]
    /\ attempts \in [Keys -> Waits]
    /\ owed \in BOOLEAN /\ world \in 0..MaxWorld
    /\ touched \in [Keys -> 0..MaxWorld] /\ failure \in Failures

\* Between two steps of the runtime thread its tables name the same versions:
\* a desired chunk has a record and an expectation of one generation and owes
\* physics exactly what the viewers ask; every other record is dormant, and
\* dormant chunks are finished ones that nobody expects.
RecordsAgree ==
    \A k \in Keys :
        /\ desired[k] # {} =>
              /\ k \in Recorded /\ k \notin DormantKeys
              /\ app[k].generation = chunk[k].generation /\ app[k].world = chunk[k].world
              /\ desired[k] \subseteq app[k].roles
              /\ "collision" \in app[k].roles => "collision" \in desired[k]
        /\ desired[k] = {} => k \notin Expected
        /\ desired[k] = {} /\ k \in Recorded =>
              chunk[k].status = "Ready" /\ <<k, chunk[k].generation>> \in Range(dormant)
        /\ k \in DormantKeys => k \in Recorded

\* No chunk the viewers see was built before the last edit that touched it,
\* however long it lay dormant and however its demand came and went.
EditsReachChunks == \A k \in Keys : desired[k] # {} => chunk[k].world >= touched[k]

\* A shape is never taken for a newer one: a version's collision is current
\* only after physics answered for the version's world revision.
ShapesAreAnswered ==
    [][\A k \in Keys :
          app'[k].shape \notin {NoShape, app[k].shape} =>
             app'[k].shape = sent[k].world /\ sent'[k] = NoPayload]_vars

Settled(k) ==
    \/ "collision" \notin desired[k] \/ ~CollisionDebt(k)
    \/ chunk[k].status = "Failed" \/ failure # "None"

\* A collision demand is served in the end, through evictions, refused
\* payloads and role changes, as long as the runtime's own collision apply
\* queue stays empty.  At revision 0 it is not: the code refuses every answer.
CollisionDebtPaid ==
    \A k \in Keys : ~Settled(k) /\ app[k].world # 0 ~> Settled(k) \/ shapes # {}

\* So is a visual demand, while its own render apply queue stays empty, even
\* where a collision-only refresh threw the visual mesh away.
VisualDebtPaid ==
    \A k \in Keys :
        "visual" \in desired[k] ~> \/ "visual" \notin desired[k] \/ "render" \in cached[k]
                                  \/ chunk[k].status = "Failed" \/ failure # "None"
                                  \/ renders # 0

\* The delta contract: every delta that passes the preflight finds the job
\* slots it needs.
PreflightSuffices == failure # "Scheduler"
=============================================================================
