---------------------------- MODULE ViewerPlanning ----------------------------
(* How the runtime thread turns viewer requests, interaction focus and edits *)
(* into accepted cuts: the event queue the game's threads write, the plan    *)
(* they ask for, and the staged passes towards it that wait for chunks to be *)
(* drawn (src/addons/world_transvoxel/src/services/                          *)
(* wt_read_only_world_runtime_demand.cpp; the queue is runtime.cpp's).       *)
(*                                                                           *)
(* A request is taken from the queue in one step and planned in another:     *)
(* between the two the game may queue more, chunks may be drawn and an edit  *)
(* may arrive.  What happens to the chunks of a cut is module Residency's;   *)
(* here they are drawn one by one, and an edit or a new transition mask may  *)
(* make one stale until it is drawn again.                                   *)
(*                                                                           *)
(* Staging is a switch of the configuration.  Where it is off a plan is the  *)
(* accepted cut at once, and only the frame thread's retirement of whole     *)
(* regions (module Residency) keeps what is drawn until it is replaced.      *)
EXTENDS LodStaging

CONSTANTS
  Viewers, CollisionViewers,  \* their identities
  Places, CollisionPlaces,    \* LOD0 cells viewers and edits may be at
  ViewerRadius, ViewerRefine, \* radius_chunks, and it limited for refinement
  ViewerLods,                 \* maximum_lod values a viewer may ask for
  FocusSets,                  \* key sets of the interaction lease
  ViewerCapacity, QueueCapacity,
  ZoneCapacity, RecentZones,  \* retention zones, and how many are always active
  ZoneRadiusMaximum, MergeDistance,
  FocusPriority,              \* kWtInteractionFocusPriority
  Policies,                   \* [staged, background, foreground] of the configuration
  MasksRemesh,                \* whether a chunk with a new mask is meshed again
  MaxInputs                   \* bound: inputs of the game considered

VARIABLES
  policy,    \* hierarchical_lod_staging_enabled, which is off by default, and
             \* hierarchical_lod_{background,viewer}_activation_enabled
  queue,     \* viewer_events_
  inputs,    \* inputs so far; an input's number is its revision
  viewers, collisionViewers,  \* planner_viewers_, collision_viewers_
  zones,     \* edit_lod_retention_zones_
  focus,     \* keys under an interaction lease
  focusPending,               \* foreground_topology_refresh_pending_
  retentionPending,           \* edit_lod_retention_refresh_pending_
  edit,      \* the cell of the edit waiting in world_operations_: one or none
  current,   \* current_plan_
  target, rootLod, stagingPending,  \* staging_target_plan_, ...
  fresh,     \* the activation sequence moved since staging last looked at it
  drawn,     \* keys with a confirmed activation (visual_activations_)
  stale,     \* those of them whose generation is no longer current
  waits,     \* edit_content_activation_waits_
  taken,     \* the batch the thread is planning, or Nothing
  lastPass,  \* history: what the last accepted cut was planned for
  open       \* history: viewer requests not answered and not overtaken yet

staging == <<current, target, rootLod, stagingPending>>
visual == <<drawn, stale, waits, fresh>>
requests == <<viewers, collisionViewers, zones>>
history == <<lastPass, open>>
vars == <<policy, queue, inputs, requests, focus, focusPending, retentionPending,
          edit, staging, visual, taken, history>>

NoEdit == {}
Nothing == [kind |-> "Nothing", events |-> <<>>, edit |-> FALSE]
VisualKinds == {"Update", "Remove"}
CollisionKinds == {"UpdateCollision", "RemoveCollision"}
Ready == drawn \ stale
CellKey(at) == <<0, at>>

Init ==
  /\ policy \in Policies
  /\ queue = <<>> /\ inputs = 0
  /\ viewers = <<>> /\ collisionViewers = <<>> /\ zones = <<>>
  /\ focus = {} /\ focusPending = FALSE /\ retentionPending = FALSE
  /\ edit = NoEdit
  /\ current = NoPlan /\ target = NoPlan /\ rootLod = 0 /\ stagingPending = FALSE
  /\ fresh = FALSE /\ drawn = {} /\ stale = {} /\ waits = {}
  /\ taken = Nothing /\ lastPass = "Nothing" /\ open = {}

----------------------------------------------------------------------------
(* The game's threads: viewer requests, focus leases, edits. *)

SameViewer(queued, event) ==
  /\ (queued.kind \in VisualKinds /\ event.kind \in VisualKinds)
       \/ (queued.kind \in CollisionKinds /\ event.kind \in CollisionKinds)
     \/ (queued.kind = "RefreshFocus" /\ event.kind \in VisualKinds)
  /\ queued.id = event.id

\* enqueue_viewer_event: replace the first queued event of this viewer, or append.
Enqueued(event) ==
  LET same == {i \in DOMAIN queue : SameViewer(queue[i], event)}
  IN IF same # {} THEN [queue EXCEPT ![Min(same)] = event] ELSE Append(queue, event)

Request(event) ==
  /\ inputs < MaxInputs
  /\ inputs' = inputs + 1
  /\ \/ Len(queue) < QueueCapacity
     \/ \E i \in DOMAIN queue : SameViewer(queue[i], event)
  /\ queue' = Enqueued(event)
  /\ open' = {o \in open : ~SameViewer(o, event)} \cup {event}
  /\ UNCHANGED <<policy, requests, focus, focusPending, retentionPending, edit,
                 staging, visual, taken, lastPass>>

UpdateViewer(v, at, lod) ==
  Request([kind |-> "Update", id |-> v, at |-> at, lod |-> lod, revision |-> inputs + 1])
RemoveViewer(v) ==
  Request([kind |-> "Remove", id |-> v, revision |-> inputs + 1])
UpdateCollisionViewer(v, at) ==
  Request([kind |-> "UpdateCollision", id |-> v, at |-> at, revision |-> inputs + 1])
RemoveCollisionViewer(v) ==
  Request([kind |-> "RemoveCollision", id |-> v, revision |-> inputs + 1])

\* process_foreground_priority_event, for the topology: the lease's new keys.
UpdateFocus(keys) ==
  /\ inputs < MaxInputs /\ taken = Nothing /\ keys # focus
  /\ inputs' = inputs + 1
  /\ focus' = keys
  /\ focusPending' = TRUE
  /\ UNCHANGED <<policy, queue, requests, retentionPending, edit, staging, visual, taken,
                 lastPass, open>>

QueueEdit(at) ==
  /\ inputs < MaxInputs /\ edit = NoEdit
  /\ inputs' = inputs + 1
  /\ edit' = {at}
  /\ UNCHANGED <<policy, queue, requests, focus, focusPending, retentionPending,
                 staging, visual, taken, history>>

----------------------------------------------------------------------------
(* Edits, and the zones of fine detail they leave. *)

\* Half the cells, rounded up, and one chunk around them.
ZoneWidth(low, high) == (high - low + 2) \div 2 + 1
ZoneCenter(zone) == (zone.low + zone.high) \div 2

\* remember_edit_lod_retention_zones: grow the first near zone, else append,
\* else replace the oldest.
Remembered(at, revision) ==
  LET gap(z) == Max({0, z.low - at, at - z.high})
      low(z) == Min({z.low, at})
      high(z) == Max({z.high, at})
      fits(z) == /\ gap(z) <= MergeDistance
                 /\ ZoneWidth(low(z), high(z)) <= ZoneRadiusMaximum
      near == {i \in DOMAIN zones : fits(zones[i])}
      grown(z) == [low |-> low(z), high |-> high(z), revision |-> revision]
      new == [low |-> at, high |-> at, revision |-> revision]
      oldest == CHOOSE i \in DOMAIN zones :
                  \A j \in DOMAIN zones : zones[i].revision <= zones[j].revision
  IN IF near # {} THEN [zones EXCEPT ![Min(near)] = grown(@)]
     ELSE IF Len(zones) < ZoneCapacity THEN Append(zones, new)
     ELSE [zones EXCEPT ![oldest] = new]

\* process_world_operation_event: the edit is journalled and its chunks are
\* given new generations (EditJournal, DesiredSets).
ApplyEdit ==
  /\ edit # NoEdit /\ taken = Nothing
  /\ edit' = NoEdit
  /\ zones' = Remembered(Min(edit), inputs)
  /\ LET hit == {leaf \in current.leaves : \E at \in edit : Encloses(leaf, CellKey(at))} IN
     /\ stale' = stale \cup (hit \cap drawn)
     /\ waits' = waits \cup (IF policy.foreground THEN {}
                             ELSE {leaf \in hit \cap drawn : Lod(leaf) # 0})
  /\ retentionPending' = TRUE
  /\ UNCHANGED <<policy, queue, inputs, viewers, collisionViewers, focus, focusPending,
                 staging, drawn, fresh, taken, history>>
----------------------------------------------------------------------------
(* process_viewer_event: what the runtime thread takes up next. *)

\* An internal refresh borrows the first viewer's snapshot.
Borrowed(kind) ==
  LET first == Min(DOMAIN viewers)
  IN IF viewers = <<>> THEN [kind |-> kind, id |-> 1, revision |-> 0]
     ELSE [kind |-> kind, id |-> first, revision |-> viewers[first].revision]

Taken(kind, events) == [kind |-> kind, events |-> events, edit |-> edit # NoEdit]

Take(kind, events) ==
  /\ taken = Nothing
  /\ taken' = Taken(kind, events)
  /\ UNCHANGED <<policy, inputs, requests, focus, edit, staging, visual, history>>

TakeFocus ==
  /\ focusPending
  /\ focusPending' = FALSE
  /\ Take("Focus", <<Borrowed("RefreshFocus")>>)
  /\ UNCHANGED <<queue, retentionPending>>

\* The head of the queue, with every queued request of its kind.
TakeRequests ==
  /\ ~focusPending /\ queue # <<>>
  /\ LET head == queue[1].kind
         kinds == IF head \in VisualKinds THEN VisualKinds
                  ELSE IF head \in CollisionKinds THEN CollisionKinds ELSE {}
         ofKind(event) == event.kind \in kinds
         other(event) == event.kind \notin kinds
     IN IF kinds # {}
        THEN /\ Take(IF head \in VisualKinds THEN "Visual" ELSE "Collision",
                     SelectSeq(queue, ofKind))
             /\ queue' = SelectSeq(queue, other)
        ELSE /\ Take(IF head = "RefreshFocus" THEN "Focus" ELSE "Retention", <<queue[1]>>)
             /\ queue' = Tail(queue)
  /\ UNCHANGED <<focusPending, retentionPending>>

TakeRetention ==
  /\ ~focusPending /\ queue = <<>> /\ retentionPending /\ waits = {}
  /\ retentionPending' = FALSE
  /\ Take("Retention", <<Borrowed("RefreshRetention")>>)
  /\ UNCHANGED <<queue, focusPending>>

StagingDue == policy.staged /\ stagingPending /\ fresh

TakeStaging ==
  /\ ~focusPending /\ queue = <<>> /\ ~retentionPending /\ StagingDue
  /\ Take("Staging", <<>>)
  /\ UNCHANGED <<queue, focusPending, retentionPending>>

----------------------------------------------------------------------------
(* The plan of what was taken. *)

Newer(event, table) == event.id \in DOMAIN table => event.revision > table[event.id].revision

\* One request on the table of viewers: stale and surplus ones are rejected.
Applied(table, event) ==
  IF ~Newer(event, table) THEN table
  ELSE IF event.kind \in {"Remove", "RemoveCollision"}
       THEN [v \in DOMAIN table \ {event.id} |-> table[v]]
  ELSE IF event.id \notin DOMAIN table /\ Cardinality(DOMAIN table) >= ViewerCapacity
       THEN table
  ELSE [v \in DOMAIN table \cup {event.id} |-> IF v = event.id THEN event ELSE table[v]]

NextViewers == IF taken.kind = "Visual" THEN FoldLeft(Applied, viewers, taken.events) ELSE viewers
NextCollisionViewers ==
  IF taken.kind = "Collision" THEN FoldLeft(Applied, collisionViewers, taken.events)
  ELSE collisionViewers

Planners(table) ==
  {[at |-> table[v].at, radius |-> ViewerRadius, lod |-> table[v].lod, refine |-> ViewerRefine] :
     v \in DOMAIN table}

FocusKeys == {key \in focus : Lod(key) = 0 /\ key \in Catalog}

\* append_edit_lod_retention_viewers: the newest zones that are recent or near
\* a viewer, as viewers of their own.
NewerZones(i) == {j \in DOMAIN zones : zones[j].revision > zones[i].revision}
ActiveZones(planners) ==
  {i \in DOMAIN zones :
     \/ Len(zones) <= RecentZones \/ Cardinality(NewerZones(i)) < RecentZones
     \/ \E v \in planners :
          Max({0, zones[i].low - v.at, v.at - zones[i].high}) <= (v.radius + 1) * Extent(v.lod)}

ZoneViewers(planners, refine, limit) ==
  LET active == ActiveZones(planners)
      newest == {i \in active : Cardinality(active \cap NewerZones(i)) < limit}
      radius(zone) == Min({ZoneWidth(zone.low, zone.high), ZoneRadiusMaximum, refine})
  IN {[at |-> ZoneCenter(zones[i]), radius |-> 1, lod |-> HighestLod(planners),
       refine |-> radius(zones[i])] : i \in newest}

\* Sparse catalogs may not balance what earlier detail would keep refined.
OrUnrefined(sticky, planners) ==
  IF sticky.status = "IncompleteHierarchy" THEN Plan(planners, {}, FocusKeys) ELSE sticky
FreshPlan(planners) == OrUnrefined(Plan(planners, current.leaves, FocusKeys), planners)

\* With every zone; when that fails with the widest radius, and then the most
\* zones, that can be planned; else with none.
PlanWith(planners, limits) == FreshPlan(planners \cup ZoneViewers(planners, limits[1], limits[2]))
Widest(tries) ==
  CHOOSE try \in tries : \A o \in tries : o[1] < try[1] \/ (o[1] = try[1] /\ o[2] <= try[2])
DegradedPlan(planners, tries) ==
  IF tries # {} THEN PlanWith(planners, Widest(tries)) ELSE FreshPlan(planners)
RetentionPlanOr(whole, planners, count) ==
  IF whole.status = "Ok" THEN whole
  ELSE DegradedPlan(planners, {try \in (1..ZoneRadiusMaximum) \X (1..count) :
                                 PlanWith(planners, try).status = "Ok"})
RetentionPlan(planners) ==
  LET count == Cardinality(ActiveZones(planners)) IN
  IF planners = {} \/ count = 0 THEN FreshPlan(planners)
  ELSE RetentionPlanOr(PlanWith(planners, <<ZoneRadiusMaximum, count>>), planners, count)

Wanted(planners) ==
  IF taken.kind = "Collision" THEN [status |-> "Ok", plan |-> current]
  ELSE IF taken.kind = "Staging" THEN [status |-> "Ok", plan |-> target]
  ELSE IF taken.kind = "Focus" /\ FocusKeys # {}
       THEN ForegroundTarget(current, FocusKeys, FocusPriority)
  ELSE RetentionPlan(planners)

\* The LOD0 keys to refine first: the focus, the newest edit, and without a
\* focus the cells around the viewers.
NewestZone == CHOOSE i \in DOMAIN zones : NewerZones(i) = {}
PreferredKeys(planners) ==
  FocusKeys
  \cup (IF zones = <<>> THEN {} ELSE {CellKey(ZoneCenter(zones[NewestZone]))})
  \cup (IF policy.foreground /\ FocusKeys = {}
        THEN {CellKey(v.at + d) : v \in planners, d \in {-1, 0, 1}} ELSE {})

StagingLod(planners) == IF taken.kind = "Staging" THEN rootLod ELSE HighestLod(planners)

\* The staged pass towards a wanted plan.
StagedPass(wanted, planners) ==
  LET preferred == PreferredKeys(planners)
      direct == taken.kind = "Retention" /\ preferred # {}
      lod == StagingLod(planners)
      unchanged == taken.kind = "Staging" \/ wanted.leaves = target.leaves
      pass == [changes |-> IF direct THEN Max({1, lod}) ELSE 1,
               preferred |-> preferred,
               only |-> direct \/ (~policy.background /\ unchanged),
               unready |-> direct,
               coarsen |-> policy.foreground /\ ~direct]
  IN IF taken.kind = "Focus" \/ policy.foreground
     THEN StageForeground(wanted, current, Ready, lod, preferred)
     ELSE StageToward(wanted, current, Ready, lod, pass)

\* The whole outcome: [status, wanted, plan, complete].  Without staging, and
\* for a collision request, the plan is the cut and the target stays.
Passed(staged, wanted) ==
  [status |-> staged.status, wanted |-> wanted, plan |-> staged.plan, complete |-> staged.complete]
OutcomeOf(wanted, planners) ==
  IF wanted.status # "Ok" THEN Passed(Unstaged(wanted.status), NoPlan)
  ELSE IF taken.kind = "Collision" \/ ~policy.staged
       THEN Passed([status |-> "Ok", plan |-> wanted.plan, complete |-> TRUE], wanted.plan)
  ELSE Passed(StagedPass(wanted.plan, planners), wanted.plan)
Outcome == OutcomeOf(Wanted(Planners(NextViewers)), Planners(NextViewers))

CollisionKeys(table) == {CellKey(table[v].at) : v \in DOMAIN table} \cap Catalog
DemandsFit(plan) == Cardinality(plan.leaves \cup CollisionKeys(NextCollisionViewers)) <= Capacity

----------------------------------------------------------------------------
(* The four ends of a plan. *)

\* Planning polls for a queued edit; a collision request needs no plan, and
\* one without viewers is over before the first poll.
Cancellable ==
  /\ taken.kind # "Collision"
  /\ \/ NextViewers # <<>>
     \/ ((policy.staged /\ policy.foreground) \/ taken.kind = "Focus") /\ FocusKeys # {}

Planned == taken # Nothing /\ ~(taken.edit /\ Cancellable)
Done == taken' = Nothing
Answered == Done /\ open' = open \ Range(taken.events)

\* Chunks kept by the next cut whose mask differs.
MaskChanged(plan) ==
  {leaf \in current.leaves \cap plan.leaves :
     TransitionMask(leaf, plan.leaves) # TransitionMask(leaf, current.leaves)}

Accepted(outcome) ==
  /\ outcome.status = "Ok" /\ DemandsFit(outcome.plan)
  /\ viewers' = NextViewers /\ collisionViewers' = NextCollisionViewers
  /\ current' = outcome.plan
  /\ drawn' = drawn \cap outcome.plan.leaves
  /\ stale' = (stale \cup (IF MasksRemesh THEN MaskChanged(outcome.plan) ELSE {})) \cap drawn'
  /\ waits' = waits \cap outcome.plan.leaves
  /\ IF taken.kind = "Collision" \/ ~policy.staged
     THEN UNCHANGED <<target, rootLod, stagingPending, fresh>>
     ELSE /\ target' = outcome.wanted
          /\ rootLod' = StagingLod(Planners(NextViewers))
          /\ stagingPending' = ~outcome.complete
          /\ fresh' = FALSE
  /\ lastPass' = IF taken.kind = "Collision" THEN lastPass ELSE taken.kind
  /\ Answered
  /\ UNCHANGED queue

Rejected(outcome) ==
  /\ outcome.status # "Ok" \/ ~DemandsFit(outcome.plan)
  /\ Answered
  /\ UNCHANGED <<queue, viewers, collisionViewers, staging, visual, lastPass>>

\* The delta does not fit the scheduler's job queue, which holds jobs of
\* chunks not drawn yet: planned again, a staged pass at the next activation.
Deferred(outcome) ==
  /\ outcome.status = "Ok" /\ DemandsFit(outcome.plan)
  /\ outcome.plan.leaves \ current.leaves # {}
  /\ current.leaves \ Ready # {}
  /\ IF taken.kind = "Staging" THEN fresh' = FALSE /\ UNCHANGED queue
     ELSE queue' = taken.events \o queue /\ UNCHANGED fresh
  /\ Done
  /\ UNCHANGED <<viewers, collisionViewers, staging, drawn, stale, waits, history>>

\* process_viewer_event, from the plan on.
Settle ==
  /\ Planned
  /\ \E outcome \in {Outcome} : Accepted(outcome) \/ Rejected(outcome) \/ Deferred(outcome)
  /\ UNCHANGED <<policy, inputs, zones, focus, focusPending, retentionPending, edit>>

\* cancel_viewer_plan_for_pending_edit: the first event taken goes back,
\* unless the queue has a newer one of its viewer.
CancelPlan ==
  /\ taken # Nothing /\ edit # NoEdit /\ Cancellable
  /\ retentionPending' = (retentionPending \/ taken.kind = "Retention")
  /\ queue' = IF taken.kind \in {"Retention", "Staging"} THEN queue
              ELSE IF \E i \in DOMAIN queue :
                        /\ queue[i].kind \in VisualKinds
                        /\ queue[i].id = taken.events[1].id
                        /\ queue[i].revision >= taken.events[1].revision
                   THEN queue ELSE <<taken.events[1]>> \o queue
  /\ Done
  /\ UNCHANGED <<policy, inputs, requests, focus, focusPending, edit, staging, visual, history>>

----------------------------------------------------------------------------
(* The frame thread: a chunk of the cut is drawn. *)

\* Variant: drawing a chunk does not move the activation sequence.
ActivateSilently(leaf) ==
  /\ leaf \in current.leaves \ Ready
  /\ drawn' = drawn \cup {leaf}
  /\ stale' = stale \ {leaf}
  /\ waits' = waits \ {leaf}
  /\ UNCHANGED <<policy, queue, inputs, requests, focus, focusPending, retentionPending,
                 edit, staging, fresh, taken, history>>

Activate(leaf) ==
  /\ leaf \in current.leaves \ Ready
  /\ drawn' = drawn \cup {leaf}
  /\ stale' = stale \ {leaf}
  /\ waits' = waits \ {leaf}
  /\ fresh' = TRUE
  /\ UNCHANGED <<policy, queue, inputs, requests, focus, focusPending, retentionPending,
                 edit, staging, taken, history>>

Next ==
  \/ \E v \in Viewers : RemoveViewer(v)
       \/ \E at \in Places, lod \in ViewerLods : UpdateViewer(v, at, lod)
  \/ \E v \in CollisionViewers : RemoveCollisionViewer(v)
       \/ \E at \in CollisionPlaces : UpdateCollisionViewer(v, at)
  \/ \E keys \in FocusSets : UpdateFocus(keys)
  \/ \E at \in Places : QueueEdit(at)
  \/ ApplyEdit
  \/ TakeFocus \/ TakeRequests \/ TakeRetention \/ TakeStaging
  \/ Settle \/ CancelPlan
  \/ \E leaf \in current.leaves : Activate(leaf)

Spec == Init /\ [][Next]_vars

----------------------------------------------------------------------------
(* Properties. *)

Cells(leaf) == {key \in Catalog : Lod(key) = 0 /\ Encloses(leaf, key)}

TypeOK ==
  /\ policy \in Policies
  /\ inputs \in 0..MaxInputs
  /\ {current.leaves, target.leaves} \subseteq SUBSET Catalog
  /\ stale \subseteq drawn /\ drawn \subseteq current.leaves
  /\ waits \subseteq current.leaves

\* Where cuts are staged, the area a drawn leaf covers stays covered by the next
\* accepted cut, until the target leaves it and is itself drawn wherever it
\* reaches.
StillCovered(leaf) == \A cell \in Cells(leaf) : Covered(cell, current'.leaves)
TargetCovered ==
  \A t \in target'.leaves : \A cell \in Cells(t) :
    \E leaf \in current.leaves \cap Ready : Encloses(leaf, cell)
DrawnCoverageKept ==
  [][policy.staged =>
       \A leaf \in current.leaves \cap Ready : StillCovered(leaf) \/ TargetCovered]_current

Quiet ==
  /\ queue = <<>> /\ edit = NoEdit /\ taken = Nothing
  /\ ~focusPending /\ ~retentionPending
  /\ current.leaves \subseteq Ready
  /\ ~StagingDue

\* After a background pass nothing is left to draw only when the cut is the
\* target: otherwise the next staged pass would wait for ever.
QuietIsSettled ==
  Quiet /\ lastPass \in {"Visual", "Staging"} /\ policy.staged /\ ~policy.foreground =>
    current.leaves = target.leaves /\ ~stagingPending

\* Staging never goes back and forth, nor does planning without it: the
\* accepted cut comes to rest.
Converges == <>[][FALSE]_current

\* A request is never forgotten before it is accepted, rejected or overtaken by
\* a newer one of its viewer.
NoRequestLost == open \subseteq Range(queue) \cup Range(taken.events)
=============================================================================
