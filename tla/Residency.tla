------------------------------- MODULE Residency -------------------------------
(***************************************************************************)
(* How visible terrain is replaced.  The runtime publishes what a viewer   *)
(* plan or an edit changes; the frame thread drains those publications     *)
(* into application records, sink entries and three staging sets; an       *)
(* external GPU renderer prepares captures and asks for the activation of  *)
(* cohorts of chunks, the only step that swaps what is drawn.              *)
(*                                                                         *)
(* Meshing, paging and the journal are modelled elsewhere: here a          *)
(* generation is simply being meshed until Complete.  Every chunk has the  *)
(* visual role only.                                                       *)
(***************************************************************************)
EXTENDS ChunkApplication, PublicationPolicy, SequencesExt

CONSTANTS
    Plans,          \* the viewer plans, sets of chunks
    StartPlans,     \* those that may be drawn at the start
    Focus,          \* chunks the player interacts with
    EditCells,      \* the left cells of the edits made
    Faulty,         \* chunks whose cached payload or buffers may be lost
    MaxEvents,      \* bound: viewer moves, edits, evictions and lost captures
    MaxGeneration   \* bound: generations of one chunk

VARIABLES
    plan,        \* current_plan_
    sched,       \* per chunk, the scheduler record of its newest generation
    cached,      \* per chunk, the mask of its cached render payload, or NoMask
    remesh,      \* pending_transition_remeshes_
    republished, \* readiness_repair_attempts_ with render_republished
    forced,      \* forced coverage requests not handled yet: <<chunk, generation>>
    world,       \* the committed world revision
    activated,   \* visual_activations_
    outbox,      \* publications not drained yet
    claims,      \* gpu_placeholder_publication_claims_: placeholders in outbox
    captures,    \* per chunk, the generation whose buffers the renderer holds
    front,       \* the frame thread's state
    events       \* events so far

runtime == <<plan, sched, cached, remesh, republished, world>>
wire == <<outbox, claims>>
vars == <<runtime, forced, activated, wire, captures, front, events>>

NoMask == {"None"}

\* The messages the frame thread drains.
ExpectMsg(k, r, indep, edit, size) ==
    [kind |-> "Expect", key |-> k, gen |-> r.gen, staged |-> r.staged,
     indep |-> indep, edit |-> edit, size |-> size]
RenderMsg(k, g, m) == [kind |-> "Render", key |-> k, gen |-> g, mask |-> m]
RemoveMsg(k) == [kind |-> "Remove", key |-> k]

InPlan(k) == k \in plan

\* push_publication: while a generation's placeholder waits to be drained a
\* second one is claimed to be published already, whatever its mask.
Claim(sent, m) ==
    CASE m.kind # "Render" -> [sent EXCEPT !.box = Append(@, m)]
      [] m.kind = "Render" /\ <<m.key, m.gen>> \in sent.claims -> sent
      [] OTHER -> [box |-> Append(sent.box, m), claims |-> sent.claims \cup {<<m.key, m.gen>>}]

PushOver(held, msgs) ==
    LET sent == FoldLeft(Claim, [box |-> outbox, claims |-> held], msgs)
    IN  outbox' = sent.box /\ claims' = sent.claims

Push(msgs) == PushOver(claims, msgs)

\* record_frontend_publication gives up the claims of what was drained.
Drained(msgs) == claims' = claims \ {<<m.key, m.gen>> : m \in {x \in ToSet(msgs) : x.kind = "Render"}}

Ordered(S) == SetToSortSeq(S, <)

Init ==
    /\ plan \in StartPlans
    /\ sched = [k \in Keys |-> IF InPlan(k)
                THEN [gen |-> 1, phase |-> "Ready", mask |-> PlannedMask(plan, k),
                      world |-> 0, staged |-> FALSE]
                ELSE [gen |-> 0, phase |-> "Absent", mask |-> {}, world |-> 0, staged |-> FALSE]]
    /\ cached = [k \in Keys |-> IF InPlan(k) THEN PlannedMask(plan, k) ELSE NoMask]
    /\ remesh = {} /\ forced = {} /\ republished = {} /\ world = 0 /\ outbox = <<>> /\ claims = {} /\ events = 0
    /\ activated = plan
    /\ captures = [k \in Keys |-> sched[k].gen]
    /\ front =
         [app |-> [k \in Keys |-> IF InPlan(k)
              THEN [NoRecord EXCEPT !.gen = 1, !.drawn = 1, !.mask = PlannedMask(plan, k),
                                    !.ready = TRUE]
              ELSE NoRecord],
          sink |-> [k \in Keys |-> IF InPlan(k)
              THEN [NoEntry EXCEPT !.gen = 1, !.mask = PlannedMask(plan, k), !.active = TRUE]
              ELSE NoEntry],
          pending |-> {}, ready |-> {}, indep |-> {}, retiring |-> {},
          open |-> 0, target |-> plan, asked |-> [k \in Keys |-> 0]]

-----------------------------------------------------------------------------
(* The runtime.                                                            *)

\* request_chunk_version: a generation to mesh under the mask of the plan.
NewGeneration(k, p, staged) ==
    [gen |-> sched[k].gen + 1, phase |-> "Meshing", mask |-> PlannedMask(p, k),
     world |-> world, staged |-> staged]

CanRequest(k) == sched[k].gen < MaxGeneration

Event == events < MaxEvents /\ events' = events + 1

\* A dormant chunk comes back with its cached payload if no edit came between.
Reusable(k) == sched[k].phase = "Dormant" /\ cached[k] # NoMask /\ sched[k].world = world

\* publish_transition_mask_update, for the retained chunks whose mask changes:
\* a cached payload takes the new mask, an uncached one is meshed again.
MaskChanged(p) ==
    {k \in plan \cap p : PlannedMask(plan, k) # PlannedMask(p, k) /\ sched[k].phase = "Ready"}

\* process_viewer_event and publish_delta.
ChangePlan(p) ==
    LET added == p \ plan
        removed == plan \ p
        remask == {k \in MaskChanged(p) : cached[k] # NoMask}
        next == [k \in Keys |->
            CASE k \in added /\ Reusable(k) ->
                    [sched[k] EXCEPT !.phase = "Ready", !.staged = removed # {}]
              [] k \in added /\ ~Reusable(k) -> NewGeneration(k, p, removed # {})
              [] k \in removed -> [sched[k] EXCEPT !.phase = IF @ = "Ready" THEN "Dormant" ELSE "Absent"]
              [] OTHER -> sched[k]]
        addition(k) == <<ExpectMsg(k, next[k], FALSE, 0, 0)>>
            \o IF Reusable(k) THEN <<RenderMsg(k, next[k].gen, cached[k])>> ELSE <<>>
    IN  /\ Event
        /\ p # plan
        /\ \A k \in added : Reusable(k) \/ CanRequest(k)
        /\ plan' = p
        /\ sched' = next
        /\ cached' = [k \in Keys |-> CASE k \in remask -> PlannedMask(p, k)
                                       [] k \in added /\ ~Reusable(k) -> NoMask
                                       [] OTHER -> cached[k]]
        /\ remesh' = remesh \cup (MaskChanged(p) \ remask)
        /\ activated' = activated \cap p
        /\ PushOver({c \in claims : c[1] \notin removed},
                <<[kind |-> "PlanStarted"]>>
                \o FlattenSeq([i \in 1..Cardinality(added) |-> addition(Ordered(added)[i])])
                \o [i \in 1..Cardinality(removed) |-> RemoveMsg(Ordered(removed)[i])]
                \o [i \in 1..Cardinality(remask) |->
                        LET k == Ordered(remask)[i] IN RenderMsg(k, sched[k].gen, PlannedMask(p, k))]
                \o <<[kind |-> "PlanCompleted", plan |-> p]>>)
        /\ UNCHANGED <<republished, world, forced, captures, front>>

\* An edit of two adjacent cells replaces every chunk over them; those drawn
\* already, and all of the finest level, are published as one.
Edit(c) ==
    LET dirty == {k \in plan : Cover[k] \cap {c, c + 1} # {}}
        atomic == {k \in dirty : Lod[k] = 0 \/ k \in activated}
        next == [k \in Keys |-> IF k \notin dirty THEN sched[k]
                    ELSE [NewGeneration(k, plan, TRUE) EXCEPT !.world = world + 1]]
        message(k) == IF k \in atomic
            THEN ExpectMsg(k, next[k], TRUE, world + 1, Cardinality(atomic))
            ELSE ExpectMsg(k, next[k], FALSE, 0, 0)
    IN  /\ Event
        /\ dirty # {} /\ \A k \in dirty : CanRequest(k)
        /\ world' = world + 1
        /\ sched' = next
        /\ cached' = [k \in Keys |-> IF k \in dirty THEN NoMask ELSE cached[k]]
        /\ Push([i \in 1..Cardinality(dirty) |-> message(Ordered(dirty)[i])])
        /\ UNCHANGED <<plan, remesh, republished, forced, activated, captures, front>>

\* process_chunk_completions: a mesh whose mask the plan changed meanwhile is
\* not published but made again.
Complete(k) ==
    /\ sched[k].phase = "Meshing"
    /\ sched' = [sched EXCEPT ![k].phase = "Ready"]
    /\ IF sched[k].mask # PlannedMask(plan, k)
       THEN remesh' = remesh \cup {k} /\ UNCHANGED <<cached, captures, wire>>
       ELSE /\ cached' = [cached EXCEPT ![k] = sched[k].mask]
            /\ captures' = [captures EXCEPT ![k] = sched[k].gen]
            /\ Push(<<RenderMsg(k, sched[k].gen, sched[k].mask)>>)
            /\ UNCHANGED remesh
    /\ UNCHANGED <<plan, republished, world, forced, activated, front, events>>

\* Successor generations, with the expectations published for them; those of
\* the chunks in staged replace a drawn one.
Successors(S, staged) ==
    LET next == [k \in Keys |-> IF k \in S THEN NewGeneration(k, plan, k \in staged) ELSE sched[k]]
    IN  /\ \A k \in S : CanRequest(k)
        /\ sched' = next
        /\ cached' = [k \in Keys |-> IF k \in S THEN NoMask ELSE cached[k]]
        /\ Push([i \in 1..Cardinality(S) |->
                LET k == Ordered(S)[i] IN ExpectMsg(k, next[k], FALSE, 0, 0)])

\* process_pending_transition_remeshes: chunks still being meshed wait, those
\* that left the plan are dropped.
Due == {k \in remesh : InPlan(k) /\ sched[k].phase = "Ready"}

RemeshDue == Due # {} \/ ~(remesh \subseteq plan)

Remesh ==
    /\ RemeshDue
    /\ remesh' = (remesh \cap plan) \ Due
    /\ Successors(Due, Due)
    /\ UNCHANGED <<plan, republished, world, forced, activated, captures, front, events>>

\* process_visibility_coverage_priority_requests: a cached payload under an
\* old mask is published under the new one, and any other chunk is queued to be
\* meshed again; a request for an old generation or an unfinished chunk is spent.
HandleForced ==
    LET current == {k \in plan : <<k, sched[k].gen>> \in forced /\ sched[k].phase = "Ready"}
        remask == {k \in current : cached[k] \notin {PlannedMask(plan, k), NoMask}}
    IN  /\ forced # {}
        /\ forced' = {}
        /\ cached' = [k \in Keys |-> IF k \in remask THEN PlannedMask(plan, k) ELSE cached[k]]
        /\ remesh' = remesh \cup (current \ remask)
        /\ Push([i \in 1..Cardinality(remask) |->
                LET k == Ordered(remask)[i] IN RenderMsg(k, sched[k].gen, cached'[k])])
        /\ UNCHANGED <<plan, sched, republished, world, activated, captures, front, events>>

\* process_visual_readiness_repairs, when nothing else is under way: successors
\* of the chunks whose payload is gone, the payload of the staged ones again.
Repairable == {k \in plan : sched[k].phase = "Ready" /\ cached[k] = NoMask}

Republishable ==
    {k \in plan : /\ sched[k].phase = "Ready" /\ cached[k] # NoMask /\ sched[k].staged
                  /\ <<k, sched[k].gen>> \notin republished}

Meshing == \E k \in Keys : sched[k].phase = "Meshing"

RepairDue == outbox = <<>> /\ ~Meshing /\ Repairable \cup Republishable # {}

Repair ==
    /\ RepairDue
    /\ \/ /\ Repairable # {}
          /\ Successors(Repairable, {k \in Keys : sched[k].staged})
          /\ UNCHANGED republished
       \/ /\ Repairable = {} /\ Republishable # {}
          /\ Push([i \in 1..Cardinality(Republishable) |->
                  LET k == Ordered(Republishable)[i] IN RenderMsg(k, sched[k].gen, cached[k])])
          /\ republished' = republished \cup {<<k, sched[k].gen>> : k \in Republishable}
          /\ UNCHANGED <<sched, cached>>
    /\ UNCHANGED <<plan, remesh, world, forced, activated, captures, front, events>>

\* The render payload cache is bounded and evicts the least recently used.
Evict(k) ==
    /\ Event
    /\ cached[k] # NoMask
    /\ cached' = [cached EXCEPT ![k] = NoMask]
    /\ UNCHANGED <<plan, sched, remesh, republished, world, forced, activated, wire, captures, front>>

-----------------------------------------------------------------------------
(* The frame thread: draining.                                             *)

StageReplacement(f, k, indep) ==
    [f EXCEPT !.ready = @ \ {k}, !.pending = @ \cup {k},
              !.indep = IF indep THEN @ \cup {k} ELSE @]

DrainExpect(f, m) ==
    LET k == m.key
        expected == [f EXCEPT !.app[k] = Expect(@, m.gen, m.indep, m.edit, m.size),
                              !.retiring = @ \ {k}]
    IN  CASE m.gen < f.app[k].gen -> f
          [] m.gen >= f.app[k].gen /\ m.staged -> StageReplacement(expected, k, m.indep)
          [] OTHER -> expected

DrainRemove(f, k) ==
    [f EXCEPT !.pending = @ \ {k}, !.ready = @ \ {k}, !.indep = @ \ {k},
              !.asked[k] = 0, !.retiring = @ \cup {k}]

DrainRender(f, m) ==
    IF f.app[m.key].gen # m.gen THEN f
    ELSE [f EXCEPT !.app[m.key] = AcceptPlaceholder(@, m.gen, m.mask),
                   !.sink[m.key] = PlacePlaceholder(@, m.gen, m.mask)]

\* drain_world_publications, one publication.
Drain(f, m) ==
    CASE m.kind = "Expect" -> DrainExpect(f, m)
      [] m.kind = "Remove" -> DrainRemove(f, m.key)
      [] m.kind = "Render" -> DrainRender(f, m)
      [] m.kind = "PlanStarted" -> [f EXCEPT !.open = @ + 1]
      [] m.kind = "PlanCompleted" ->
            [f EXCEPT !.open = @ - 1, !.target = m.plan, !.retiring = @ \ m.plan]

(* The frame thread: what _process does after draining, in its order.      *)

Among(k, S) == \E j \in S : Overlaps(j, k)

\* A record that claims to be ready while the sink no longer draws it.
RepairReadiness(f) ==
    LET lost == {k \in Keys : LET r == f.app[k] IN
                    r.ready /\ r.drawn = r.gen /\ ~Draws(f.sink[k], r.gen, r.mask)}
    IN  [f EXCEPT !.app = [k \in Keys |-> LET r == f.app[k] IN
                    IF k \in lost THEN RequestReactivation(r, r.gen, r.mask) ELSE r],
                  !.pending = @ \cup lost, !.ready = @ \ lost,
                  !.indep = @ \cup {k \in lost : f.app[k].indep}]

\* can_publish_staged_record
CanPublishStaged(s, g) == s.gen = 0 \/ (~s.staged /\ s.gen = g)

\* One independent region: every replacement over the retirements it closes
\* over is ready, so the retirements go.
PublishRegion(seed, f) ==
    LET r == Region(seed, f.pending \cup f.ready, f.retiring)
        publishable == /\ Among(seed, f.retiring)
                       /\ CompleteCoverage(r.in, r.out)
                       /\ \A k \in r.in : FullyReady(f.app[k]) /\ CanPublishStaged(f.sink[k], f.app[k].gen)
    IN  IF ~publishable THEN f
        ELSE [f EXCEPT !.app = [k \in Keys |-> IF k \in r.out THEN NoRecord ELSE @[k]],
                       !.sink = [k \in Keys |-> CASE k \in r.out -> NoEntry
                                                  [] k \in r.in -> PublishStaged(@[k])
                                                  [] OTHER -> @[k]],
                       !.asked = [k \in Keys |-> IF k \in r.in THEN 0 ELSE @[k]],
                       !.pending = @ \ r.in, !.ready = @ \ r.in, !.indep = @ \ r.in,
                       !.retiring = @ \ r.out]

\* flush_ready_independent_publication_regions; the code looks at two seeds in
\* a frame, here a frame looks at them all.
FlushRegions(f) ==
    LET live == f.indep \cap (f.pending \cup f.ready)
    IN  FoldSet(PublishRegion, [f EXCEPT !.indep = live], live)

Retire(f, S) ==
    [f EXCEPT !.app = [k \in Keys |-> IF k \in S THEN NoRecord ELSE @[k]],
              !.sink = [k \in Keys |-> IF k \in S THEN BeginRetirement(@[k]) ELSE @[k]],
              !.retiring = @ \ S]

\* Variant: retirements do not wait for the replacements.
RetiredEarly(f) == IF f.open # 0 THEN f ELSE Retire(f, f.retiring)

\* flush_ready_chunk_retirements: coverage nothing replaces goes at once, the
\* rest when no replacement is pending and every record is drawn.
FlushRetirements(f) ==
    LET free == {k \in f.retiring : ~Among(k, f.target \cup f.pending \cup f.ready)}
        g == Retire(f, free)
        settled == /\ g.pending = {}
                   /\ \A k \in Keys \ g.retiring : LET r == g.app[k] IN
                        r.gen = 0 \/ r.ready \/ g.sink[k].gen = r.gen
    IN  IF f.open # 0 THEN f ELSE IF settled THEN Retire(g, g.retiring) ELSE g

\* flush_ready_chunk_replacements
FlushReplacements(f) ==
    LET gone == {k \in f.pending : f.app[k].gen = 0}
        done == {k \in f.pending : FullyReady(f.app[k])}
        detached == {k \in done : f.sink[k].gen = f.app[k].gen}
        alone == {k \in (done \ detached) \cap f.indep : ~Among(k, f.retiring)}
    IN  [f EXCEPT !.sink = [k \in Keys |-> IF k \in alone THEN PublishStaged(@[k]) ELSE @[k]],
                  !.asked = [k \in Keys |-> IF k \in done THEN 0 ELSE @[k]],
                  !.pending = @ \ (gone \cup done),
                  !.ready = {k \in @ : f.app[k].gen # 0} \cup (done \ (detached \cup alone)),
                  !.indep = @ \ (gone \cup detached \cup alone)]

\* publish_staged_records_if_ready
PublishStagedRecords(f) ==
    IF f.open # 0 \/ f.retiring # {} \/ f.pending # {} THEN f
    ELSE [f EXCEPT !.sink = [k \in Keys |-> PublishStaged(@[k])], !.ready = {}]

\* _process, with the first n waiting publications drained.
Processed(n) ==
    PublishStagedRecords(FlushReplacements(FlushRetirements(FlushRegions(
        RepairReadiness(FoldLeft(Drain, front, SubSeq(outbox, 1, n)))))))

FrameDue == outbox # <<>> \/ Processed(0) # front

Frame ==
    /\ FrameDue
    /\ \E n \in (IF outbox = <<>> THEN 0 ELSE 1)..Len(outbox) :
        /\ front' = Processed(n)
        /\ outbox' = SubSeq(outbox, n + 1, Len(outbox))
        /\ Drained(SubSeq(outbox, 1, n))
    /\ UNCHANGED <<runtime, forced, activated, captures, events>>

-----------------------------------------------------------------------------
(* Cohorts.                                                                *)

\* A record whose newest visual was accepted.
Accepted(r) == r.gen # 0 /\ r.drawn = r.gen

\* build_same_layout_edit_cohort: the members of one edit, when each replaces
\* itself in place.
EditMembers(f, seed) ==
    IF f.app[seed].edit = 0 THEN {seed} ELSE {k \in Keys : f.app[k].edit = f.app[seed].edit}

EditIncomplete(f, seed) ==
    f.app[seed].edit # 0 /\ Cardinality(EditMembers(f, seed)) < f.app[seed].size

SameLayout(f, seed) ==
    \/ EditIncomplete(f, seed)
    \/ \A k \in EditMembers(f, seed) :
          /\ k \notin f.retiring
          /\ Shown(f.sink[k])
          /\ Accepted(f.app[k]) => f.app[k].mask = f.sink[k].mask

\* Variant: a member that is ready does not wait for the others.
SeedCohort(f, seed) == [built |-> TRUE, in |-> {seed}, out |-> {}, blockers |-> {}, waiting |-> {}]

EditCohort(f, seed) ==
    [built |-> TRUE, in |-> EditMembers(f, seed), out |-> {}, blockers |-> {},
     waiting |-> IF EditIncomplete(f, seed) THEN EditMembers(f, seed) \cup {seed}
                 ELSE {k \in EditMembers(f, seed) : ~Accepted(f.app[k])}]

\* What a cohort draws at its end if k belongs to it or stays as it is.
Boundary(f, k) ==
    LET m == IF k \in f.target THEN PlannedMask(f.target, k) ELSE f.app[k].mask
        current == k \in f.indep => Draws(f.sink[k], f.app[k].gen, f.sink[k].mask)
    IN  [mask |-> m, current |-> current,
         compatible |-> Shown(f.sink[k]) /\ f.sink[k].mask = m /\ current]

\* Chunks that keep their generation and only change their mask.
Remasked(f) ==
    {k \in f.target : LET m == PlannedMask(f.target, k) IN
        /\ Shown(f.sink[k]) /\ f.sink[k].mask # m
        /\ Accepted(f.app[k]) /\ f.app[k].mask = m}

\* Retained chunks that cover what the cohort retires.
Retained(f, out, retirements) ==
    {k \in f.target \ retirements :
        /\ Among(k, out)
        /\ Shown(f.sink[k]) /\ f.sink[k].mask = PlannedMask(f.target, k)}

\* The part of the queues an isolated cohort looks at: the drawn chunk being
\* retired over the seed, or the seed alone.
Within(f, seed, isolate, S) ==
    LET over == {k \in f.retiring : Shown(f.sink[k]) /\ Cover[seed] \subseteq Cover[k]}
        root == IF over = {} THEN seed
                ELSE CHOOSE k \in over : \A j \in over : Lod[k] <= Lod[j]
    IN  IF isolate THEN {k \in S : Cover[k] \subseteq Cover[root]} ELSE S

\* build_gpu_publication_cohort
BuildCohort(f, seed, isolate) ==
    LET wanted == f.target \cup f.indep
        candidates == Within(f, seed, isolate,
            {k \in (f.pending \cup f.ready \cup Remasked(f)) \cap wanted : f.app[k].gen # 0})
        retirements == Within(f, seed, isolate, {k \in f.retiring : Shown(f.sink[k])})
        bound == [k \in {j \in wanted \ (retirements \ candidates) :
                            f.app[j].gen # 0 /\ (Shown(f.sink[j]) \/ j \in candidates)}
                  |-> Boundary(f, k)]
        cohort == Cohort(seed, candidates, retirements, bound)
    IN  IF SameLayout(f, seed) THEN EditCohort(f, seed)
        ELSE [cohort EXCEPT !.in = @ \cup Retained(f, cohort.out, retirements)]

Covered(c) == c.built /\ (c.out = {} \/ CompleteCoverage(c.in, c.out))

\* A member that can be swapped in, and one that already draws its newest.
PreparedMember(f, k) ==
    LET r == f.app[k] IN Accepted(r) /\ r.act /\ r.prep /\ CanSet(f.sink[k], r.gen, r.mask)
RetainedMember(f, k) ==
    LET r == f.app[k] IN Accepted(r) /\ r.ready /\ ~r.act /\ Draws(f.sink[k], r.gen, r.mask)

(* The renderer.  It calls the frame thread with the identities of chunks  *)
(* whose buffers it holds; how it orders the calls is its own affair.      *)

Holds(k) == front.app[k].gen # 0 /\ captures[k] = front.app[k].gen

\* A call about k names the frame's current visual of a chunk not retiring.
Seed(k) == Holds(k) /\ Accepted(front.app[k]) /\ k \notin front.retiring

\* Calls about chunks the interaction focuses on are isolated, and so are those
\* about atomic edits.
Isolated(k) == k \in Focus \/ front.app[k].edit # 0

\* reconcile_interaction_gpu_placeholder: asked about a capture whose visual
\* has not been drained, the frame takes its placeholder out of the queue.
Awaited(k) ==
    {i \in 1..Len(outbox) :
        /\ Holds(k) /\ front.app[k].drawn # front.app[k].gen
        /\ outbox[i].kind = "Render" /\ outbox[i].key = k /\ outbox[i].gen = front.app[k].gen
        /\ \A j \in 1..i - 1 : outbox[j].kind \in {"Expect", "Render"} =>
              outbox[j].key # k \/ outbox[j].gen # front.app[k].gen}

Overtake(k) ==
    \E i \in Awaited(k) :
        /\ front' = DrainRender(front, outbox[i])
        /\ outbox' = RemoveAt(outbox, i)
        /\ Drained(<<outbox[i]>>)
        /\ UNCHANGED <<runtime, forced, activated, captures, events>>

\* prepare_gpu_resident_render_chunk, for every chunk it is possible for.
Preparable ==
    {k \in Keys : LET r == front.app[k] IN
        Holds(k) /\ Accepted(r) /\ r.act /\ ~r.prep /\ CanSet(front.sink[k], r.gen, r.mask)}

Prepare ==
    /\ Preparable # {}
    /\ front' = [front EXCEPT !.app = [k \in Keys |->
            IF k \in Preparable THEN ConfirmPrepared(@[k], @[k].gen, @[k].mask) ELSE @[k]]]
    /\ UNCHANGED <<runtime, forced, activated, wire, captures, events>>

\* Variant: a marker lost to an earlier flush is not put back.
RecoveredNever(f, k) == f

\* Whether a seed's cohort may be looked for at all.
Admitted(f, k) == k \in f.indep \/ (k \in f.target /\ f.open = 0)

\* A prepared seed the plan still wants regains its lost replacement marker.
Recovered(f, k) ==
    LET r == f.app[k]
    IN  IF k \notin f.pending \cup f.ready /\ r.act /\ r.prep /\ ~r.ready /\ k \in f.target
        THEN StageReplacement(f, k, FALSE) ELSE f

\* The chunks a cohort cannot be completed without meshing again.
Demands(f, c) ==
    CASE ~c.built -> {Min(c.blockers)} \cap {k \in Keys : f.app[k].gen # 0}
      [] c.built /\ ~Covered(c) ->
            {k \in Keys \ c.in : f.app[k].gen # 0 /\ Among(k, c.out) /\ ~RetainedMember(f, k)}
      [] OTHER -> {k \in c.in \cap c.waiting : f.app[k].gen # 0}

\* get_gpu_resident_render_activation_cohort: what it leaves behind.
Queried(k) ==
    LET f == Recovered(front, k)
        publishes == \/ k \in f.pending \cup f.ready \cup f.indep
                     \/ Shown(f.sink[k]) /\ f.sink[k].mask # f.app[k].mask
        demands == {j \in Demands(f, BuildCohort(f, k, Isolated(k))) : f.asked[j] # f.app[j].gen}
    IN  IF publishes /\ Admitted(f, k)
        THEN [f EXCEPT !.asked = [j \in Keys |-> IF j \in demands THEN f.app[j].gen ELSE @[j]]]
        ELSE f

QueryDue(k, answered) == Seed(k) /\ answered # front

Query(k) ==
    LET answered == Queried(k) IN
    /\ QueryDue(k, answered)
    /\ front' = answered
    /\ forced' = forced \cup
            {<<j, front'.asked[j]>> : j \in {i \in Keys : front'.asked[i] # front.asked[i]}}
    /\ UNCHANGED <<runtime, activated, wire, captures, events>>

\* Variant: what the cohort retires is left to the retirement queue.
ActivatedOnly(f, c) ==
    LET entering == {k \in c.in : PreparedMember(f, k)}
    IN  [f EXCEPT
           !.sink = [k \in Keys |-> IF k \in entering
                THEN SetActive(f.sink[k], f.app[k].gen, f.app[k].mask, TRUE) ELSE f.sink[k]],
           !.app = [k \in Keys |-> IF k \in entering
                THEN ConfirmActivation(f.app[k], f.app[k].gen) ELSE f.app[k]]]

\* activate_gpu_resident_render_cohort: the swap.
Activated(f, c) ==
    LET entering == {k \in c.in : PreparedMember(f, k)}
        leaving == {k \in c.out \ c.in : Shown(f.sink[k])}
    IN  [f EXCEPT
           !.sink = [k \in Keys |->
                CASE k \in entering -> SetActive(@[k], f.app[k].gen, f.app[k].mask, TRUE)
                  [] k \in leaving -> SetActive(@[k], @[k].gen, @[k].mask, FALSE)
                  [] OTHER -> @[k]],
           !.app = [k \in Keys |->
                CASE k \in entering -> ConfirmActivation(@[k], @[k].gen)
                  [] k \in leaving -> RequestReactivation(@[k], f.sink[k].gen, f.sink[k].mask)
                  [] OTHER -> @[k]]]

\* What the swap of a cohort asks of it.
Activatable(c) ==
    /\ Covered(c) /\ c.waiting = {}
    /\ \A j \in c.in : Holds(j) /\ (PreparedMember(front, j) \/ RetainedMember(front, j))

CohortOf(k) == BuildCohort(front, k, Isolated(k))

ActivateDue(k, c, swapped) ==
    /\ Seed(k) /\ Admitted(front, k)
    /\ front.retiring # {} \/ \E j \in Keys : PreparedMember(front, j)
    /\ Activatable(c)
    /\ swapped # front

Activate(k) ==
    LET c == CohortOf(k)
        swapped == Activated(front, c)
    IN  /\ ActivateDue(k, c, swapped)
        /\ front' = swapped
        /\ activated' = activated \cup {j \in c.in : PreparedMember(front, j)}
        /\ UNCHANGED <<runtime, forced, wire, captures, events>>

\* reconcile_gpu_resident_render_chunks, for one chunk the renderer draws.
Reconcilable(k) ==
    /\ front.open = 0 /\ Shown(front.sink[k])
    /\ k \notin front.pending \cup front.ready \cup front.retiring

\* The drawn visual is still what the record wants.
Valid(r, s) == r.drawn = r.gen /\ r.gen = s.gen /\ (r.ready \/ r.act) /\ CanConfirm(r, s.gen)

Reconciled(k) ==
    LET s == front.sink[k]
    IN  IF Valid(front.app[k], s) THEN [front EXCEPT !.app[k] = ConfirmActivation(@, s.gen)]
        ELSE [front EXCEPT !.sink[k] = SetActive(s, s.gen, s.mask, FALSE)]

ReconcileDue(k) == Reconcilable(k) /\ Reconciled(k) # front

Reconcile(k) ==
    /\ ReconcileDue(k)
    /\ front' = Reconciled(k)
    /\ activated' = IF Valid(front.app[k], front.sink[k]) THEN activated \cup {k} ELSE activated
    /\ UNCHANGED <<runtime, forced, wire, captures, events>>

\* The renderer rejects a capture or evicts the buffers of a chunk not drawn.
LoseCapture(k) ==
    /\ Event
    /\ captures[k] # 0 /\ ~(Shown(front.sink[k]) /\ front.sink[k].gen = captures[k])
    /\ captures' = [captures EXCEPT ![k] = 0]
    /\ UNCHANGED <<runtime, forced, activated, wire, front>>

-----------------------------------------------------------------------------
Environment ==
    \/ \E p \in Plans : ChangePlan(p)
    \/ \E c \in EditCells : Edit(c)
    \/ \E k \in Faulty : Evict(k)
    \/ \E k \in Faulty : LoseCapture(k)

System ==
    \/ Remesh \/ HandleForced \/ Repair \/ Frame \/ Prepare
    \/ \E k \in Keys : Complete(k) \/ Overtake(k) \/ Query(k) \/ Activate(k) \/ Reconcile(k)

Next == Environment \/ System

\* Something is left to do.
Busy ==
    \/ outbox # <<>> \/ Meshing \/ forced # {} \/ RemeshDue \/ RepairDue
    \/ Preparable # {} \/ FrameDue
    \/ \E k \in Keys :
        \/ ReconcileDue(k) \/ QueryDue(k, Queried(k))
        \/ LET c == CohortOf(k) IN ActivateDue(k, c, Activated(front, c))

Spec == Init /\ [][Next]_vars

-----------------------------------------------------------------------------
\* No cell is drawn by two chunks at once: the frame hides every retired chunk
\* in the very step that shows the chunks replacing it.
NoOverlap ==
    \A o \in Overlapping :
        o[1] # o[2] => ~(Shown(front.sink[o[1]]) /\ Shown(front.sink[o[2]]))

\* The chunks of one edit that no newer plan retires.
Members(j) == EditMembers(front, j) \ front.retiring

\* While the plan is drawn in full, a chunk replaced by an edit is replaced
\* together with every other chunk of that edit, none of which is still to be
\* announced: the edit is swapped as one, however its publications arrive.
EditsAreAtomic ==
    [][\A j \in Keys \ front.retiring :
        /\ front.app[j].edit # 0
        /\ \A k \in front.target : Shown(front.sink[k])
        /\ front.sink[j].gen # front.app[j].gen
        /\ Shown(front.sink[j])' /\ front'.sink[j].gen = front.app[j].gen
        => /\ ~EditIncomplete(front, j)
           /\ \A k \in Members(j) : front'.sink[k].gen = front.app[k].gen]_front

ShownCells(f) == UNION {Cover[k] : k \in {j \in Keys : Shown(f.sink[j])}}

\* A step that uncovers a cell the newest drained plan wants covered.
Uncovers ==
    \E c \in ShownCells(front) \ ShownCells(front)' : \E k \in front'.target : c \in Cover[k]

\* Neither a swap nor a retirement opens a hole: whatever was evicted, edited or
\* planned meanwhile, what leaves is covered by what stays or comes.
SwapsKeepCoverage == [][Uncovers => \E k \in Keys : Reconcile(k)]_front

\* A chunk swapped in beside a coarser one whose planned mask has arrived finds
\* it sewn to the common face: the cohort holds both.
RefinementsAreSewn ==
    [][\A j \in {i \in Keys : Shown(front'.sink[i]) /\ ~Shown(front.sink[i])} :
        \A f \in Face : \A k \in Keys :
            /\ Touches(k, f, j) /\ Lod[j] + 1 = Lod[k]
            /\ Shown(front'.sink[k])
            /\ front'.app[k].mask = PlannedMask(front'.target, k)
            => f \in front'.sink[k].mask]_front

\* The newest plan is drawn, with its newest contents and its masks.
Settled ==
    \A k \in Keys :
        IF k \in plan THEN Draws(front.sink[k], sched[k].gen, PlannedMask(plan, k))
        ELSE ~Shown(front.sink[k])

NothingLost == \A k \in Keys : front.app[k].gen # 0 => captures[k] = front.app[k].gen

\* No edit waits for a member that was meshed again without it.
NoEditStranded == \A k \in Keys : ~EditIncomplete(front, k)

\* No mask was refused because an older one was still queued.
MasksArrived == \A k \in plan : cached[k] \in {NoMask, front.app[k].mask}

\* When nothing is left to do the newest plan is what is drawn: no chunk waits
\* for a call, a message or a repair that never comes, unless the renderer lost
\* its buffers, an edit lost a member or a mask was refused.
QuietIsSettled == NothingLost /\ NoEditStranded /\ MasksArrived => Settled \/ Busy

=============================================================================
