-------------------------- MODULE PublicationQueue --------------------------
(***************************************************************************)
(* The bounded priority and normal publication rings between the runtime   *)
(* thread and the Godot frame thread.  The runtime thread pushes           *)
(* (push_publication) and blocks on a full ring; the frame thread pops     *)
(* from its two callbacks, _physics_process and _process, which select     *)
(* publications in different orders, keep one publication back when a      *)
(* render or collision budget is spent, and stop or destroy the world.     *)
(*                                                                         *)
(* Abstracted: payload contents, timing (any deadline may expire after the *)
(* first publication of a frame), and the GPU placeholder claims.  The     *)
(* controls that no pop treats specially (SetVisualRequired, RemoveChunk,  *)
(* the viewer-plan brackets) are one kind, as are the edit, sample and     *)
(* snapshot answers.                                                       *)
(***************************************************************************)
EXTENDS Integers, Sequences, SequencesExt

CONSTANTS
    Keys,               \* chunk keys
    Urgencies,          \* 2 if interaction_critical, plus 1 if committed_edit
    None,               \* no publication
    PriorityCapacity, NormalCapacity,
    RenderBudget,       \* render payloads applied per frame
    CollisionBudget,    \* collision payloads applied per physics tick
    MaxDrain,           \* publications drained per frame
    MaxGeneration       \* the runtime announces no generation beyond this one

ASSUME PublicationAssumption ==
    /\ Keys # {} /\ Urgencies \subseteq 0..3
    /\ PriorityCapacity \in Nat \ {0} /\ NormalCapacity \in Nat \ {0}
    /\ RenderBudget \in Nat /\ CollisionBudget \in Nat
    /\ MaxDrain \in Nat \ {0} /\ MaxGeneration \in Nat

VARIABLES
    priority, normal,   \* the two rings, oldest publication first
    announced,          \* runtime: newest generation announced for each chunk, 0 if none
    pc,                 \* runtime: where push_publication stands
    pending,            \* runtime: the publication a waiting push holds
    stop,               \* request_stop: "No", flag "Stored", waiters "Notified"
    frame,              \* frame thread: the callback or call it is in
    drained, renders,   \* frame thread: publications, render payloads of this frame
    deferred,           \* frame thread: the publication kept back by a budget
    expected,           \* history: <<key, generation>> whose ExpectChunk was applied
    orphans             \* history: payloads applied before their ExpectChunk

vars == <<priority, normal, announced, pc, pending, stop, frame, drained, renders,
          deferred, expected, orphans>>

Generations == 0..MaxGeneration

Publication ==
    [kind : {"Expect", "SetCollision", "Control", "Collision", "Render", "Answer"},
     key : Keys, generation : Generations,
     urgency : 0..3, staged : BOOLEAN, required : BOOLEAN]

ASSUME NoPublication == None \notin Publication

Payload(p) == p.kind \in {"Collision", "Render"}

Critical(p) == p.urgency >= 2

Version(p) == <<p.key, p.generation>>

\* Variant: chunk controls take the normal ring, behind any staged payload.
PayloadsFirst(p) == p.kind = "Collision" \/ (p.kind = "Render" /\ p.staged)

\* is_priority_publication
IsPriority(p) ==
    \/ p.kind \in {"Expect", "SetCollision", "Control", "Collision"}
    \/ p.kind = "Render" /\ p.staged

-----------------------------------------------------------------------------
(* Selecting in a ring.  0 stands for "none".                              *)

\* Variant: a collision payload leaves the ring ahead of its prerequisites.
FrontOfAny(ring, i) == i

\* The first ExpectChunk or collision requirement the payload at i depends
\* on, or i itself: what leaves the ring when that payload is selected.
FrontOf(ring, i) ==
    SelectInSubSeq(ring, 1, i,
        LAMBDA p : /\ Version(p) = Version(ring[i])
                   /\ \/ p.kind = "Expect"
                      \/ p.kind = "SetCollision" /\ p.required
                      \/ p = ring[i])

\* pop_interaction_collision_publication.  Collision payloads only ever enter
\* the priority ring; the most urgent class wins, the oldest within it.
NextCollision ==
    LET best == SelectInSeq(priority,
                    LAMBDA p : /\ p.kind = "Collision"
                               /\ \A q \in ToSet(priority) :
                                      q.kind = "Collision" => q.urgency <= p.urgency)
    IN IF best = 0 THEN 0 ELSE FrontOf(priority, best)

NotCollision(p) == p.kind # "Collision"

NotPayload(p) == ~Payload(p)

Indices(ring, Test(_)) == {i \in DOMAIN ring : Test(ring[i])}

\* The ring from which a pop with this filter takes its oldest match.
RingWith(Test(_)) ==
    IF Indices(priority, Test) # {} THEN "priority"
    ELSE IF Indices(normal, Test) # {} THEN "normal" ELSE "neither"

\* Variant: a pop leaves a blocked push asleep.
SleepThrough == pc

\* publication_space_available_.notify_one(): the push is the only waiter.
Notified == IF pc = "Blocked" THEN "Woken" ELSE pc

\* A pop needs publication_mutex_, which a push holds while it tests for room.
MutexFree == pc # "Checked"

\* pop_non_collision_publication and pop_unbudgeted_publication, handing the
\* publication they take to Use.
TakeOldest(Test(_), Use(_)) ==
    /\ MutexFree
    /\ \/ /\ RingWith(Test) = "priority"
          /\ LET i == SelectInSeq(priority, Test)
             IN priority' = RemoveAt(priority, i) /\ Use(priority[i])
          /\ UNCHANGED normal
       \/ /\ RingWith(Test) = "normal"
          /\ LET i == SelectInSeq(normal, Test)
             IN normal' = RemoveAt(normal, i) /\ Use(normal[i])
          /\ UNCHANGED priority
    /\ pc' = Notified

\* pop_interaction_collision_publication.
TakeCollision(Use(_)) ==
    /\ MutexFree
    /\ NextCollision # 0
    /\ priority' = RemoveAt(priority, NextCollision)
    /\ Use(priority[NextCollision])
    /\ pc' = Notified
    /\ UNCHANGED normal

-----------------------------------------------------------------------------
(* The runtime thread.                                                     *)

Plain(kind, k, g) == [kind |-> kind, key |-> k, generation |-> g,
                      urgency |-> 0, staged |-> FALSE, required |-> FALSE]

\* What the runtime may say of a generation it has announced ...
About(k, g) ==
    {Plain("Expect", k, g)}
    \cup {[Plain("SetCollision", k, g) EXCEPT !.required = r] : r \in BOOLEAN}
    \cup {[Plain("Collision", k, g) EXCEPT !.urgency = u] : u \in Urgencies}
    \cup {[Plain("Render", k, g) EXCEPT !.staged = s] : s \in BOOLEAN}

\* ... and all it may publish next: the scheduler draws the generations of all
\* chunks from one counter.
Offers ==
    LET someKey == CHOOSE k \in Keys : TRUE
        Fresh == {g \in Generations : \A k \in Keys : announced[k] < g}
    IN {Plain(kind, someKey, 0) : kind \in {"Control", "Answer"}}
       \cup (UNION {About(k, announced[k]) : k \in {j \in Keys : announced[j] # 0}})
       \cup {Plain("Expect", k, g) : k \in Keys, g \in Fresh}

\* Variant: queued collision payloads are not looked for.
NeverQueued(p) == FALSE

\* contains_same_collision
AlreadyQueued(p) ==
    /\ p.kind = "Collision"
    /\ \E q \in ToSet(priority) \cup ToSet(normal) :
           q.kind = "Collision" /\ Version(q) = Version(p)

\* Variant: a push does not wait for room.
AlwaysRoom(p) == TRUE

Room(p) == IF IsPriority(p) THEN Len(priority) < PriorityCapacity
                            ELSE Len(normal) < NormalCapacity

Enqueue(p) ==
    IF IsPriority(p) THEN priority' = Append(priority, p) /\ UNCHANGED normal
                     ELSE normal' = Append(normal, p) /\ UNCHANGED priority

\* push_publication, up to its wait.  A queued duplicate, and any push after
\* the stop flag is stored, return at once and change nothing.
Push ==
    /\ pc = "Running" /\ stop = "No"
    /\ \E p \in Offers :
         /\ ~AlreadyQueued(p)
         /\ announced' = IF p.kind = "Expect"
                         THEN [announced EXCEPT ![p.key] = p.generation] ELSE announced
         /\ \/ Room(p) /\ Enqueue(p) /\ UNCHANGED <<pc, pending>>
            \/ /\ ~Room(p)
               /\ pc' = "Checked" /\ pending' = p
               /\ UNCHANGED <<priority, normal>>
    /\ UNCHANGED <<stop, frame, drained, renders, deferred, expected, orphans>>

\* The predicate was false: the wait releases the mutex and blocks.
Block ==
    /\ pc = "Checked"
    /\ pc' = "Blocked"
    /\ UNCHANGED <<priority, normal, announced, pending, stop, frame, drained, renders,
                   deferred, expected, orphans>>

\* condition_variable::wait may return unnotified.
SpuriousWakeup ==
    /\ pc = "Blocked"
    /\ pc' = "Woken"
    /\ UNCHANGED <<priority, normal, announced, pending, stop, frame, drained, renders,
                   deferred, expected, orphans>>

\* The woken push reacquires the mutex and tests its predicate again.
Retry ==
    /\ pc = "Woken"
    /\ \/ /\ stop # "No"
          /\ pc' = "Running" /\ pending' = None
          /\ UNCHANGED <<priority, normal>>
       \/ /\ stop = "No" /\ Room(pending)
          /\ Enqueue(pending)
          /\ pc' = "Running" /\ pending' = None
       \/ /\ stop = "No" /\ ~Room(pending)
          /\ pc' = "Checked"
          /\ UNCHANGED <<priority, normal, pending>>
    /\ UNCHANGED <<announced, stop, frame, drained, renders, deferred, expected, orphans>>

\* run() sees the stop flag and returns; control_main then destroys the
\* runtime and its rings under state_mutex_, which request_stop holds.
RunReturns ==
    /\ pc = "Running" /\ stop # "No"
    /\ pc' = "Returned"
    /\ UNCHANGED <<priority, normal, announced, pending, stop, frame, drained, renders,
                   deferred, expected, orphans>>

DestroyRuntime ==
    /\ pc = "Returned" /\ frame \notin {"StopCall", "JoinCall"}
    /\ pc' = "Destroyed"
    /\ priority' = <<>> /\ normal' = <<>>
    /\ UNCHANGED <<announced, pending, stop, frame, drained, renders, deferred,
                   expected, orphans>>

-----------------------------------------------------------------------------
(* The frame thread.                                                       *)

\* The application is given an expectation, a control, an answer or a payload.
Apply(p) ==
    /\ expected' = IF p.kind = "Expect" THEN expected \cup {Version(p)} ELSE expected
    /\ orphans' = IF Payload(p) /\ Version(p) \notin expected
                  THEN orphans \cup {Version(p)} ELSE orphans

\* One publication of drain_interaction_collision_publications_at_physics_boundary.
PhysicsTake ==
    /\ frame = "Idle" /\ CollisionBudget > 0
    /\ TakeCollision(Apply)
    /\ UNCHANGED <<announced, pending, stop, frame, drained, renders, deferred>>

\* _process begins: drain_world_publications.
BeginFrame ==
    /\ frame = "Idle"
    /\ frame' = "Drain"
    /\ UNCHANGED <<priority, normal, announced, pc, pending, stop, drained, renders,
                   deferred, expected, orphans>>

\* No collision payload counts against a budget inside the drain: the counter
\* of collision publications it is passed stays zero.
OverBudget(p) ==
    \/ p.kind = "Render" /\ renders >= RenderBudget
    \/ p.kind = "Collision" /\ ~Critical(p) /\ CollisionBudget = 0

\* The drain's switch: a collision payload is answered InvalidInput.
Switch(p) ==
    /\ IF p.kind = "Collision" THEN UNCHANGED <<expected, orphans>> ELSE Apply(p)
    /\ renders' = IF p.kind = "Render" THEN renders + 1 ELSE renders
    /\ drained' = drained + 1
    /\ frame' = "Drain"

\* Within budget, dispatch; else keep p back (in place of anything kept back
\* before) and let an unbudgeted publication overtake it.
Dispatch(p) ==
    \/ OverBudget(p) /\ deferred' = p /\ frame' = "Overtake"
       /\ UNCHANGED <<drained, renders, expected, orphans>>
    \/ ~OverBudget(p) /\ Switch(p) /\ UNCHANGED deferred

DispatchDeferred(p) ==
    \/ OverBudget(p) /\ frame' = "Overtake"
       /\ UNCHANGED <<drained, renders, deferred, expected, orphans>>
    \/ ~OverBudget(p) /\ Switch(p) /\ deferred' = None

DeferredIsCritical == deferred.kind = "Collision" /\ Critical(deferred)

\* One iteration of the drain loop, up to the choice of a publication.
DrainNext ==
    /\ frame = "Drain" /\ drained < MaxDrain
    /\ \/ deferred = None /\ TakeOldest(NotCollision, Dispatch)
       \/ deferred # None /\ ~DeferredIsCritical /\ TakeCollision(Dispatch)
       \/ /\ deferred # None /\ MutexFree
          /\ DeferredIsCritical \/ NextCollision = 0
          /\ DispatchDeferred(deferred)
          /\ UNCHANGED <<priority, normal, pc>>
    /\ UNCHANGED <<announced, pending, stop>>

\* pop_unbudgeted_publication, when the chosen publication was kept back.
DrainOvertake ==
    /\ frame = "Overtake"
    /\ TakeOldest(NotPayload, Switch)
    /\ UNCHANGED <<announced, pending, stop, deferred>>

NothingFor(Test(_)) == MutexFree /\ RingWith(Test) = "neither"

\* The loop ends: nothing to take, 32 publications, or 2 ms after the first.
\* The rest of _process takes no publication.
EndFrame ==
    /\ \/ frame = "Drain" /\ drained > 0
       \/ frame = "Drain" /\ deferred = None /\ NothingFor(NotCollision)
       \/ frame = "Overtake" /\ NothingFor(NotPayload)
    /\ frame' = "Idle" /\ drained' = 0 /\ renders' = 0
    /\ UNCHANGED <<priority, normal, announced, pc, pending, stop, deferred, expected,
                   orphans>>

\* stop_world() and the destructor's shutdown_blocking(): request_stop first
\* stores the flag ...
RequestStop ==
    /\ frame = "Idle"
    /\ \/ stop = "No" /\ stop' = "Stored" /\ frame' \in {"StopCall", "JoinCall"}
       \/ stop = "Notified" /\ frame' = "Joining" /\ UNCHANGED stop
    /\ UNCHANGED <<priority, normal, announced, pc, pending, drained, renders, deferred,
                   expected, orphans>>

\* ... and then notifies, without taking publication_mutex_.
NotifyStop ==
    /\ frame \in {"StopCall", "JoinCall"}
    /\ stop' = "Notified"
    /\ pc' = Notified
    /\ frame' = IF frame = "StopCall" THEN "Idle" ELSE "Joining"
    /\ UNCHANGED <<priority, normal, announced, pending, drained, renders, deferred,
                   expected, orphans>>

\* The destructor has joined the control thread.
Joined ==
    /\ frame = "Joining" /\ pc = "Destroyed"
    /\ frame' = "Gone"
    /\ UNCHANGED <<priority, normal, announced, pc, pending, stop, drained, renders,
                   deferred, expected, orphans>>

-----------------------------------------------------------------------------

Init ==
    /\ priority = <<>> /\ normal = <<>>
    /\ announced = [k \in Keys |-> 0]
    /\ pc = "Running" /\ pending = None
    /\ stop = "No"
    /\ frame = "Idle" /\ drained = 0 /\ renders = 0
    /\ deferred = None
    /\ expected = {} /\ orphans = {}

RuntimeStep == Block \/ Retry \/ RunReturns \/ DestroyRuntime

DrainStep == DrainNext \/ DrainOvertake \/ EndFrame

Next ==
    \/ Push \/ Block \/ SpuriousWakeup \/ Retry \/ RunReturns \/ DestroyRuntime
    \/ PhysicsTake \/ BeginFrame \/ DrainNext \/ DrainOvertake \/ EndFrame
    \/ RequestStop \/ NotifyStop \/ Joined

\* The runtime may never publish again and nobody need stop the world; but a
\* thread inside a call goes on, the engine keeps running both callbacks, and
\* the frame thread gets the mutex that a push takes and releases repeatedly.
Fairness ==
    /\ WF_vars(RuntimeStep)
    /\ WF_vars(BeginFrame) /\ SF_vars(DrainStep) /\ SF_vars(PhysicsTake)
    /\ WF_vars(NotifyStop) /\ WF_vars(Joined)

Spec == Init /\ [][Next]_vars /\ Fairness

-----------------------------------------------------------------------------
(* Properties.                                                             *)

\* Types, and the rings keep within the slots allocated for them, although a
\* push tests for room before it sleeps and again after it is woken.
TypeOK ==
    /\ priority \in Seq(Publication) /\ Len(priority) <= PriorityCapacity
    /\ normal \in Seq(Publication) /\ Len(normal) <= NormalCapacity
    /\ announced \in [Keys -> Generations]
    /\ pc \in {"Running", "Checked", "Blocked", "Woken", "Returned", "Destroyed"}
    /\ pending \in Publication \cup {None}
    /\ (pending # None) = (pc \in {"Checked", "Blocked", "Woken"})
    /\ stop \in {"No", "Stored", "Notified"}
    /\ frame \in {"Idle", "Drain", "Overtake", "StopCall", "JoinCall", "Joining", "Gone"}
    /\ drained \in 0..MaxDrain /\ renders \in 0..RenderBudget
    /\ deferred \in Publication \cup {None}
    /\ expected \subseteq Keys \X Generations
    /\ orphans \subseteq Keys \X Generations

\* Whatever order the two callbacks take publications in, over two rings and
\* the deferred slot, no render or collision payload reaches the application
\* before the ExpectChunk of its generation: the application would drop it.
PayloadAfterExpect == orphans = {}

\* A readiness repair that publishes a collision payload again does not queue
\* a second copy: at most one payload of a chunk generation is in the rings.
OneCollisionQueued ==
    \A ring \in {priority, normal} : \A i, j \in DOMAIN ring :
        /\ ring[i].kind = "Collision" /\ ring[j].kind = "Collision"
        /\ Version(ring[i]) = Version(ring[j])
        => i = j

\* While frames run, a push that found its ring full returns: no order of
\* pops, budgets, deferrals and stop requests leaves the runtime asleep.
PushReturns ==
    pc = "Blocked" ~> (pc \notin {"Checked", "Blocked", "Woken"} \/ frame = "Joining")

\* An ExpectChunk in a ring is applied although payloads are kept back by the
\* budgets and the runtime goes on publishing, unless the world is stopped.
ExpectApplied ==
    \A k \in Keys, g \in Generations :
        (\E p \in ToSet(priority) \cup ToSet(normal) :
             p.kind = "Expect" /\ Version(p) = <<k, g>>)
            ~> (<<k, g>> \in expected \/ stop # "No")

\* docs/contracts/PRODUCTION_READ_ONLY_STREAMING_CONTRACT.md:138: "Stopping
\* wakes all waits".  The code's request_stop can notify between a push's test
\* of its predicate and its sleep; then nothing wakes it if the frame thread
\* has gone on to join the runtime.
StoppingWakesAllWaits == stop = "Notified" ~> pc = "Destroyed"

=============================================================================
