---------------------------- MODULE AsyncStorage ----------------------------
(***************************************************************************)
(* The asynchronous storage service: page requests in one priority queue,  *)
(* background workers and an interaction worker that load pages outside    *)
(* the lock, a bounded ring of completions, and the shutdown that joins    *)
(* the workers.  Requests come from the page-meshing runtime and from the  *)
(* interaction warm-up; a page is loaded once however many ask for it.     *)
(*                                                                         *)
(* Abstracted: what is in a page (a load succeeds or fails), metrics,      *)
(* traces.  A request's class follows from its priority, as both callers   *)
(* compute it.  The service is open; opening it again is not modelled.     *)
(***************************************************************************)
EXTENDS Integers, FiniteSets, Sequences, SequencesExt

CONSTANTS
    Pages,                \* page keys, numbers so that they have the code's key order
    Stored,               \* the pages of the open world's manifest
    Priorities,           \* request priorities
    FocusPriority,        \* kWtInteractionFocusPriority
    BackgroundWorkers, InteractionWorkers,
    RequestCapacity, InteractionReserve, CompletionCapacity

ASSUME StorageAssumption ==
    /\ Pages \subseteq Nat /\ IsFiniteSet(Pages) /\ Stored \subseteq Pages
    /\ Priorities \subseteq Nat /\ FocusPriority \in Priorities
    /\ BackgroundWorkers \cap InteractionWorkers = {}
    /\ RequestCapacity \in Nat /\ InteractionReserve \in Nat
    /\ InteractionReserve < RequestCapacity
    /\ InteractionReserve = 0 <=> InteractionWorkers = {}
    /\ CompletionCapacity \in Nat \ {0}

Sources == {"PageMeshing", "InteractionWarm"}

VARIABLES
    storage,  \* the state under the service's mutex, see StorageType
    workers   \* worker thread -> where it stands, with the page it holds

storageVars == <<storage, workers>>

Workers == BackgroundWorkers \cup InteractionWorkers

Request == [page : Pages, priority : Priorities, source : Sources, shared : BOOLEAN]

Completion == [page : Pages, ok : BOOLEAN]

StorageType ==
    /\ DOMAIN storage = {"queue", "active", "completed", "phase"}
    /\ storage.queue \in Seq(Request)       \* in the order of acceptance
    /\ Len(storage.queue) <= RequestCapacity
    /\ storage.active \subseteq Pages       \* requested, not yet popped
    /\ storage.completed \in Seq(Completion)
    /\ Len(storage.completed) <= CompletionCapacity
    /\ storage.phase \in {"open", "stopping", "closed"}
    /\ workers \in [Workers -> [at : {"idle", "exited"}]
                               \cup [at : {"loading"}, page : Pages]
                               \cup [at : {"loaded"}, page : Pages, ok : BOOLEAN]]

StorageInit ==
    /\ storage = [queue |-> <<>>, active |-> {}, completed |-> <<>>, phase |-> "open"]
    /\ workers = [w \in Workers |-> [at |-> "idle"]]

-----------------------------------------------------------------------------
(* request_page, cancel_queued_page and pop_completion, as functions of    *)
(* the service's state s: their callers make several calls in one step.    *)

Background(r) == r.priority < FocusPriority

QueuedAt(s, page) == SelectInSeq(s.queue, LAMBDA r : r.page = page)

\* The queue's shares: the reserve is kept from new background requests.
QueueFull(s, priority) ==
    \/ Len(s.queue) >= RequestCapacity
    \/ /\ priority < FocusPriority
       /\ InteractionReserve > 0
       /\ Cardinality({i \in DOMAIN s.queue : Background(s.queue[i])})
             >= RequestCapacity - InteractionReserve

RequestStatus(s, page, priority) ==
    CASE page \notin Stored     -> "PageNotFound"
      [] page \in s.active      -> "AlreadyPending"
      [] QueueFull(s, priority) -> "RequestQueueFull"
      [] OTHER                  -> "Ok"

\* Variant: a second owner leaves no mark on the request.
NotShared(s, page, priority, source) ==
    LET at == QueuedAt(s, page)
    IN  IF at = 0 THEN s ELSE [s EXCEPT !.queue[at].priority = priority]

\* A duplicate takes over the queued request's priority and marks it shared.
Coalesced(s, page, priority, source) ==
    LET at == QueuedAt(s, page)
    IN  IF at = 0 THEN s
        ELSE [s EXCEPT !.queue[at].priority = priority,
                       !.queue[at].shared = @ \/ s.queue[at].source # source]

Accepted(s, page, priority, source) ==
    [s EXCEPT !.queue = Append(@, [page |-> page, priority |-> priority,
                                   source |-> source, shared |-> FALSE]),
              !.active = @ \cup {page}]

RequestPage(s, page, priority, source) ==
    CASE RequestStatus(s, page, priority) = "Ok" -> Accepted(s, page, priority, source)
      [] RequestStatus(s, page, priority) = "AlreadyPending" ->
            Coalesced(s, page, priority, source)
      [] OTHER -> s

\* Only work nobody started and nobody else asked for is cancelled.
CancelQueued(s, page, source) ==
    LET at == QueuedAt(s, page)
    IN  IF at # 0 /\ s.queue[at].source = source /\ ~s.queue[at].shared
        THEN [s EXCEPT !.queue = RemoveAt(@, at), !.active = @ \ {page}]
        ELSE s

\* Variant: a popped page stays pending.
PopKeepingPending(s) == [s EXCEPT !.completed = Tail(@)]

PopCompletion(s) ==
    [s EXCEPT !.completed = Tail(@), !.active = @ \ {Head(s.completed).page}]

-----------------------------------------------------------------------------
(* The workers.  A request is served by a worker of its class, or by any   *)
(* when no interaction worker exists; the highest priority goes first.     *)

Serves(w, r) ==
    InteractionReserve = 0 \/ (w \in BackgroundWorkers <=> Background(r))

\* The request a worker would take, 0 if there is none.
Selected(w) ==
    SelectInSeq(storage.queue,
        LAMBDA r : Serves(w, r) /\ \A q \in ToSet(storage.queue) :
                                      Serves(w, q) => q.priority <= r.priority)

StartLoad(w) ==
    /\ workers[w].at = "idle" /\ storage.phase = "open"
    /\ Selected(w) # 0
    /\ workers' = [workers EXCEPT ![w] =
                     [at |-> "loading", page |-> storage.queue[Selected(w)].page]]
    /\ storage' = [storage EXCEPT !.queue = RemoveAt(@, Selected(w))]

\* load_page and the decoding, outside the lock.
FinishLoad(w) ==
    /\ workers[w].at = "loading"
    /\ \E ok \in BOOLEAN :
          workers' = [workers EXCEPT ![w] =
                        [at |-> "loaded", page |-> workers[w].page, ok |-> ok]]
    /\ UNCHANGED storage

\* A full completion ring holds the worker back; nothing is dropped.
Deliver(w) ==
    /\ workers[w].at = "loaded" /\ storage.phase = "open"
    /\ Len(storage.completed) < CompletionCapacity
    /\ storage' = [storage EXCEPT !.completed =
                     Append(@, [page |-> workers[w].page, ok |-> workers[w].ok])]
    /\ workers' = [workers EXCEPT ![w] = [at |-> "idle"]]

\* Variant: a worker waiting for a completion slot does not look at the stop.
LeavesIdleOnly(w) == workers[w].at = "idle" /\ storage.phase = "stopping"

\* stop_requested_ ends both of a worker's waits.
Leaves(w) == workers[w].at \in {"idle", "loaded"} /\ storage.phase = "stopping"

WorkerExits(w) ==
    /\ Leaves(w)
    /\ workers' = [workers EXCEPT ![w] = [at |-> "exited"]]
    /\ UNCHANGED storage

WorkerStep(w) == StartLoad(w) \/ FinishLoad(w) \/ Deliver(w) \/ WorkerExits(w)

\* close: stop under the lock, join outside it, reset under it.
BeginClose ==
    /\ storage.phase = "open"
    /\ storage' = [storage EXCEPT !.phase = "stopping", !.queue = <<>>]
    /\ UNCHANGED workers

EndClose ==
    /\ storage.phase = "stopping"
    /\ \A w \in Workers : workers[w].at = "exited"
    /\ storage' = [queue |-> <<>>, active |-> {}, completed |-> <<>>, phase |-> "closed"]
    /\ UNCHANGED workers

-----------------------------------------------------------------------------
(* The service alone, under any callers: they may make any call at any     *)
(* time while it is open.  Every step of PageLoading is some of these      *)
(* calls, one after another, or a step of a worker or of close.            *)

Call ==
    /\ storage.phase = "open"
    /\ \/ \E page \in Pages, priority \in Priorities, source \in Sources :
             storage' = RequestPage(storage, page, priority, source)
       \/ \E page \in Pages, source \in Sources :
             storage' = CancelQueued(storage, page, source)
       \/ storage.completed # <<>> /\ storage' = PopCompletion(storage)
    /\ UNCHANGED workers

ServiceNext ==
    \/ Call \/ BeginClose \/ EndClose
    \/ \E w \in Workers : WorkerStep(w)

ServiceSpec == StorageInit /\ [][ServiceNext]_storageVars

-----------------------------------------------------------------------------
(* Properties of the service, whoever its callers are.                     *)

Held(w) == IF workers[w].at \in {"loading", "loaded"} THEN {workers[w].page} ELSE {}

Places(page) ==
    Cardinality({i \in DOMAIN storage.queue : storage.queue[i].page = page})
    + Cardinality({w \in Workers : page \in Held(w)})
    + Cardinality({i \in DOMAIN storage.completed : storage.completed[i].page = page})

\* While the service is open, an active page is in exactly one place, the
\* queue, a worker's hands or the completion ring, and every page there is
\* active.  An active page in no place would be refused as AlreadyPending for
\* ever; one in two places would be loaded and delivered twice.
ActiveIsOnePlace ==
    storage.phase = "open" =>
        \A page \in Pages : Places(page) = IF page \in storage.active THEN 1 ELSE 0
=============================================================================
