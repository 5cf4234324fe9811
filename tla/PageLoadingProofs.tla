-------------------------- MODULE PageLoadingProofs --------------------------
(***************************************************************************)
(* Theorems about the asynchronous storage service under any callers, and  *)
(* about the page-meshing runtime that calls it, for every value of their  *)
(* constants: a requested page is in exactly one place until it is handed  *)
(* over, no record waits for a page that is not on its way, and a mesh job *)
(* finds its record with every page pinned.                                *)
(***************************************************************************)
EXTENDS PageLoading, SequenceLemmas, FiniteSetTheorems

\* A page among the entries of the queue or of the completion ring.
Among(s, page) == \E i \in 1..Len(s) : s[i].page = page

Distinct(s) == \A i, j \in 1..Len(s) : s[i].page = s[j].page => i = j

\* A worker that has a page in its hands.
Holds(threads, w) == threads[w].at \in {"loading", "loaded"}

InHands(threads, page) == \E w \in Workers : Holds(threads, w) /\ threads[w].page = page

\* A page is in one place at most, and the active pages are those in a place.
OnePlace(queue, active, completed, threads) ==
    /\ Distinct(queue) /\ Distinct(completed)
    /\ \A w, v \in Workers :
          Holds(threads, w) /\ Holds(threads, v) /\ threads[w].page = threads[v].page => w = v
    /\ \A page \in Pages :
          /\ ~(Among(queue, page) /\ Among(completed, page))
          /\ ~(Among(queue, page) /\ InHands(threads, page))
          /\ ~(Among(completed, page) /\ InHands(threads, page))
          /\ page \in active <=>
                \/ Among(queue, page) \/ InHands(threads, page) \/ Among(completed, page)

\* What the service has under its mutex, and its workers, each alone.
ServiceType(s) ==
    /\ DOMAIN s = {"queue", "active", "completed", "phase"}
    /\ s.queue \in Seq(Request) /\ Len(s.queue) <= RequestCapacity
    /\ s.active \subseteq Pages
    /\ s.completed \in Seq(Completion) /\ Len(s.completed) <= CompletionCapacity
    /\ s.phase \in {"open", "stopping", "closed"}

ThreadsType(threads) ==
    threads \in [Workers -> [at : {"idle", "exited"}]
                            \cup [at : {"loading"}, page : Pages]
                            \cup [at : {"loaded"}, page : Pages, ok : BOOLEAN]]

\* An open service whose pages are in one place each.
Open(s, threads) ==
    /\ ServiceType(s) /\ s.phase = "open"
    /\ OnePlace(s.queue, s.active, s.completed, threads)

\* A page of the queue whose request the interaction warm-up may not cancel.
Kept(queue, page) ==
    \A i \in 1..Len(queue) :
        queue[i].page = page => queue[i].source = "PageMeshing" \/ queue[i].shared

\* A page that is on its way and stays so while no record gives it up.
Safe(s, page) == page \in s.active /\ Kept(s.queue, page)

PlaceInv ==
    storage.phase = "open" =>
        OnePlace(storage.queue, storage.active, storage.completed, workers)

IInv == StorageType /\ PlaceInv

-----------------------------------------------------------------------------
(* Entries that come and go.                                               *)

LEMMA AppendPages ==
    ASSUME NEW S, NEW s \in Seq(S), NEW e \in S
    PROVE  /\ \A page : Among(Append(s, e), page) <=> Among(s, page) \/ page = e.page
           /\ Distinct(s) /\ ~Among(s, e.page) => Distinct(Append(s, e))
<1> DEFINE t == Append(s, e)
<1>1. /\ t \in Seq(S) /\ Len(t) = Len(s) + 1 /\ t[Len(s) + 1] = e
      /\ \A i \in 1..Len(s) : t[i] = s[i]
  BY AppendElements
<1>2. Len(s) \in Nat
  OBVIOUS
<1>. HIDE DEF t
<1>3. \A i \in 1..Len(t) : i \in 1..Len(s) \/ i = Len(s) + 1
  BY <1>1, <1>2
<1>4. \A i \in 1..Len(s) : i \in 1..Len(t)
  BY <1>1, <1>2
<1>5. Len(s) + 1 \in 1..Len(t)
  BY <1>1, <1>2
<1>6. \A page : Among(t, page) <=> Among(s, page) \/ page = e.page
  BY <1>1, <1>3, <1>4, <1>5 DEF Among
<1>7. Distinct(s) /\ ~Among(s, e.page) => Distinct(t)
  BY <1>1, <1>3 DEF Distinct, Among
<1>. QED  BY <1>6, <1>7 DEF t

LEMMA RemovePages ==
    ASSUME NEW S, NEW s \in Seq(S), NEW at \in 1..Len(s), Distinct(s)
    PROVE  /\ \A page : Among(RemoveAt(s, at), page) <=> Among(s, page) /\ page # s[at].page
           /\ Distinct(RemoveAt(s, at))
<1> DEFINE t == RemoveAt(s, at)
<1>1. /\ \A a \in 1..Len(t) : \E b \in 1..Len(s) :
             t[a] = s[b] /\ ((b = a /\ a < at) \/ (b = a + 1 /\ b > at))
      /\ \A b \in 1..Len(s) : b # at => \E a \in 1..Len(t) :
             t[a] = s[b] /\ ((a = b /\ b < at) \/ (a = b - 1 /\ b > at))
  BY RemoveAtPlaces
<1>. HIDE DEF t
<1>2. \A a \in 1..Len(t) : \E b \in 1..Len(s) : t[a] = s[b] /\ b # at
  <2>1. TAKE a \in 1..Len(t)
  <2>2. PICK b \in 1..Len(s) :
            t[a] = s[b] /\ ((b = a /\ a < at) \/ (b = a + 1 /\ b > at))
    BY <1>1
  <2>. QED  BY <2>2
<1>3. ASSUME NEW page PROVE Among(t, page) <=> Among(s, page) /\ page # s[at].page
  <2>1. ASSUME NEW a \in 1..Len(t), t[a].page = page
        PROVE  Among(s, page) /\ page # s[at].page
    BY <1>2, <2>1 DEF Among, Distinct
  <2>2. ASSUME NEW b \in 1..Len(s), s[b].page = page, page # s[at].page
        PROVE  Among(t, page)
    BY <1>1, <2>2 DEF Among
  <2>. QED  BY <2>1, <2>2 DEF Among
<1>4. Distinct(t)
  <2>1. SUFFICES ASSUME NEW i \in 1..Len(t), NEW j \in 1..Len(t), t[i].page = t[j].page
                 PROVE  i = j
    BY DEF Distinct
  <2>2. PICK b \in 1..Len(s) : t[i] = s[b] /\ ((b = i /\ i < at) \/ (b = i + 1 /\ b > at))
    BY <1>1
  <2>3. PICK c \in 1..Len(s) : t[j] = s[c] /\ ((c = j /\ j < at) \/ (c = j + 1 /\ c > at))
    BY <1>1
  <2>4. b = c
    BY <2>1, <2>2, <2>3 DEF Distinct
  <2>. QED  BY <2>2, <2>3, <2>4
<1>. QED  BY <1>3, <1>4 DEF t

LEMMA TailPages ==
    ASSUME NEW S, NEW s \in Seq(S), s # <<>>, Distinct(s)
    PROVE  /\ \A page : Among(Tail(s), page) <=> Among(s, page) /\ page # Head(s).page
           /\ Distinct(Tail(s)) /\ Among(s, Head(s).page)
<1> DEFINE t == Tail(s)
<1>1. /\ Len(s) \in Nat \ {0} /\ Head(s) = s[1] /\ Len(t) = Len(s) - 1
      /\ \A i \in 1..Len(s) - 1 : t[i] = s[i + 1]
  BY HeadTailElements
<1>. HIDE DEF t
<1>2. \A i \in 1..Len(t) : i + 1 \in 1..Len(s) /\ t[i] = s[i + 1] /\ i + 1 # 1
  BY <1>1
<1>3. \A b \in 1..Len(s) : b # 1 => b - 1 \in 1..Len(t) /\ t[b - 1] = s[b]
  <2>1. TAKE b \in 1..Len(s)
  <2>2. HAVE b # 1
  <2>3. b - 1 \in 1..Len(s) - 1 /\ (b - 1) + 1 = b
    BY <1>1, <2>2
  <2>. QED  BY <1>1, <2>3
<1>4. 1 \in 1..Len(s)
  BY <1>1
<1>5. ASSUME NEW page PROVE Among(t, page) <=> Among(s, page) /\ page # s[1].page
  <2>1. ASSUME NEW a \in 1..Len(t), t[a].page = page
        PROVE  Among(s, page) /\ page # s[1].page
    BY <1>2, <1>4, <2>1 DEF Among, Distinct
  <2>2. ASSUME NEW b \in 1..Len(s), s[b].page = page, page # s[1].page
        PROVE  Among(t, page)
    BY <1>3, <2>2 DEF Among
  <2>. QED  BY <2>1, <2>2 DEF Among
<1>6. Distinct(t)
  <2>1. SUFFICES ASSUME NEW i \in 1..Len(t), NEW j \in 1..Len(t), t[i].page = t[j].page
                 PROVE  i = j
    BY DEF Distinct
  <2>2. i + 1 = j + 1
    BY <1>2, <2>1 DEF Distinct
  <2>. QED  BY <2>2
<1>. QED  BY <1>1, <1>4, <1>5, <1>6 DEF t, Among

\* A request's place in the queue.
LEMMA QueuedPlace ==
    ASSUME NEW s, NEW S, s.queue \in Seq(S), NEW page
    PROVE  /\ QueuedAt(s, page) \in 0..Len(s.queue)
           /\ QueuedAt(s, page) # 0 => s.queue[QueuedAt(s, page)].page = page
           /\ QueuedAt(s, page) = 0 <=> ~Among(s.queue, page)
<1> DEFINE I == {i \in 1..Len(s.queue) : s.queue[i].page = page}
<1>1. QueuedAt(s, page) = IF I # {} THEN Min(I) ELSE 0
  BY DEF QueuedAt, SelectInSeq
<1>2. I \subseteq Nat /\ I \subseteq 1..Len(s.queue)
  OBVIOUS
<1>3. I # {} => Min(I) \in I
  BY <1>2, MinElement
<1>4. I = {} <=> ~Among(s.queue, page)
  BY DEF Among
<1>5. Len(s.queue) \in Nat
  OBVIOUS
<1>. QED  BY <1>1, <1>3, <1>4, <1>5

-----------------------------------------------------------------------------
(* What each change of the state does to the places.                       *)

LEMMA AcceptedPlaces ==
    ASSUME NEW q \in Seq(Request), NEW a, NEW c, NEW threads, OnePlace(q, a, c, threads),
           NEW r \in Request, r.page \notin a
    PROVE  OnePlace(Append(q, r), a \cup {r.page}, c, threads)
<1>1. r.page \in Pages
  BY DEF Request
<1>2. ~Among(q, r.page) /\ ~Among(c, r.page) /\ ~InHands(threads, r.page)
  BY <1>1 DEF OnePlace
<1>3. /\ Distinct(Append(q, r))
      /\ \A page : Among(Append(q, r), page) <=> Among(q, page) \/ page = r.page
  BY <1>2, AppendPages DEF OnePlace
<1>. QED  BY <1>2, <1>3 DEF OnePlace

LEMMA CancelledPlaces ==
    ASSUME NEW q \in Seq(Request), NEW a, NEW c, NEW threads, OnePlace(q, a, c, threads),
           NEW at \in 1..Len(q)
    PROVE  OnePlace(RemoveAt(q, at), a \ {q[at].page}, c, threads)
<1>1. /\ Distinct(RemoveAt(q, at))
      /\ \A page : Among(RemoveAt(q, at), page) <=> Among(q, page) /\ page # q[at].page
  BY RemovePages DEF OnePlace
<1>2. Among(q, q[at].page)
  BY DEF Among
<1>. QED  BY <1>1, <1>2 DEF OnePlace

LEMMA PoppedPlaces ==
    ASSUME NEW q, NEW a, NEW c \in Seq(Completion), NEW threads, OnePlace(q, a, c, threads),
           c # <<>>
    PROVE  OnePlace(q, a \ {Head(c).page}, Tail(c), threads)
<1>1. /\ Distinct(Tail(c)) /\ Among(c, Head(c).page)
      /\ \A page : Among(Tail(c), page) <=> Among(c, page) /\ page # Head(c).page
  BY TailPages DEF OnePlace
<1>. QED  BY <1>1 DEF OnePlace

\* The same pages at the same places.
LEMMA SamePlaces ==
    ASSUME NEW q, NEW a, NEW c, NEW threads, OnePlace(q, a, c, threads),
           NEW other, Len(other) = Len(q), \A i \in 1..Len(q) : other[i].page = q[i].page
    PROVE  OnePlace(other, a, c, threads)
<1>1. Distinct(other) <=> Distinct(q)
  BY DEF Distinct
<1>2. \A page : Among(other, page) <=> Among(q, page)
  BY DEF Among
<1>. QED  BY <1>1, <1>2 DEF OnePlace

LEMMA StartedPlaces ==
    ASSUME NEW q \in Seq(Request), NEW a, NEW c, NEW threads, OnePlace(q, a, c, threads),
           NEW at \in 1..Len(q), NEW w \in Workers, ~Holds(threads, w),
           NEW others, Holds(others, w), others[w].page = q[at].page,
           \A v \in Workers \ {w} : others[v] = threads[v]
    PROVE  OnePlace(RemoveAt(q, at), a, c, others)
<1>1. /\ Distinct(RemoveAt(q, at))
      /\ \A page : Among(RemoveAt(q, at), page) <=> Among(q, page) /\ page # q[at].page
  BY RemovePages DEF OnePlace
<1>2. Among(q, q[at].page) /\ q[at] \in Request
  BY DEF Among
<1>. q[at].page \in Pages
  BY <1>2 DEF Request
<1>3. \A page : InHands(others, page) <=> InHands(threads, page) \/ page = q[at].page
  BY DEF InHands, Holds
<1>4. ~InHands(threads, q[at].page)
  BY <1>2 DEF OnePlace
<1>5. \A v, u \in Workers :
          Holds(others, v) /\ Holds(others, u) /\ others[v].page = others[u].page => v = u
  BY <1>4 DEF OnePlace, Holds, InHands
<1>. QED  BY <1>1, <1>2, <1>3, <1>4, <1>5 DEF OnePlace

LEMMA LoadedPlaces ==
    ASSUME NEW q, NEW a, NEW c, NEW threads, OnePlace(q, a, c, threads),
           NEW w \in Workers, Holds(threads, w),
           NEW others, Holds(others, w), others[w].page = threads[w].page,
           \A v \in Workers \ {w} : others[v] = threads[v]
    PROVE  OnePlace(q, a, c, others)
<1>1. \A page : InHands(others, page) <=> InHands(threads, page)
  BY DEF InHands, Holds
<1>2. \A v \in Workers :
          others[v].page = threads[v].page /\ (Holds(others, v) <=> Holds(threads, v))
  BY DEF Holds
<1>. QED  BY <1>1, <1>2 DEF OnePlace

LEMMA DeliveredPlaces ==
    ASSUME NEW q, NEW a, NEW c \in Seq(Completion), NEW threads, OnePlace(q, a, c, threads),
           NEW w \in Workers, Holds(threads, w),
           NEW e \in Completion, e.page = threads[w].page,
           NEW others, ~Holds(others, w), \A v \in Workers \ {w} : others[v] = threads[v]
    PROVE  OnePlace(q, a, Append(c, e), others)
<1>1. e.page \in Pages /\ InHands(threads, e.page)
  BY DEF Completion, InHands
<1>2. ~Among(c, e.page) /\ ~Among(q, e.page)
  BY <1>1 DEF OnePlace
<1>3. /\ Distinct(Append(c, e))
      /\ \A page : Among(Append(c, e), page) <=> Among(c, page) \/ page = e.page
  BY <1>2, AppendPages DEF OnePlace
<1>4. \A page : InHands(others, page) <=> InHands(threads, page) /\ page # e.page
  BY DEF InHands, Holds, OnePlace
<1>5. \A v, u \in Workers :
          Holds(others, v) /\ Holds(others, u) /\ others[v].page = others[u].page => v = u
  BY DEF OnePlace, Holds
<1>. QED  BY <1>1, <1>2, <1>3, <1>4, <1>5 DEF OnePlace

-----------------------------------------------------------------------------
(* The steps of the service.                                               *)

LEMMA InitInv == StorageInit => IInv
<1> SUFFICES ASSUME StorageInit PROVE IInv
  OBVIOUS
<1>1. StorageType
  BY StorageAssumption DEF StorageInit, StorageType, Workers
<1>2. PlaceInv
  BY DEF StorageInit, PlaceInv, OnePlace, Distinct, Among, Holds, InHands
<1>. QED  BY <1>1, <1>2 DEF IInv

\* The page a worker holds.
LEMMA HeldPage ==
    ASSUME StorageType, NEW w \in Workers, Holds(workers, w)
    PROVE  workers[w].page \in Pages
BY DEF StorageType, Holds

-----------------------------------------------------------------------------
(* What each call does to an open service.                                 *)

LEMMA OpenService ==
    ASSUME storage.phase = "open"
    PROVE  IInv <=> Open(storage, workers) /\ ThreadsType(workers)
BY DEF IInv, StorageType, PlaceInv, Open, ServiceType, ThreadsType

LEMMA AcceptedCall ==
    ASSUME NEW s, NEW threads, Open(s, threads),
           NEW page \in Pages, NEW priority \in Priorities, NEW source \in Sources,
           RequestStatus(s, page, priority) = "Ok"
    PROVE  LET new == Accepted(s, page, priority, source)
           IN  /\ Open(new, threads)
               /\ \A p : Safe(s, p) => Safe(new, p)
               /\ source = "PageMeshing" => Safe(new, page)
<1> DEFINE r == [page |-> page, priority |-> priority, source |-> source, shared |-> FALSE]
           new == Accepted(s, page, priority, source)
<1>1. r \in Request /\ r.page = page /\ r.source = source
  BY DEF Request
<1>2. /\ DOMAIN new = {"queue", "active", "completed", "phase"}
      /\ new.queue = Append(s.queue, r)
      /\ new.active = s.active \cup {page}
      /\ new.completed = s.completed /\ new.phase = "open"
  BY DEF Accepted, Open, ServiceType
<1>3. page \notin s.active /\ Len(s.queue) < RequestCapacity
  <2>1. page \notin s.active /\ ~QueueFull(s, priority)
    BY DEF RequestStatus
  <2>2. Len(s.queue) \in Nat /\ RequestCapacity \in Nat
    BY StorageAssumption DEF Open, ServiceType
  <2>. QED  BY <2>1, <2>2 DEF QueueFull
<1>. HIDE DEF r, new
<1>4. /\ Append(s.queue, r) \in Seq(Request)
      /\ Len(Append(s.queue, r)) = Len(s.queue) + 1
      /\ Append(s.queue, r)[Len(s.queue) + 1] = r
      /\ \A i \in 1..Len(s.queue) : Append(s.queue, r)[i] = s.queue[i]
      /\ Len(s.queue) \in Nat
  BY <1>1, AppendElements DEF Open, ServiceType
<1>5. ServiceType(new)
  BY <1>2, <1>3, <1>4, StorageAssumption DEF Open, ServiceType
<1>6. OnePlace(Append(s.queue, r), s.active \cup {page}, s.completed, threads)
  BY <1>1, <1>3, AcceptedPlaces DEF Open, ServiceType
<1>7. ~Among(s.queue, page)
  BY <1>3 DEF Open, OnePlace
<1>8. \A i \in 1..Len(s.queue) + 1 :
          \/ i \in 1..Len(s.queue) /\ new.queue[i] = s.queue[i]
          \/ new.queue[i] = r
  BY <1>2, <1>4
<1>9. ASSUME NEW p, Safe(s, p) PROVE Safe(new, p)
  <2>1. p # page
    BY <1>3, <1>9 DEF Safe
  <2>. QED  BY <1>1, <1>2, <1>4, <1>8, <1>9, <2>1 DEF Safe, Kept
<1>10. ASSUME source = "PageMeshing" PROVE Safe(new, page)
  BY <1>1, <1>2, <1>4, <1>7, <1>8, <1>10 DEF Safe, Kept, Among
<1>. QED  BY <1>2, <1>5, <1>6, <1>9, <1>10 DEF Open, new

\* A duplicate changes no page of the queue, and a second source shares it.
LEMMA CoalescedCall ==
    ASSUME NEW s, NEW threads, Open(s, threads),
           NEW page \in Pages, NEW priority \in Priorities, NEW source \in Sources
    PROVE  LET new == Coalesced(s, page, priority, source)
           IN  /\ Open(new, threads)
               /\ \A p : Safe(s, p) => Safe(new, p)
               /\ source = "PageMeshing" /\ page \in s.active => Safe(new, page)
<1> DEFINE at == QueuedAt(s, page)
           new == Coalesced(s, page, priority, source)
<1>1. /\ at \in 0..Len(s.queue) /\ s.queue \in Seq(Request)
      /\ at # 0 => s.queue[at].page = page
      /\ at = 0 <=> ~Among(s.queue, page)
  BY QueuedPlace DEF Open, ServiceType
<1>2. CASE at = 0
  <2>1. new = s /\ Kept(s.queue, page)
    BY <1>1, <1>2 DEF Coalesced, Kept, Among
  <2>. QED  BY <2>1 DEF Safe
<1>3. CASE at # 0
  <2> DEFINE old == s.queue[at]
             r == [old EXCEPT !.priority = priority,
                              !.shared = old.shared \/ old.source # source]
  <2>1. at \in 1..Len(s.queue) /\ old \in Request
    BY <1>1, <1>3
  <2>2. /\ r \in Request /\ r.page = old.page /\ r.source = old.source
        /\ r.shared <=> old.shared \/ old.source # source
    BY <2>1 DEF Request
  <2>3. /\ DOMAIN new = {"queue", "active", "completed", "phase"}
        /\ new.queue = [s.queue EXCEPT ![at] = r]
        /\ new.active = s.active
        /\ new.completed = s.completed /\ new.phase = "open"
    BY <1>1, <1>3, <2>1 DEF Coalesced, Open, ServiceType, Request
  <2> HIDE DEF r, new, at
  <2>4. /\ new.queue \in Seq(Request) /\ Len(new.queue) = Len(s.queue)
        /\ \A i \in 1..Len(s.queue) : new.queue[i] = IF i = at THEN r ELSE s.queue[i]
    BY <1>1, <2>1, <2>2, <2>3
  <2>5. ServiceType(new)
    BY <2>3, <2>4 DEF Open, ServiceType
  <2>6. \A i \in 1..Len(s.queue) : new.queue[i].page = s.queue[i].page
    BY <2>2, <2>4
  <2>7. OnePlace(new.queue, new.active, new.completed, threads)
    BY <2>3, <2>4, <2>6, SamePlaces DEF Open
  <2>8. ASSUME NEW p, Safe(s, p) PROVE Safe(new, p)
    <3>1. p \in s.active /\ \A i \in 1..Len(s.queue) :
              s.queue[i].page = p => s.queue[i].source = "PageMeshing" \/ s.queue[i].shared
      BY <2>8 DEF Safe, Kept
    <3>2. r.page = p => r.source = "PageMeshing" \/ r.shared
      BY <2>1, <2>2, <3>1
    <3>. QED  BY <2>3, <2>4, <3>1, <3>2 DEF Safe, Kept
  <2>9. ASSUME source = "PageMeshing", page \in s.active PROVE Safe(new, page)
    <3>1. \A i \in 1..Len(s.queue) : s.queue[i].page = page => i = at
      BY <1>1, <1>3, <2>1 DEF Open, OnePlace, Distinct
    <3>2. \A i \in 1..Len(new.queue) : new.queue[i].page = page => new.queue[i] = r
      BY <2>4, <2>6, <3>1
    <3>3. r.source = "PageMeshing" \/ r.shared
      BY <2>2, <2>9
    <3>. QED  BY <2>3, <2>9, <3>2, <3>3 DEF Safe, Kept
  <2>. QED  BY <2>3, <2>5, <2>7, <2>8, <2>9 DEF Open, new
<1>. QED  BY <1>2, <1>3

\* A request keeps every page that is safe, and makes its own page safe when
\* the page-meshing runtime makes it and it is not refused.
LEMMA RequestCall ==
    ASSUME NEW s, NEW threads, Open(s, threads),
           NEW page \in Pages, NEW priority \in Priorities, NEW source \in Sources
    PROVE  LET new == RequestPage(s, page, priority, source)
           IN  /\ Open(new, threads)
               /\ \A p : Safe(s, p) => Safe(new, p)
               /\ /\ source = "PageMeshing"
                  /\ RequestStatus(s, page, priority) \in {"Ok", "AlreadyPending"}
                  => Safe(new, page)
<1>1. CASE RequestStatus(s, page, priority) = "Ok"
  <2>1. RequestPage(s, page, priority, source) = Accepted(s, page, priority, source)
    BY <1>1 DEF RequestPage
  <2>. QED  BY <1>1, <2>1, AcceptedCall
<1>2. CASE RequestStatus(s, page, priority) = "AlreadyPending"
  <2>1. RequestPage(s, page, priority, source) = Coalesced(s, page, priority, source)
    BY <1>2 DEF RequestPage
  <2>2. page \in s.active
    BY <1>2 DEF RequestStatus
  <2>. QED  BY <1>2, <2>1, <2>2, CoalescedCall
<1>3. CASE RequestStatus(s, page, priority) \notin {"Ok", "AlreadyPending"}
  <2>1. RequestPage(s, page, priority, source) = s
    BY <1>3 DEF RequestPage
  <2>. QED  BY <1>3, <2>1
<1>. QED  BY <1>1, <1>2, <1>3

\* A cancellation concerns its page only; the warm-up's leaves a safe page safe.
LEMMA CancelCall ==
    ASSUME NEW s, NEW threads, Open(s, threads), NEW page \in Pages, NEW source \in Sources
    PROVE  LET new == CancelQueued(s, page, source)
           IN  /\ Open(new, threads)
               /\ \A p : /\ Safe(s, p)
                         /\ p # page \/ source = "InteractionWarm"
                         => Safe(new, p)
<1> DEFINE at == QueuedAt(s, page)
           new == CancelQueued(s, page, source)
<1>1. /\ at \in 0..Len(s.queue) /\ s.queue \in Seq(Request)
      /\ at # 0 => s.queue[at].page = page
  BY QueuedPlace DEF Open, ServiceType
<1>2. CASE new = s
  BY <1>2
<1>3. CASE new # s
  <2>1. /\ at # 0 /\ s.queue[at].source = source /\ ~s.queue[at].shared
        /\ new = [s EXCEPT !.queue = RemoveAt(@, at), !.active = @ \ {page}]
    BY <1>3 DEF CancelQueued
  <2>2. at \in 1..Len(s.queue) /\ s.queue[at].page = page
    BY <1>1, <2>1
  <2>3. /\ DOMAIN new = {"queue", "active", "completed", "phase"}
        /\ new.queue = RemoveAt(s.queue, at)
        /\ new.active = s.active \ {page}
        /\ new.completed = s.completed /\ new.phase = "open"
    BY <2>1 DEF Open, ServiceType
  <2>. HIDE DEF at, new
  <2>4. RemoveAt(s.queue, at) \in Seq(Request)
        /\ Len(RemoveAt(s.queue, at)) = Len(s.queue) - 1 /\ Len(s.queue) \in Nat
    BY <1>1, <2>2, RemoveAtElements
  <2>5. ServiceType(new)
    BY <2>3, <2>4, StorageAssumption DEF Open, ServiceType
  <2>6. OnePlace(new.queue, new.active, new.completed, threads)
    BY <1>1, <2>2, <2>3, CancelledPlaces DEF Open
  <2>7. ASSUME NEW p, Safe(s, p), p # page \/ source = "InteractionWarm"
        PROVE  Safe(new, p)
    <3>1. p \in s.active /\ Kept(s.queue, p)
      BY <2>7 DEF Safe
    <3>2. p # page
      BY <2>1, <2>2, <2>7, <3>1 DEF Kept
    <3>3. \A i \in 1..Len(new.queue) : \E j \in 1..Len(s.queue) : new.queue[i] = s.queue[j]
      <4>1. \A i \in 1..Len(RemoveAt(s.queue, at)) : \E j \in 1..Len(s.queue) :
                /\ RemoveAt(s.queue, at)[i] = s.queue[j]
                /\ (j = i /\ i < at) \/ (j = i + 1 /\ j > at)
        BY <1>1, <2>2, RemoveAtPlaces
      <4>. QED  BY <2>3, <4>1
    <3>4. Kept(new.queue, p)
      BY <3>1, <3>3 DEF Kept
    <3>. QED  BY <2>3, <3>1, <3>2, <3>4 DEF Safe
  <2>. QED  BY <2>3, <2>5, <2>6, <2>7 DEF Open, new
<1>. QED  BY <1>2, <1>3

LEMMA PopCall ==
    ASSUME NEW s, NEW threads, Open(s, threads), s.completed # <<>>
    PROVE  LET new == PopCompletion(s)
           IN  /\ Open(new, threads)
               /\ \A p : Safe(s, p) /\ p # Head(s.completed).page => Safe(new, p)
               /\ Head(s.completed) \in Completion
<1> DEFINE new == PopCompletion(s)
<1>1. /\ DOMAIN new = {"queue", "active", "completed", "phase"}
      /\ new.queue = s.queue
      /\ new.active = s.active \ {Head(s.completed).page}
      /\ new.completed = Tail(s.completed) /\ new.phase = "open"
  BY DEF PopCompletion, Open, ServiceType
<1>2. /\ Tail(s.completed) \in Seq(Completion) /\ Head(s.completed) \in Completion
      /\ Len(Tail(s.completed)) <= CompletionCapacity
  BY HeadTailElements, StorageAssumption DEF Open, ServiceType
<1>. HIDE DEF new
<1>3. ServiceType(new)
  BY <1>1, <1>2 DEF Open, ServiceType
<1>4. OnePlace(new.queue, new.active, new.completed, threads)
  BY <1>1, PoppedPlaces DEF Open, ServiceType
<1>5. ASSUME NEW p, Safe(s, p), p # Head(s.completed).page PROVE Safe(new, p)
  BY <1>1, <1>5 DEF Safe
<1>. QED  BY <1>1, <1>2, <1>3, <1>4, <1>5 DEF Open, new

LEMMA CallInv == IInv /\ Call => IInv'
<1> SUFFICES ASSUME IInv, Call PROVE IInv'
  OBVIOUS
<1>1. storage.phase = "open" /\ workers' = workers
  BY DEF Call
<1>2. Open(storage, workers) /\ ThreadsType(workers)
  BY <1>1, OpenService
<1>3. ASSUME Open(storage', workers) PROVE IInv'
  BY <1>1, <1>2, <1>3 DEF IInv, StorageType, PlaceInv, Open, ServiceType, ThreadsType
<1>. QED  BY <1>2, <1>3, RequestCall, CancelCall, PopCall DEF Call

\* The request a worker takes is one of the queue.
LEMMA SelectedPlace ==
    ASSUME StorageType, NEW w, Selected(w) # 0
    PROVE  Selected(w) \in 1..Len(storage.queue)
<1> DEFINE q == storage.queue
           I == {i \in 1..Len(q) : /\ Serves(w, q[i])
                                   /\ \A r \in ToSet(q) : Serves(w, r) => r.priority <= q[i].priority}
<1>1. Selected(w) = IF I # {} THEN Min(I) ELSE 0
  BY DEF Selected, SelectInSeq
<1>2. I \subseteq Nat /\ I \subseteq 1..Len(q)
  OBVIOUS
<1>. QED  BY <1>1, <1>2, MinElement

LEMMA StartInv ==
    ASSUME IInv, NEW w \in Workers, StartLoad(w)
    PROVE  IInv'
<1> DEFINE at == Selected(w)
           taken == [at |-> "loading", page |-> storage.queue[at].page]
<1>1. at \in 1..Len(storage.queue) /\ storage.queue \in Seq(Request)
  BY SelectedPlace DEF StartLoad, IInv, StorageType
<1>2. /\ storage.phase = "open" /\ workers[w].at = "idle"
      /\ workers' = [workers EXCEPT ![w] = taken]
      /\ DOMAIN storage' = {"queue", "active", "completed", "phase"}
      /\ storage'.queue = RemoveAt(storage.queue, at)
      /\ storage'.active = storage.active
      /\ storage'.completed = storage.completed /\ storage'.phase = "open"
  BY DEF StartLoad, IInv, StorageType
<1>3. /\ taken.at = "loading" /\ taken.page = storage.queue[at].page
      /\ taken \in [at : {"loading"}, page : Pages]
  <2>1. storage.queue[at] \in Request
    BY <1>1
  <2>. QED  BY <2>1 DEF Request
<1>. HIDE DEF at, taken
<1>4. StorageType'
  <2>1. RemoveAt(storage.queue, at) \in Seq(Request)
        /\ Len(RemoveAt(storage.queue, at)) <= RequestCapacity
    BY <1>1, RemoveAtElements, StorageAssumption DEF IInv, StorageType
  <2>2. workers' \in [Workers -> [at : {"idle", "exited"}]
                               \cup [at : {"loading"}, page : Pages]
                               \cup [at : {"loaded"}, page : Pages, ok : BOOLEAN]]
    BY <1>2, <1>3 DEF IInv, StorageType
  <2>. QED  BY <1>2, <2>1, <2>2 DEF IInv, StorageType
<1>5. OnePlace(storage.queue, storage.active, storage.completed, workers)
  BY <1>2 DEF IInv, PlaceInv
<1>6. workers'[w] = taken /\ \A v \in Workers \ {w} : workers'[v] = workers[v]
  BY <1>2 DEF IInv, StorageType
<1>7. ~Holds(workers, w) /\ Holds(workers', w) /\ workers'[w].page = storage.queue[at].page
  BY <1>2, <1>3, <1>6 DEF Holds
<1>8. OnePlace(RemoveAt(storage.queue, at), storage.active, storage.completed, workers')
  BY <1>1, <1>5, <1>6, <1>7, StartedPlaces
<1>. QED  BY <1>2, <1>4, <1>8 DEF IInv, PlaceInv

LEMMA FinishInv ==
    ASSUME IInv, NEW w \in Workers, FinishLoad(w)
    PROVE  IInv'
<1>1. PICK ok \in BOOLEAN :
          workers' = [workers EXCEPT ![w] =
                        [at |-> "loaded", page |-> workers[w].page, ok |-> ok]]
  BY DEF FinishLoad
<1> DEFINE loaded == [at |-> "loaded", page |-> workers[w].page, ok |-> ok]
<1>2. workers[w].at = "loading" /\ storage' = storage
  BY DEF FinishLoad
<1>3. workers[w].page \in Pages
  BY <1>2, HeldPage DEF Holds, IInv
<1>4. /\ loaded \in [at : {"loaded"}, page : Pages, ok : BOOLEAN]
      /\ loaded.at = "loaded" /\ loaded.page = workers[w].page
  BY <1>3
<1>. HIDE DEF loaded
<1>5. /\ workers' = [workers EXCEPT ![w] = loaded] /\ workers'[w] = loaded
      /\ \A v \in Workers \ {w} : workers'[v] = workers[v]
  BY <1>1 DEF IInv, StorageType, loaded
<1>6. StorageType'
  <2>1. workers' \in [Workers -> [at : {"idle", "exited"}]
                               \cup [at : {"loading"}, page : Pages]
                               \cup [at : {"loaded"}, page : Pages, ok : BOOLEAN]]
    BY <1>4, <1>5 DEF IInv, StorageType
  <2>. QED  BY <1>2, <2>1 DEF IInv, StorageType
<1>7. CASE storage.phase = "open"
  <2>1. OnePlace(storage.queue, storage.active, storage.completed, workers)
    BY <1>7 DEF IInv, PlaceInv
  <2>2. Holds(workers, w) /\ Holds(workers', w) /\ workers'[w].page = workers[w].page
    BY <1>2, <1>4, <1>5 DEF Holds
  <2>3. OnePlace(storage.queue, storage.active, storage.completed, workers')
    <3>1. \A v \in Workers \ {w} : workers'[v] = workers[v]
      BY <1>5
    <3>. QED  BY <2>1, <2>2, <3>1, LoadedPlaces
  <2>. QED  BY <1>2, <1>6, <2>3 DEF IInv, PlaceInv
<1>8. CASE storage.phase # "open"
  BY <1>2, <1>6, <1>8 DEF IInv, PlaceInv
<1>. QED  BY <1>7, <1>8

LEMMA DeliverInv ==
    ASSUME IInv, NEW w \in Workers, Deliver(w)
    PROVE  IInv'
<1> DEFINE e == [page |-> workers[w].page, ok |-> workers[w].ok]
           idle == [at |-> "idle"]
<1>1. /\ storage.phase = "open" /\ workers[w].at = "loaded"
      /\ Len(storage.completed) < CompletionCapacity
      /\ workers' = [workers EXCEPT ![w] = idle]
      /\ DOMAIN storage' = {"queue", "active", "completed", "phase"}
      /\ storage'.completed = Append(storage.completed, e)
      /\ storage'.queue = storage.queue /\ storage'.active = storage.active
      /\ storage'.phase = "open"
  BY DEF Deliver, IInv, StorageType
<1>2. workers[w].page \in Pages /\ workers[w].ok \in BOOLEAN
  BY <1>1 DEF IInv, StorageType
<1>3. e \in Completion /\ e.page = workers[w].page /\ idle.at = "idle"
      /\ idle \in [at : {"idle", "exited"}]
  BY <1>2 DEF Completion
<1>. HIDE DEF e, idle
<1>4. StorageType'
  <2>1. Append(storage.completed, e) \in Seq(Completion)
        /\ Len(Append(storage.completed, e)) <= CompletionCapacity
    BY <1>1, <1>3, AppendElements, StorageAssumption DEF IInv, StorageType
  <2>2. workers' \in [Workers -> [at : {"idle", "exited"}]
                               \cup [at : {"loading"}, page : Pages]
                               \cup [at : {"loaded"}, page : Pages, ok : BOOLEAN]]
    BY <1>1, <1>3 DEF IInv, StorageType
  <2>. QED  BY <1>1, <2>1, <2>2 DEF IInv, StorageType
<1>5. OnePlace(storage.queue, storage.active, storage.completed, workers)
  BY <1>1 DEF IInv, PlaceInv
<1>6. workers'[w] = idle /\ \A v \in Workers \ {w} : workers'[v] = workers[v]
  BY <1>1 DEF IInv, StorageType
<1>7. ~Holds(workers', w) /\ Holds(workers, w)
  BY <1>1, <1>3, <1>6 DEF Holds
<1>8. storage.completed \in Seq(Completion)
  BY DEF IInv, StorageType
<1>9. OnePlace(storage.queue, storage.active, Append(storage.completed, e), workers')
  BY <1>3, <1>5, <1>6, <1>7, <1>8, DeliveredPlaces
<1>. QED  BY <1>1, <1>4, <1>9 DEF IInv, PlaceInv

\* Once the service stops, nothing is promised of the places any more.
LEMMA StopInv ==
    ASSUME IInv, BeginClose \/ EndClose \/ \E w \in Workers : WorkerExits(w)
    PROVE  IInv'
<1>1. CASE BeginClose
  <2>1. /\ DOMAIN storage' = {"queue", "active", "completed", "phase"}
        /\ storage'.queue = <<>> /\ storage'.active = storage.active
        /\ storage'.completed = storage.completed /\ storage'.phase = "stopping"
        /\ workers' = workers
    BY <1>1 DEF BeginClose, IInv, StorageType
  <2>. QED  BY <2>1, StorageAssumption DEF IInv, StorageType, PlaceInv
<1>2. CASE EndClose
  <2>1. /\ DOMAIN storage' = {"queue", "active", "completed", "phase"}
        /\ storage'.queue = <<>> /\ storage'.active = {}
        /\ storage'.completed = <<>> /\ storage'.phase = "closed"
        /\ workers' = workers
    BY <1>2 DEF EndClose
  <2>. QED  BY <2>1, StorageAssumption DEF IInv, StorageType, PlaceInv
<1>3. ASSUME NEW w \in Workers, WorkerExits(w) PROVE IInv'
  <2>1. /\ storage' = storage /\ storage.phase = "stopping"
        /\ workers' = [workers EXCEPT ![w] = [at |-> "exited"]]
    BY <1>3 DEF WorkerExits, Leaves
  <2>2. workers' \in [Workers -> [at : {"idle", "exited"}]
                               \cup [at : {"loading"}, page : Pages]
                               \cup [at : {"loaded"}, page : Pages, ok : BOOLEAN]]
    BY <2>1 DEF IInv, StorageType
  <2>. QED  BY <2>1, <2>2 DEF IInv, StorageType, PlaceInv
<1>. QED  BY <1>1, <1>2, <1>3

LEMMA NextInv == IInv /\ [ServiceNext]_storageVars => IInv'
<1> SUFFICES ASSUME IInv, [ServiceNext]_storageVars PROVE IInv'
  OBVIOUS
<1>1. ASSUME NEW w \in Workers, WorkerStep(w) PROVE IInv'
  BY <1>1, StartInv, FinishInv, DeliverInv, StopInv DEF WorkerStep
<1>2. CASE UNCHANGED storageVars
  BY <1>2 DEF storageVars, IInv, StorageType, PlaceInv
<1>. QED  BY <1>1, <1>2, CallInv, StopInv DEF ServiceNext

\* The invariant of the service is inductive.
THEOREM ServiceInductive == ServiceSpec => []IInv
BY InitInv, NextInv, PTL DEF ServiceSpec

-----------------------------------------------------------------------------
\* One place, counted.
LEMMA CountedPlaces ==
    ASSUME IInv PROVE ActiveIsOnePlace
<1> SUFFICES ASSUME storage.phase = "open", NEW page \in Pages
             PROVE  Places(page) = IF page \in storage.active THEN 1 ELSE 0
  BY DEF ActiveIsOnePlace
<1> DEFINE Q == {i \in DOMAIN storage.queue : storage.queue[i].page = page}
           H == {w \in Workers : page \in Held(w)}
           C == {i \in DOMAIN storage.completed : storage.completed[i].page = page}
<1>1. OnePlace(storage.queue, storage.active, storage.completed, workers)
  BY DEF IInv, PlaceInv
<1>2. /\ DOMAIN storage.queue = 1..Len(storage.queue)
      /\ DOMAIN storage.completed = 1..Len(storage.completed)
  BY DEF IInv, StorageType
<1>3. \A w \in Workers : page \in Held(w) <=> Holds(workers, w) /\ workers[w].page = page
  BY DEF Held, Holds
<1>4. /\ Q # {} <=> Among(storage.queue, page)
      /\ H # {} <=> InHands(workers, page)
      /\ C # {} <=> Among(storage.completed, page)
  BY <1>2, <1>3 DEF Among, InHands
<1>5. /\ \A x, y \in Q : x = y
      /\ \A x, y \in H : x = y
      /\ \A x, y \in C : x = y
  BY <1>1, <1>2, <1>3 DEF OnePlace, Distinct
<1>6. \A S : (\A x, y \in S : x = y) => Cardinality(S) = IF S = {} THEN 0 ELSE 1
  <2>1. SUFFICES ASSUME NEW S, \A x, y \in S : x = y
                 PROVE  Cardinality(S) = IF S = {} THEN 0 ELSE 1
    OBVIOUS
  <2>2. CASE S = {}
    BY <2>2, FS_EmptySet
  <2>3. CASE S # {}
    <3>1. PICK x : S = {x}
      BY <2>1, <2>3
    <3>. QED  BY <2>3, <3>1, FS_Singleton
  <2>. QED  BY <2>2, <2>3
<1>. HIDE DEF Q, H, C
<1>7. /\ Cardinality(Q) = (IF Q = {} THEN 0 ELSE 1)
      /\ Cardinality(H) = (IF H = {} THEN 0 ELSE 1)
      /\ Cardinality(C) = (IF C = {} THEN 0 ELSE 1)
  BY <1>5, <1>6
<1>8. /\ ~(Q # {} /\ C # {}) /\ ~(Q # {} /\ H # {}) /\ ~(C # {} /\ H # {})
      /\ page \in storage.active <=> (Q # {} \/ H # {} \/ C # {})
  BY <1>1, <1>4 DEF OnePlace
<1>9. Places(page) = Cardinality(Q) + Cardinality(H) + Cardinality(C)
  BY DEF Places, Q, H, C
<1>. QED  BY <1>7, <1>8, <1>9

\* Whatever its callers do and however workers, cancellations and full rings
\* interleave, an active page is queued, in a worker's hands or delivered, and
\* only once.
THEOREM PageInOnePlace == ServiceSpec => []ActiveIsOnePlace
BY ServiceInductive, CountedPlaces, PTL

-----------------------------------------------------------------------------
(* The page-meshing runtime: what relates its records, the scheduler's     *)
(* chunks and the results between them.                                    *)

\* A record the scheduler has no answer of.
Unanswered == {"Loading", "SampleReady", "SampleFailedReady"}

RecordOK(r, n) ==
    /\ r \in Record
    /\ r.phase # "None" => r.generation \in 1..n /\ r.priority \in Priorities
    /\ r.phase \in {"SampleReady", "AwaitingMesh"} => r.pinned = r.pages

ChunkOK(c, n) ==
    /\ c \in Chunk /\ c.generation \in 0..n
    /\ c.lifecycle = "Absent" => c = NoChunk
    /\ c.lifecycle # "Absent" => c.generation > 0 /\ c.priority \in Priorities
    /\ c.job = "Sample" => c.lifecycle = "Sampling"

Result == [key : Keys, generation : 1..MaxEvents, ok : BOOLEAN]

Current(t, x) == x.generation = t[x.key].generation

\* An unanswered record of the current generation is the only trace of its
\* chunk's sample; a result of the current generation is the only one, and
\* leaves the record the mesh job needs; a mesh job has that record.  The
\* generations of the first n demand events are in use.
Answers(t, n, recs, res) ==
    /\ DOMAIN recs = Keys /\ \A k \in Keys : RecordOK(recs[k], n)
    /\ res \in Seq(Result) /\ \A i \in 1..Len(res) : res[i].generation <= n
    /\ \A k \in Keys :
          recs[k].phase \in Unanswered /\ recs[k].generation = t[k].generation
             => t[k].lifecycle = "Sampling" /\ t[k].job = "None"
    /\ \A i \in 1..Len(res) : Current(t, res[i]) =>
          /\ t[res[i].key].lifecycle = "Sampling" /\ t[res[i].key].job = "None"
          /\ res[i].ok => /\ recs[res[i].key].phase = "AwaitingMesh"
                          /\ recs[res[i].key].generation = res[i].generation
          /\ ~res[i].ok => recs[res[i].key].generation # res[i].generation
    /\ \A i, j \in 1..Len(res) :
          /\ Current(t, res[i]) /\ Current(t, res[j])
          /\ res[i].key = res[j].key
          => i = j
    /\ \A k \in Keys : t[k].job = "Mesh" =>
          /\ t[k].lifecycle = "Meshing" /\ recs[k].phase = "AwaitingMesh"
          /\ recs[k].generation = t[k].generation

\* Every page a record waits for is on its way, the pairs in late aside.
Owed(st, recs, late) ==
    \A k \in Keys, p \in Pages : Waits(recs[k], p) /\ <<k, p>> \notin late => Safe(st, p)

LoadingInv ==
    /\ IInv
    /\ events \in 0..MaxEvents /\ warm \subseteq Pages
    /\ Running =>
          /\ storage.phase = "open"
          /\ DOMAIN chunks = Keys /\ \A k \in Keys : ChunkOK(chunks[k], events)
          /\ Answers(chunks, events, records, results)
          /\ Owed(storage, records, {})

-----------------------------------------------------------------------------
(* What changes of a record, a chunk or the queue keep of the answers.     *)

LEMMA ResultFields ==
    ASSUME NEW res \in Seq(Result), NEW i \in 1..Len(res)
    PROVE  /\ res[i] \in Result /\ res[i].key \in Keys /\ res[i].ok \in BOOLEAN
           /\ res[i].generation \in 1..MaxEvents /\ res[i].generation \in Nat \ {0}
<1>1. res[i] \in Result
  OBVIOUS
<1>. QED  BY <1>1, LoadingAssumption DEF Result

LEMMA NoRecordOK ==
    ASSUME NEW n \in Nat
    PROVE  RecordOK(NoRecord, n) /\ NoRecord.phase = "None" /\ NoRecord.generation = 0
BY LoadingAssumption DEF RecordOK, NoRecord, Record, Phases

LEMMA AnswersKept ==
    ASSUME NEW t, NEW n \in Nat, NEW recs, NEW res, Answers(t, n, recs, res),
           NEW k \in Keys, NEW r, RecordOK(r, n), r.generation = recs[k].generation,
           r.phase = recs[k].phase \/ {r.phase, recs[k].phase} \subseteq Unanswered
    PROVE  Answers(t, n, [recs EXCEPT ![k] = r], res)
<1> DEFINE new == [recs EXCEPT ![k] = r]
<1>1. /\ DOMAIN new = Keys /\ new[k] = r
      /\ \A j \in Keys \ {k} : new[j] = recs[j]
  BY DEF Answers
<1>. HIDE DEF new
<1>2. \A j \in Keys : /\ new[j].generation = recs[j].generation
                      /\ new[j].phase \in Unanswered <=> recs[j].phase \in Unanswered
                      /\ new[j].phase = "AwaitingMesh" <=> recs[j].phase = "AwaitingMesh"
                      /\ RecordOK(new[j], n)
  BY <1>1 DEF Answers, Unanswered
<1>3. \A i \in 1..Len(res) : res[i].key \in Keys
  BY ResultFields DEF Answers
<1>. QED  BY <1>1, <1>2, <1>3 DEF Answers, new

\* The scheduler's side changes, or the record is another one.
LEMMA AnswersReplaced ==
    ASSUME NEW t, NEW n \in Nat, NEW recs, NEW res, Answers(t, n, recs, res),
           NEW k \in Keys, NEW later \in Nat, n <= later,
           NEW new, DOMAIN new = Keys, RecordOK(new[k], later),
           \A j \in Keys \ {k} : new[j] = recs[j],
           NEW table, \A j \in Keys \ {k} : table[j] = t[j],
           \A i \in 1..Len(res) : res[i].key = k => ~Current(table, res[i]),
           /\ new[k].phase \in Unanswered /\ new[k].generation = table[k].generation
              => table[k].lifecycle = "Sampling" /\ table[k].job = "None",
           table[k].job = "Mesh" =>
              /\ table[k].lifecycle = "Meshing" /\ new[k].phase = "AwaitingMesh"
              /\ new[k].generation = table[k].generation
    PROVE  Answers(table, later, new, res)
<1>1. \A i \in 1..Len(res) : res[i].key \in Keys /\ res[i].generation \in Nat
  BY ResultFields DEF Answers
<1>2. \A i \in 1..Len(res) : Current(table, res[i]) =>
          /\ res[i].key # k /\ Current(t, res[i])
          /\ table[res[i].key] = t[res[i].key] /\ new[res[i].key] = recs[res[i].key]
  BY <1>1 DEF Current
<1>3. \A j \in Keys : RecordOK(new[j], later)
  BY DEF Answers, RecordOK
<1>4. \A i \in 1..Len(res) : res[i].generation <= later
  BY <1>1 DEF Answers
<1>5. \A j \in Keys \ {k} :
          /\ new[j].phase \in Unanswered /\ new[j].generation = table[j].generation
             => table[j].lifecycle = "Sampling" /\ table[j].job = "None"
          /\ table[j].job = "Mesh" =>
                /\ table[j].lifecycle = "Meshing" /\ new[j].phase = "AwaitingMesh"
                /\ new[j].generation = table[j].generation
  BY DEF Answers
<1>6. \A i \in 1..Len(res) : Current(table, res[i]) =>
          /\ table[res[i].key].lifecycle = "Sampling" /\ table[res[i].key].job = "None"
          /\ res[i].ok => /\ new[res[i].key].phase = "AwaitingMesh"
                          /\ new[res[i].key].generation = res[i].generation
          /\ ~res[i].ok => new[res[i].key].generation # res[i].generation
  BY <1>2 DEF Answers
<1>7. \A i, j \in 1..Len(res) :
          Current(table, res[i]) /\ Current(table, res[j]) /\ res[i].key = res[j].key => i = j
  BY <1>2 DEF Answers
<1>. QED  BY <1>3, <1>4, <1>5, <1>6, <1>7 DEF Answers

\* Priorities play no part.
LEMMA AnswersSame ==
    ASSUME NEW t, NEW n \in Nat, NEW recs, NEW res, Answers(t, n, recs, res),
           NEW later \in Nat, n <= later,
           NEW new, DOMAIN new = Keys, \A j \in Keys : RecordOK(new[j], later),
           \A j \in Keys : /\ new[j].phase = recs[j].phase
                           /\ new[j].generation = recs[j].generation,
           NEW table, \A j \in Keys : /\ table[j].generation = t[j].generation
                                      /\ table[j].lifecycle = t[j].lifecycle
                                      /\ table[j].job = t[j].job
    PROVE  Answers(table, later, new, res)
<1>1. \A i \in 1..Len(res) : /\ res[i].key \in Keys /\ res[i].generation \in Nat
                             /\ Current(table, res[i]) <=> Current(t, res[i])
  BY ResultFields DEF Answers, Current
<1>2. \A i \in 1..Len(res) : res[i].generation <= later
  BY <1>1 DEF Answers
<1>. QED  BY <1>1, <1>2 DEF Answers

\* The answer of record k enters the queue.
LEMMA AnswersSubmitted ==
    ASSUME NEW t, NEW n \in Nat, NEW recs, NEW res, Answers(t, n, recs, res),
           NEW k \in Keys, Pending(recs[k].phase),
           NEW x, x = [key |-> k, generation |-> recs[k].generation,
                       ok |-> recs[k].phase = "SampleReady"],
           NEW r, r = IF recs[k].phase = "SampleReady"
                      THEN [recs[k] EXCEPT !.phase = "AwaitingMesh"] ELSE NoRecord
    PROVE  Answers(t, n, [recs EXCEPT ![k] = r], Append(res, x))
<1> DEFINE old == recs[k]
           new == [recs EXCEPT ![k] = r]
           q == Append(res, x)
<1>1. /\ old \in Record /\ old.generation \in 1..n /\ old.priority \in Priorities
      /\ old.phase = "SampleReady" => old.pinned = old.pages
      /\ old.generation \in 1..MaxEvents /\ old.generation \in Nat \ {0}
  <2>1. RecordOK(old, n) /\ old.phase # "None"
    BY DEF Answers, Pending
  <2>2. old.generation \in 1..n /\ old.generation \in 0..MaxEvents
    BY <2>1 DEF RecordOK, Record
  <2>. QED  BY <2>1, <2>2, LoadingAssumption DEF RecordOK
<1>2. x \in Result /\ x.key = k /\ x.generation = old.generation
      /\ (x.ok <=> old.phase = "SampleReady")
  BY <1>1 DEF Result
<1>3. /\ DOMAIN new = Keys /\ new[k] = r
      /\ \A j \in Keys \ {k} : new[j] = recs[j]
  BY DEF Answers
<1>4. /\ RecordOK(r, n)
      /\ r.phase \in {"AwaitingMesh", "None"} /\ r.phase \notin Unanswered
      /\ x.ok => r.phase = "AwaitingMesh" /\ r.generation = old.generation
      /\ ~x.ok => r.generation = 0
  <2>1. CASE old.phase = "SampleReady"
    <3>1. /\ r.phase = "AwaitingMesh" /\ r.generation = old.generation
          /\ r.priority = old.priority /\ r.pinned = old.pinned /\ r.pages = old.pages
          /\ r \in Record
      BY <1>1, <2>1 DEF Record, Phases
    <3>. QED  BY <1>1, <1>2, <2>1, <3>1 DEF RecordOK, Unanswered
  <2>2. CASE old.phase # "SampleReady"
    BY <1>2, <2>2, NoRecordOK DEF Unanswered
  <2>. QED  BY <2>1, <2>2
<1>5. /\ q \in Seq(Result) /\ Len(q) = Len(res) + 1 /\ q[Len(res) + 1] = x
      /\ \A i \in 1..Len(res) : q[i] = res[i]
      /\ Len(res) \in Nat
  BY <1>2, AppendElements DEF Answers
<1>6. \A i \in 1..Len(res) : /\ res[i].key \in Keys /\ res[i].ok \in BOOLEAN
                             /\ res[i].generation \in Nat \ {0}
  BY ResultFields DEF Answers
\* No result of record k's generation waits, if that is the current one.
<1>7. ASSUME NEW i \in 1..Len(res), res[i].key = k, Current(t, res[i])
      PROVE  ~res[i].ok /\ old.generation # res[i].generation
  BY <1>6, <1>7 DEF Answers, Pending
<1>8. Current(t, x) => t[k].lifecycle = "Sampling" /\ t[k].job = "None"
  <2>1. old.phase \in Unanswered
    BY DEF Pending, Unanswered
  <2>. QED  BY <1>2, <2>1 DEF Answers, Current
<1>9. t[k].job # "Mesh"
  BY DEF Answers, Pending
<1>. HIDE DEF new, q, old
<1>10. \A i \in 1..Len(q) : (i = Len(res) + 1 /\ q[i] = x) \/ (i \in 1..Len(res) /\ q[i] = res[i])
  BY <1>5
<1>11. \A i \in 1..Len(q) : q[i].generation <= n
  BY <1>1, <1>2, <1>10 DEF Answers
<1>12. ASSUME NEW i \in 1..Len(q), Current(t, q[i])
       PROVE  /\ t[q[i].key].lifecycle = "Sampling" /\ t[q[i].key].job = "None"
              /\ q[i].ok => /\ new[q[i].key].phase = "AwaitingMesh"
                            /\ new[q[i].key].generation = q[i].generation
              /\ ~q[i].ok => new[q[i].key].generation # q[i].generation
  <2>1. CASE q[i] = x
    BY <1>1, <1>2, <1>3, <1>4, <1>8, <1>12, <2>1
  <2>2. CASE i \in 1..Len(res) /\ q[i] = res[i] /\ res[i].key = k
    <3>1. ~q[i].ok /\ old.generation # q[i].generation /\ q[i].generation \in Nat \ {0}
      BY <1>6, <1>7, <1>12, <2>2
    <3>2. new[k].generation \in {old.generation, 0}
      BY <1>2, <1>3, <1>4
    <3>3. t[k].lifecycle = "Sampling" /\ t[k].job = "None"
      BY <1>12, <2>2 DEF Answers
    <3>. QED  BY <2>2, <3>1, <3>2, <3>3
  <2>3. CASE i \in 1..Len(res) /\ q[i] = res[i] /\ res[i].key # k
    BY <1>3, <1>6, <1>12, <2>3 DEF Answers
  <2>. QED  BY <1>10, <2>1, <2>2, <2>3
<1>13. ASSUME NEW i \in 1..Len(q), NEW j \in 1..Len(q),
              Current(t, q[i]), Current(t, q[j]), q[i].key = q[j].key
       PROVE  i = j
  <2>1. ASSUME NEW a \in 1..Len(res), Current(t, res[a]), Current(t, x) PROVE res[a].key # k
    BY <1>2, <1>7, <2>1 DEF Current
  <2>. QED  BY <1>2, <1>10, <1>13, <2>1 DEF Answers
<1>14. \A j \in Keys : RecordOK(new[j], n)
  BY <1>3, <1>4 DEF Answers
<1>15. \A j \in Keys :
          /\ new[j].phase \in Unanswered /\ new[j].generation = t[j].generation
             => t[j].lifecycle = "Sampling" /\ t[j].job = "None"
          /\ t[j].job = "Mesh" =>
                /\ t[j].lifecycle = "Meshing" /\ new[j].phase = "AwaitingMesh"
                /\ new[j].generation = t[j].generation
  <2>1. TAKE j \in Keys
  <2>2. CASE j = k
    BY <1>3, <1>4, <1>9, <2>2
  <2>3. CASE j # k
    BY <1>3, <2>3 DEF Answers
  <2>. QED  BY <2>2, <2>3
<1>16. Answers(t, n, new, q)
  BY <1>3, <1>5, <1>11, <1>12, <1>13, <1>14, <1>15 DEF Answers
<1>. QED  BY <1>16 DEF new, q

\* Results leave the queue: place says which of it each one left is.
Picks(place, left, queue, done) ==
    /\ place \in [1..Len(left) -> done]
    /\ \A i \in 1..Len(left) : left[i] = queue[place[i]]
    /\ \A i, j \in 1..Len(left) : place[i] = place[j] => i = j

LEMMA AnswersFewer ==
    ASSUME NEW t, NEW n \in Nat, NEW recs, NEW res, Answers(t, n, recs, res),
           NEW left \in Seq(Result), NEW place, Picks(place, left, res, 1..Len(res))
    PROVE  Answers(t, n, recs, left)
<1>1. /\ \A i \in 1..Len(left) : place[i] \in 1..Len(res) /\ left[i] = res[place[i]]
      /\ \A i, j \in 1..Len(left) : place[i] = place[j] => i = j
  BY DEF Picks
<1>2. /\ \A i \in 1..Len(left) : left[i].generation <= n
      /\ \A i \in 1..Len(left) : Current(t, left[i]) =>
            /\ t[left[i].key].lifecycle = "Sampling" /\ t[left[i].key].job = "None"
            /\ left[i].ok => /\ recs[left[i].key].phase = "AwaitingMesh"
                             /\ recs[left[i].key].generation = left[i].generation
            /\ ~left[i].ok => recs[left[i].key].generation # left[i].generation
  <2>1. ASSUME NEW i \in 1..Len(left)
        PROVE  /\ left[i].generation <= n
               /\ Current(t, left[i]) =>
                     /\ t[left[i].key].lifecycle = "Sampling" /\ t[left[i].key].job = "None"
                     /\ left[i].ok => /\ recs[left[i].key].phase = "AwaitingMesh"
                                      /\ recs[left[i].key].generation = left[i].generation
                     /\ ~left[i].ok => recs[left[i].key].generation # left[i].generation
    <3>1. PICK j \in 1..Len(res) : left[i] = res[j]
      BY <1>1
    <3>. QED  BY <3>1 DEF Answers
  <2>. QED  BY <2>1
<1>3. \A i, j \in 1..Len(left) :
          Current(t, left[i]) /\ Current(t, left[j]) /\ left[i].key = left[j].key => i = j
  <2>1. \A i, j \in 1..Len(res) :
            Current(t, res[i]) /\ Current(t, res[j]) /\ res[i].key = res[j].key => i = j
    BY DEF Answers
  <2>2. ASSUME NEW i \in 1..Len(left), NEW j \in 1..Len(left),
               Current(t, left[i]), Current(t, left[j]), left[i].key = left[j].key
        PROVE  i = j
    <3>1. /\ place[i] \in 1..Len(res) /\ left[i] = res[place[i]]
          /\ place[j] \in 1..Len(res) /\ left[j] = res[place[j]]
      BY <1>1
    <3>2. place[i] = place[j]
      BY <2>1, <2>2, <3>1
    <3>. QED  BY <1>1, <3>2
  <2>. QED  BY <2>2
<1>. QED  BY <1>2, <1>3 DEF Answers

-----------------------------------------------------------------------------
(* The helpers of the runtime, on a state s of it.  What they share: the   *)
(* scheduler's table, the number of generations in use, and the workers.   *)

Sound(c, late, s) ==
    /\ DOMAIN s = {"records", "storage", "cache", "results"} /\ c.bound \in Nat
    /\ Answers(c.table, c.bound, s.records, s.results)
    /\ Open(s.storage, c.threads)
    /\ Owed(s.storage, s.records, late)

\* The records other than k are left alone.
OnlyRecord(k, s, new) == \A j \in Keys \ {k} : new.records[j] = s.records[j]

LEMMA RecordFields ==
    ASSUME NEW c, NEW late, NEW s, Sound(c, late, s), NEW k \in Keys
    PROVE  /\ s.records[k] \in Record /\ RecordOK(s.records[k], c.bound)
           /\ DOMAIN s.records = Keys
           /\ DOMAIN s.records[k] = {"phase", "generation", "priority",
                                     "pages", "pinned", "asked"}
           /\ s.records[k].phase \in Phases /\ s.records[k].pages \subseteq Pages
           /\ s.records[k].pinned \subseteq Pages
           /\ s.records[k].asked \in [Pages -> Priorities \cup {None}]
           /\ s.records[k].phase # "None" => s.records[k].priority \in Priorities
<1>1. RecordOK(s.records[k], c.bound) /\ DOMAIN s.records = Keys
  BY DEF Sound, Answers
<1>. QED  BY <1>1 DEF RecordOK, Record

\* Record k changes within its phase, or stays unanswered; what it waits for
\* then is safe.
Replaces(c, k, r, s, new, late, rest) ==
    /\ RecordOK(r, c.bound) /\ r.generation = s.records[k].generation
    /\ r.phase = s.records[k].phase \/ {r.phase, s.records[k].phase} \subseteq Unanswered
    /\ DOMAIN new = DOMAIN s /\ new.records = [s.records EXCEPT ![k] = r]
    /\ new.results = s.results
    /\ Open(new.storage, c.threads) /\ \A p : Safe(s.storage, p) => Safe(new.storage, p)
    /\ \A j \in Keys \ {k}, p \in Pages : <<j, p>> \in late => <<j, p>> \in rest
    /\ \A p \in Pages : Waits(r, p) /\ <<k, p>> \notin rest => Safe(new.storage, p)

LEMMA SoundReplaced ==
    ASSUME NEW c, NEW late, NEW s, Sound(c, late, s),
           NEW k \in Keys, NEW r, NEW new, NEW rest, Replaces(c, k, r, s, new, late, rest)
    PROVE  Sound(c, rest, new) /\ OnlyRecord(k, s, new) /\ new.records[k] = r
<1>1. Answers(c.table, c.bound, new.records, new.results)
  BY AnswersKept DEF Sound, Replaces
<1>2. /\ DOMAIN s.records = Keys /\ new.records[k] = r
      /\ \A j \in Keys \ {k} : new.records[j] = s.records[j]
  BY DEF Sound, Answers, Replaces
<1>3. Owed(new.storage, new.records, rest)
  <2>1. SUFFICES ASSUME NEW j \in Keys, NEW p \in Pages, Waits(new.records[j], p),
                        <<j, p>> \notin rest
                 PROVE  Safe(new.storage, p)
    BY DEF Owed
  <2>2. CASE j = k
    BY <1>2, <2>1, <2>2 DEF Replaces
  <2>3. CASE j # k
    BY <1>2, <2>1, <2>3 DEF Sound, Owed, Replaces
  <2>. QED  BY <2>2, <2>3
<1>. QED  BY <1>1, <1>2, <1>3 DEF Sound, OnlyRecord, Replaces

LEMMA SubmitSound ==
    ASSUME NEW c, NEW late, NEW s, Sound(c, late, s), NEW k \in Keys
    PROVE  /\ Sound(c, late, Submit(s, k)) /\ OnlyRecord(k, s, Submit(s, k))
           /\ Submit(s, k).storage = s.storage
<1> DEFINE r == s.records[k]
           x == [key |-> k, generation |-> r.generation, ok |-> r.phase = "SampleReady"]
           after == IF r.phase = "SampleReady" THEN [r EXCEPT !.phase = "AwaitingMesh"]
                    ELSE NoRecord
           new == Submit(s, k)
<1>1. CASE new = s
  BY <1>1 DEF OnlyRecord
<1>2. CASE new # s
  <2>1. /\ Pending(r.phase)
        /\ new = [s EXCEPT !.results = Append(@, x), !.records[k] = after]
    BY <1>2 DEF Submit
  <2>2. /\ DOMAIN new = DOMAIN s /\ new.storage = s.storage
        /\ new.results = Append(s.results, x)
        /\ new.records = [s.records EXCEPT ![k] = after]
    BY <2>1 DEF Sound
  <2>3. Answers(c.table, c.bound, new.records, new.results)
    <3>1. Answers(c.table, c.bound, s.records, s.results) /\ c.bound \in Nat
      BY DEF Sound
    <3>. HIDE DEF new, x, after
    <3>2. /\ x = [key |-> k, generation |-> s.records[k].generation,
                  ok |-> s.records[k].phase = "SampleReady"]
          /\ after = IF s.records[k].phase = "SampleReady"
                     THEN [s.records[k] EXCEPT !.phase = "AwaitingMesh"] ELSE NoRecord
      BY DEF x, after
    <3>3. Pending(s.records[k].phase)
      BY <2>1
    <3>4. Answers(c.table, c.bound, [s.records EXCEPT ![k] = after], Append(s.results, x))
      BY <3>1, <3>2, <3>3, AnswersSubmitted
    <3>. QED  BY <2>2, <3>4
  <2>4. /\ DOMAIN s.records = Keys /\ new.records[k] = after
        /\ \A j \in Keys \ {k} : new.records[j] = s.records[j]
    BY <2>2 DEF Sound, Answers
  <2>5. after.phase # "Loading"
    <3>1. r \in Record
      BY RecordFields
    <3>. QED  BY <3>1 DEF NoRecord, Record
  <2>6. Owed(new.storage, new.records, late)
    <3>1. SUFFICES ASSUME NEW j \in Keys, NEW p \in Pages, Waits(new.records[j], p),
                          <<j, p>> \notin late
                   PROVE  Safe(new.storage, p)
      BY DEF Owed
    <3>2. j # k
      BY <2>4, <2>5, <3>1 DEF Waits
    <3>. QED  BY <2>2, <2>4, <3>1, <3>2 DEF Sound, Owed
  <2>. QED  BY <2>2, <2>3, <2>4, <2>6 DEF Sound, OnlyRecord
<1>. QED  BY <1>1, <1>2

\* A failed record waits for nothing any more.
LEMMA FailedSound ==
    ASSUME NEW c, NEW late, NEW s, Sound(c, late, s), NEW k \in Keys,
           s.records[k].phase = "Loading",
           NEW rest, \A j \in Keys \ {k}, p \in Pages : <<j, p>> \in late => <<j, p>> \in rest
    PROVE  /\ Sound(c, rest, SampleFailed(s, k)) /\ OnlyRecord(k, s, SampleFailed(s, k))
           /\ SampleFailed(s, k).storage = s.storage
<1> DEFINE r == [s.records[k] EXCEPT !.phase = "SampleFailedReady", !.pinned = {}]
           failed == [s EXCEPT !.records[k].phase = "SampleFailedReady",
                               !.records[k].pinned = {}]
<1>1. /\ s.records[k] \in Record /\ RecordOK(s.records[k], c.bound)
      /\ DOMAIN s.records = Keys
      /\ DOMAIN s.records[k] = {"phase", "generation", "priority", "pages", "pinned", "asked"}
  BY RecordFields
<1>2. /\ r.phase = "SampleFailedReady" /\ r.generation = s.records[k].generation
      /\ r.priority = s.records[k].priority /\ r \in Record
  BY <1>1 DEF Record, Phases
<1>3. /\ DOMAIN failed = DOMAIN s /\ failed.results = s.results
      /\ failed.storage = s.storage /\ failed.records = [s.records EXCEPT ![k] = r]
  BY <1>1 DEF Sound
<1>4. RecordOK(r, c.bound)
  BY <1>1, <1>2 DEF RecordOK
<1>. HIDE DEF r, failed
<1>5. {r.phase, s.records[k].phase} \subseteq Unanswered /\ \A p : ~Waits(r, p)
  BY <1>2 DEF Unanswered, Waits
<1>6. Sound(c, rest, failed) /\ OnlyRecord(k, s, failed)
  <2>1. Open(failed.storage, c.threads) /\ \A p : Safe(s.storage, p) => Safe(failed.storage, p)
    BY <1>3 DEF Sound
  <2>2. \A p \in Pages : Waits(r, p) /\ <<k, p>> \notin rest => Safe(failed.storage, p)
    BY <1>5
  <2>3. Replaces(c, k, r, s, failed, late, rest)
    BY <1>2, <1>3, <1>4, <1>5, <2>1, <2>2 DEF Replaces
  <2>. QED  BY <2>3, SoundReplaced
<1>7. /\ Sound(c, rest, Submit(failed, k)) /\ OnlyRecord(k, failed, Submit(failed, k))
      /\ Submit(failed, k).storage = failed.storage
  BY <1>6, SubmitSound
<1>8. SampleFailed(s, k) = Submit(failed, k)
  BY DEF SampleFailed, failed
<1>. QED  BY <1>3, <1>6, <1>7, <1>8 DEF OnlyRecord

\* A pinned page is not waited for any more.
LEMMA PinnedSound ==
    ASSUME NEW c, NEW late, NEW s, Sound(c, late, s), NEW k \in Keys, NEW page \in Pages,
           s.records[k].phase = "Loading",
           NEW rest, \A j \in Keys, p \in Pages :
                        <<j, p>> \in late /\ <<j, p>> # <<k, page>> => <<j, p>> \in rest
    PROVE  /\ Sound(c, rest, Pinned(s, k, page)) /\ OnlyRecord(k, s, Pinned(s, k, page))
           /\ Pinned(s, k, page).storage = s.storage
           /\ Pinned(s, k, page).records[k].phase = "Loading"
<1> DEFINE r == [s.records[k] EXCEPT !.pinned = @ \cup {page}, !.asked[page] = None]
           new == Pinned(s, k, page)
<1>1. /\ s.records[k] \in Record /\ RecordOK(s.records[k], c.bound)
      /\ DOMAIN s.records = Keys
      /\ DOMAIN s.records[k] = {"phase", "generation", "priority", "pages", "pinned", "asked"}
      /\ s.records[k].pinned \subseteq Pages
      /\ s.records[k].asked \in [Pages -> Priorities \cup {None}]
  BY RecordFields
<1>2. /\ r.phase = "Loading" /\ r.generation = s.records[k].generation
      /\ r.priority = s.records[k].priority /\ r.pages = s.records[k].pages
      /\ r.pinned = s.records[k].pinned \cup {page}
      /\ r.asked = [s.records[k].asked EXCEPT ![page] = None]
      /\ DOMAIN r = DOMAIN s.records[k]
  BY <1>1
<1>3. r.asked \in [Pages -> Priorities \cup {None}] /\ r.pinned \subseteq Pages
  BY <1>1, <1>2
<1>4. r \in Record
  BY <1>1, <1>2, <1>3 DEF Record
<1>5. /\ DOMAIN new = DOMAIN s /\ new.results = s.results
      /\ new.storage = s.storage /\ new.records = [s.records EXCEPT ![k] = r]
  BY <1>1 DEF Sound, Pinned
<1>. HIDE DEF r, new
<1>6. RecordOK(r, c.bound)
  BY <1>1, <1>2, <1>4 DEF RecordOK
<1>7. ASSUME NEW p \in Pages, Waits(r, p), <<k, p>> \notin rest PROVE Safe(s.storage, p)
  <2>1. p # page /\ Waits(s.records[k], p)
    BY <1>1, <1>2, <1>7 DEF Waits
  <2>. QED  BY <1>7, <2>1 DEF Sound, Owed
<1>8. \A j \in Keys \ {k}, p \in Pages : <<j, p>> \in late => <<j, p>> \in rest
  OBVIOUS
<1>9. Sound(c, rest, new) /\ OnlyRecord(k, s, new)
  <2>1. Open(new.storage, c.threads) /\ \A p : Safe(s.storage, p) => Safe(new.storage, p)
    BY <1>5 DEF Sound
  <2>2. \A p \in Pages : Waits(r, p) /\ <<k, p>> \notin rest => Safe(new.storage, p)
    BY <1>5, <1>7
  <2>3. /\ {r.phase, s.records[k].phase} \subseteq Unanswered
        /\ r.generation = s.records[k].generation
    BY <1>2 DEF Unanswered
  <2>4. /\ DOMAIN new = DOMAIN s /\ new.results = s.results
        /\ new.records = [s.records EXCEPT ![k] = r]
    BY <1>5
  <2>5. Replaces(c, k, r, s, new, late, rest)
    BY <1>6, <1>8, <2>1, <2>2, <2>3, <2>4 DEF Replaces
  <2>. QED  BY <2>5, SoundReplaced
<1>10. new.records[k].phase = "Loading"
  BY <1>1, <1>2, <1>5
<1>. QED  BY <1>5, <1>9, <1>10 DEF new

LEMMA SampledSound ==
    ASSUME NEW c, NEW late, NEW s, Sound(c, late, s), NEW k \in Keys
    PROVE  /\ Sound(c, late, Sampled(s, k)) /\ OnlyRecord(k, s, Sampled(s, k))
           /\ Sampled(s, k).storage = s.storage
<1> DEFINE r == [s.records[k] EXCEPT !.phase = "SampleReady"]
           ready == [s EXCEPT !.records[k].phase = "SampleReady"]
<1>1. /\ s.records[k] \in Record /\ RecordOK(s.records[k], c.bound)
      /\ DOMAIN s.records = Keys
      /\ DOMAIN s.records[k] = {"phase", "generation", "priority", "pages", "pinned", "asked"}
  BY RecordFields
<1>2. CASE s.records[k].phase = "Loading" /\ s.records[k].pinned = s.records[k].pages
  <2>1. /\ r.phase = "SampleReady" /\ r.generation = s.records[k].generation
        /\ r.priority = s.records[k].priority /\ r \in Record
        /\ r.pinned = s.records[k].pinned /\ r.pages = s.records[k].pages
    BY <1>1 DEF Record, Phases
  <2>2. /\ DOMAIN ready = DOMAIN s /\ ready.results = s.results
        /\ ready.storage = s.storage /\ ready.records = [s.records EXCEPT ![k] = r]
    BY <1>1 DEF Sound
  <2>3. RecordOK(r, c.bound)
    BY <1>1, <1>2, <2>1 DEF RecordOK
  <2>4. Sampled(s, k) = Submit(ready, k)
    BY <1>2 DEF Sampled
  <2>. HIDE DEF r, ready
  <2>5. {r.phase, s.records[k].phase} \subseteq Unanswered /\ \A p : ~Waits(r, p)
    BY <1>2, <2>1 DEF Unanswered, Waits
  <2>6. Sound(c, late, ready) /\ OnlyRecord(k, s, ready)
    <3>1. Open(ready.storage, c.threads) /\ \A p : Safe(s.storage, p) => Safe(ready.storage, p)
      BY <2>2 DEF Sound
    <3>2. \A p \in Pages : Waits(r, p) /\ <<k, p>> \notin late => Safe(ready.storage, p)
      BY <2>5
    <3>3. Replaces(c, k, r, s, ready, late, late)
      BY <2>1, <2>2, <2>3, <2>5, <3>1, <3>2 DEF Replaces
    <3>. QED  BY <3>3, SoundReplaced
  <2>7. /\ Sound(c, late, Submit(ready, k)) /\ OnlyRecord(k, ready, Submit(ready, k))
        /\ Submit(ready, k).storage = ready.storage
    BY <2>6, SubmitSound
  <2>. QED  BY <2>2, <2>4, <2>6, <2>7 DEF OnlyRecord
<1>3. CASE ~(s.records[k].phase = "Loading" /\ s.records[k].pinned = s.records[k].pages)
  <2>1. Sampled(s, k) = s
    BY <1>3 DEF Sampled
  <2>. QED  BY <2>1 DEF OnlyRecord
<1>. QED  BY <1>2, <1>3

-----------------------------------------------------------------------------
(* The folds: what one round keeps, and what the whole fold therefore      *)
(* keeps.  In each, c holds what the rounds share.                         *)

LEMMA PageSets ==
    ASSUME NEW S, S \subseteq Pages
    PROVE  /\ IsFiniteSet(S)
           /\ \A s \in SUBSET S : s # {} => Max(s) \in s /\ Min(s) \in s
<1>1. IsFiniteSet(Pages) /\ Pages \subseteq Nat
  BY StorageAssumption
<1>2. \A s \in SUBSET S : IsFiniteSet(s) /\ s \subseteq Nat
  BY <1>1, FS_Subset
<1>. QED  BY <1>2, MaxElement, MinElement

LEMMA KeySets ==
    ASSUME NEW S, S \subseteq Keys
    PROVE  /\ IsFiniteSet(S)
           /\ \A s \in SUBSET S : s # {} => Max(s) \in s /\ Min(s) \in s
BY PageSets, LoadingAssumption

\* cancel_orphaned_dependency_requests
CancelRound(c, s, page) == CancelOrphan(s, page)

CancelKept(c, done, s) ==
    /\ DOMAIN s = {"records", "storage", "cache", "results"}
    /\ s.records = c.from.records /\ s.results = c.from.results
    /\ Open(s.storage, c.threads) /\ Owed(s.storage, s.records, {})

CancelFold == INSTANCE FoldInduction
    WITH Step <- CancelRound, Choice <- Max, Holds <- CancelKept

LEMMA CancelStep ==
    ASSUME NEW c, NEW done, NEW next, NEW s, CancelKept(c, done, s), NEW page \in Pages
    PROVE  CancelKept(c, next, CancelRound(c, s, page))
<1> DEFINE new == CancelOrphan(s, page)
           st == CancelQueued(s.storage, page, "PageMeshing")
<1>1. CASE \E k \in Keys : s.records[k].asked[page] # None
  BY <1>1 DEF CancelOrphan, CancelRound, CancelKept
<1>2. CASE ~ \E k \in Keys : s.records[k].asked[page] # None
  <2>1. /\ DOMAIN new = DOMAIN s /\ new.storage = st
        /\ new.records = s.records /\ new.results = s.results
    BY <1>2 DEF CancelOrphan, CancelKept
  <2>2. Open(st, c.threads) /\ \A p : Safe(s.storage, p) /\ p # page => Safe(st, p)
    BY CancelCall DEF CancelKept, Sources
  <2>. HIDE DEF new, st
  <2>3. Owed(st, s.records, {})
    BY <1>2, <2>2 DEF Owed, Waits, CancelKept
  <2>. QED  BY <2>1, <2>2, <2>3 DEF CancelKept, CancelRound, new
<1>. QED  BY <1>1, <1>2

LEMMA CancelOrphansKept ==
    ASSUME NEW c, NEW s, NEW removed, CancelKept(c, {}, s)
    PROVE  CancelKept(c, {}, CancelOrphans(s, removed))
<1> DEFINE S == Asked(removed)
<1>1. CancelOrphans(s, removed) = CancelFold!Fold(c, s, S)
  BY DEF CancelOrphans, Upwards, CancelFold!Fold, MapThenFoldSet,
         CancelFold!MapThenFoldSet, CancelRound
<1>2. S \subseteq Pages
  BY DEF Asked
<1>. HIDE DEF S
<1>3. CancelFold!IsFiniteSet(S)
  BY <1>2, PageSets DEF CancelFold!IsFiniteSet, IsFiniteSet
<1>4. \A t \in SUBSET S : t # {} => Max(t) \in t
  BY <1>2, PageSets
<1>5. \A done \in SUBSET S, x \in S : \A a :
          x \notin done /\ CancelKept(c, done, a)
             => CancelKept(c, done \cup {x}, CancelRound(c, a, x))
  BY <1>2, CancelStep
<1>6. CancelKept(c, S, CancelFold!Fold(c, s, S))
  BY <1>3, <1>4, <1>5, CancelFold!FoldHolds
<1>. QED  BY <1>1, <1>6 DEF CancelKept

\* release_chunk: no other record loses a page it waits for.
LEMMA ReleasedKept ==
    ASSUME NEW s, DOMAIN s = {"records", "storage", "cache", "results"},
           DOMAIN s.records = Keys, NEW k \in Keys,
           NEW threads, Open(s.storage, threads), Owed(s.storage, s.records, {})
    PROVE  LET new == Released(s, k)
           IN  /\ DOMAIN new = {"records", "storage", "cache", "results"}
               /\ new.records = [s.records EXCEPT ![k] = NoRecord]
               /\ new.results = s.results
               /\ Open(new.storage, threads) /\ Owed(new.storage, new.records, {})
<1> DEFINE gone == [s EXCEPT !.records[k] = NoRecord]
           c == [from |-> gone, threads |-> threads]
<1>1. /\ DOMAIN gone = {"records", "storage", "cache", "results"}
      /\ gone.storage = s.storage /\ gone.results = s.results
      /\ gone.records = [s.records EXCEPT ![k] = NoRecord]
      /\ c.from = gone /\ c.threads = threads
  OBVIOUS
<1>. HIDE DEF gone, c
<1>2. gone.records[k] = NoRecord /\ \A j \in Keys \ {k} : gone.records[j] = s.records[j]
  BY <1>1
<1>3. Owed(gone.storage, gone.records, {})
  <2>1. \A p : ~Waits(NoRecord, p)
    BY DEF Waits, NoRecord
  <2>. QED  BY <1>1, <1>2, <2>1 DEF Owed
<1>4. CancelKept(c, {}, gone)
  BY <1>1, <1>3 DEF CancelKept
<1>5. CancelKept(c, {}, CancelOrphans(gone, s.records[k]))
  BY <1>4, CancelOrphansKept
<1>6. Released(s, k) = CancelOrphans(gone, s.records[k])
  BY DEF Released, gone
<1>. QED  BY <1>1, <1>5, <1>6 DEF CancelKept

\* resolve_loading_record: the round of one page.
ResolveRound(c, a, page) == ResolveDependency(a, c.key, page)

ResolveKept(c, done, a) ==
    /\ DOMAIN a = {"s", "status"}
    /\ Sound(c, {}, a.s) /\ OnlyRecord(c.key, c.from, a.s)
    /\ a.status = "Ok" => a.s.records[c.key].phase = "Loading"

ResolveFold == INSTANCE FoldInduction
    WITH Step <- ResolveRound, Choice <- Max, Holds <- ResolveKept

\* A page a loading record asks for is safe.
Asks(k, page, s, new) ==
    LET old == s.records[k]
    IN  /\ RequestStatus(s.storage, page, old.priority) \in {"Ok", "AlreadyPending"}
        /\ DOMAIN new = DOMAIN s /\ new.results = s.results
        /\ new.storage = RequestPage(s.storage, page, old.priority, "PageMeshing")
        /\ new.records = [s.records EXCEPT ![k] = [old EXCEPT !.asked[page] = old.priority]]

LEMMA AskedSound ==
    ASSUME NEW c, NEW s, Sound(c, {}, s), NEW k \in Keys, NEW page \in Pages,
           s.records[k].phase = "Loading", NEW new, Asks(k, page, s, new)
    PROVE  /\ Sound(c, {}, new) /\ OnlyRecord(k, s, new)
           /\ new.records[k].phase = "Loading"
<1> DEFINE old == s.records[k]
           r == [old EXCEPT !.asked[page] = old.priority]
           st == RequestPage(s.storage, page, old.priority, "PageMeshing")
<1>1. /\ old \in Record /\ RecordOK(old, c.bound) /\ old.priority \in Priorities
      /\ DOMAIN s.records = Keys
      /\ DOMAIN old = {"phase", "generation", "priority", "pages", "pinned", "asked"}
      /\ old.asked \in [Pages -> Priorities \cup {None}]
  BY RecordFields
<1>2. /\ r.phase = "Loading" /\ r.generation = old.generation
      /\ r.priority = old.priority /\ r.pages = old.pages /\ r.pinned = old.pinned
      /\ r.asked = [old.asked EXCEPT ![page] = old.priority]
      /\ DOMAIN r = DOMAIN old
  BY <1>1
<1>3. r.asked \in [Pages -> Priorities \cup {None}]
  BY <1>1, <1>2
<1>4. r \in Record
  BY <1>1, <1>2, <1>3 DEF Record
<1>5. /\ DOMAIN new = DOMAIN s /\ new.results = s.results
      /\ new.storage = st /\ new.records = [s.records EXCEPT ![k] = r]
  BY DEF Asks
<1>6. /\ Open(st, c.threads) /\ Safe(st, page)
      /\ \A p : Safe(s.storage, p) => Safe(st, p)
  <2>1. RequestStatus(s.storage, page, old.priority) \in {"Ok", "AlreadyPending"}
    BY DEF Asks
  <2>. QED  BY <1>1, <2>1, RequestCall DEF Sound, Sources
<1>. HIDE DEF st, r
<1>7. RecordOK(r, c.bound)
  BY <1>1, <1>2, <1>4 DEF RecordOK
<1>8. ASSUME NEW p \in Pages, Waits(r, p), <<k, p>> \notin {} PROVE Safe(st, p)
  <2>1. CASE p = page
    BY <1>6, <2>1
  <2>2. CASE p # page
    <3>1. Waits(old, p)
      BY <1>1, <1>2, <1>8, <2>2 DEF Waits
    <3>. QED  BY <1>6, <3>1 DEF Sound, Owed
  <2>. QED  BY <2>1, <2>2
<1>9. {r.phase, s.records[k].phase} \subseteq Unanswered
  BY <1>2 DEF Unanswered
<1>10. \A p \in Pages : Waits(r, p) /\ <<k, p>> \notin {} => Safe(new.storage, p)
  BY <1>5, <1>8
<1>11. \A j \in Keys \ {k}, p \in Pages : <<j, p>> \in {} => <<j, p>> \in {}
  OBVIOUS
<1>12. Open(new.storage, c.threads) /\ \A p : Safe(s.storage, p) => Safe(new.storage, p)
  BY <1>5, <1>6
<1>13. r.generation = s.records[k].generation
  BY <1>2
<1>14. Replaces(c, k, r, s, new, {}, {})
  BY <1>5, <1>7, <1>9, <1>10, <1>11, <1>12, <1>13 DEF Replaces
<1>15. Sound(c, {}, new) /\ OnlyRecord(k, s, new)
  BY <1>14, SoundReplaced
<1>16. new.records[k].phase = "Loading"
  BY <1>1, <1>2, <1>5
<1>. QED  BY <1>15, <1>16

LEMMA ResolveStep ==
    ASSUME NEW c, c.key \in Keys, NEW done, NEW next, NEW a, ResolveKept(c, done, a),
           NEW page \in Pages
    PROVE  ResolveKept(c, next, ResolveRound(c, a, page))
<1> DEFINE k == c.key
           r == a.s.records[k]
           status == RequestStatus(a.s.storage, page, r.priority)
           new == ResolveDependency(a, k, page)
<1>1. Sound(c, {}, a.s) /\ DOMAIN a = {"s", "status"} /\ OnlyRecord(k, c.from, a.s)
  BY DEF ResolveKept
<1>2. CASE new = a
  BY <1>2 DEF ResolveKept, ResolveRound
<1>3. CASE new # a
  <2>1. /\ a.status = "Ok"
        /\ \/ Cached(a.s.cache, page) /\ new = [a EXCEPT !.s = Pinned(@, k, page)]
           \/ /\ status \in {"Ok", "AlreadyPending"}
              /\ new = [a EXCEPT !.s.storage = RequestPage(@, page, r.priority, "PageMeshing"),
                                 !.s.records[k].asked[page] = r.priority]
           \/ new = [a EXCEPT !.status = "Backpressure"]
           \/ new = [s |-> SampleFailed(a.s, k), status |-> "StorageFailure"]
    BY <1>3 DEF ResolveDependency
  <2>2. r.phase = "Loading"
    BY <2>1 DEF ResolveKept
  <2>3. CASE new = [a EXCEPT !.s = Pinned(@, k, page)]
    <3>1. DOMAIN new = {"s", "status"} /\ new.s = Pinned(a.s, k, page) /\ new.status = a.status
      BY <1>1, <2>3
    <3>2. /\ Sound(c, {}, new.s) /\ OnlyRecord(k, a.s, new.s)
          /\ new.s.records[k].phase = "Loading"
      BY <1>1, <2>2, <3>1, PinnedSound
    <3>. QED  BY <1>1, <3>1, <3>2 DEF ResolveKept, ResolveRound, OnlyRecord
  <2>4. CASE /\ status \in {"Ok", "AlreadyPending"}
             /\ new = [a EXCEPT !.s.storage = RequestPage(@, page, r.priority, "PageMeshing"),
                                !.s.records[k].asked[page] = r.priority]
    <3> DEFINE asked == [r EXCEPT !.asked[page] = r.priority]
    <3>1. /\ DOMAIN new = {"s", "status"} /\ DOMAIN new.s = DOMAIN a.s
          /\ new.s.results = a.s.results
          /\ new.s.storage = RequestPage(a.s.storage, page, r.priority, "PageMeshing")
          /\ new.s.records = [a.s.records EXCEPT ![k] = asked]
      <4>1. /\ DOMAIN a.s = {"records", "storage", "cache", "results"}
            /\ DOMAIN a.s.records = Keys /\ k \in Keys
            /\ DOMAIN r = {"phase", "generation", "priority", "pages", "pinned", "asked"}
        <5>1. k \in Keys /\ Sound(c, {}, a.s)
          BY <1>1
        <5>2. DOMAIN a.s = {"records", "storage", "cache", "results"}
          BY <5>1 DEF Sound
        <5>. QED  BY <5>1, <5>2, RecordFields
      <4> DEFINE mid == [a.s EXCEPT !.storage =
                            RequestPage(@, page, r.priority, "PageMeshing")]
                 last == [mid EXCEPT !.records[k].asked[page] = r.priority]
      <4>2. /\ DOMAIN mid = DOMAIN a.s /\ mid.results = a.s.results
            /\ mid.records = a.s.records
            /\ mid.storage = RequestPage(a.s.storage, page, r.priority, "PageMeshing")
        BY <4>1
      <4>3. new = [a EXCEPT !.s = last]
        BY <1>1, <2>4
      <4>. HIDE DEF mid, new
      <4>4. /\ DOMAIN last = DOMAIN mid /\ last.results = mid.results
            /\ last.storage = mid.storage
            /\ last.records = [mid.records EXCEPT ![k] =
                                 [mid.records[k] EXCEPT !.asked[page] = r.priority]]
        BY <4>1, <4>2
      <4>. HIDE DEF last
      <4>. QED  BY <1>1, <4>2, <4>3, <4>4
    <3>2. /\ Sound(c, {}, new.s) /\ OnlyRecord(k, a.s, new.s)
          /\ new.s.records[k].phase = "Loading"
      <4>1. Asks(k, page, a.s, new.s)
        BY <2>4, <3>1 DEF Asks
      <4>. HIDE DEF new, asked
      <4>. QED  BY <1>1, <2>2, <4>1, AskedSound
    <3>. QED  BY <1>1, <3>1, <3>2 DEF ResolveKept, ResolveRound, OnlyRecord
  <2>5. CASE new = [a EXCEPT !.status = "Backpressure"]
    <3>1. DOMAIN new = {"s", "status"} /\ new.s = a.s /\ new.status = "Backpressure"
      BY <1>1, <2>5
    <3>. QED  BY <1>1, <3>1 DEF ResolveKept, ResolveRound
  <2>6. CASE new = [s |-> SampleFailed(a.s, k), status |-> "StorageFailure"]
    <3>1. /\ DOMAIN new = {"s", "status"}
          /\ new.s = SampleFailed(a.s, k) /\ new.status = "StorageFailure"
      BY <2>6
    <3>2. Sound(c, {}, new.s) /\ OnlyRecord(k, a.s, new.s)
      BY <1>1, <2>2, <3>1, FailedSound
    <3>. QED  BY <1>1, <3>1, <3>2 DEF ResolveKept, ResolveRound, OnlyRecord
  <2>. QED  BY <2>1, <2>3, <2>4, <2>5, <2>6
<1>. QED  BY <1>2, <1>3

LEMMA ResolveSound ==
    ASSUME NEW c, NEW s, Sound(c, {}, s), NEW k \in Keys, s.records[k].phase = "Loading"
    PROVE  Sound(c, {}, Resolve(s, k).s) /\ OnlyRecord(k, s, Resolve(s, k).s)
<1> DEFINE S == s.records[k].pages
           d == [table |-> c.table, bound |-> c.bound, threads |-> c.threads,
                 key |-> k, from |-> s]
           first == [s |-> s, status |-> "Ok"]
           tried == Upwards(LAMBDA a, page : ResolveDependency(a, k, page), first, S)
<1>1. d.key = k /\ d.from = s /\ \A t : Sound(d, {}, t) <=> Sound(c, {}, t)
  BY DEF Sound
<1>2. tried = ResolveFold!Fold(d, first, S)
  BY DEF Upwards, ResolveFold!Fold, MapThenFoldSet, ResolveFold!MapThenFoldSet, ResolveRound
<1>3. S \subseteq Pages
  BY RecordFields
<1>4. ResolveKept(d, {}, first)
  BY <1>1 DEF ResolveKept, OnlyRecord
<1>5. Resolve(s, k).s \in {tried.s, Sampled(tried.s, k)}
  BY DEF Resolve
<1>. HIDE DEF S, d, first, tried
<1>6. ResolveFold!IsFiniteSet(S)
  BY <1>3, PageSets DEF ResolveFold!IsFiniteSet, IsFiniteSet
<1>7. \A t \in SUBSET S : t # {} => Max(t) \in t
  BY <1>3, PageSets
<1>8. \A done \in SUBSET S, x \in S : \A a :
          x \notin done /\ ResolveKept(d, done, a)
             => ResolveKept(d, done \cup {x}, ResolveRound(d, a, x))
  BY <1>1, <1>3, ResolveStep
<1>9. ResolveKept(d, S, tried)
  BY <1>2, <1>4, <1>6, <1>7, <1>8, ResolveFold!FoldHolds
<1>10. Sound(c, {}, tried.s) /\ OnlyRecord(k, s, tried.s)
  BY <1>1, <1>9 DEF ResolveKept
<1>11. Sound(c, {}, Sampled(tried.s, k)) /\ OnlyRecord(k, tried.s, Sampled(tried.s, k))
  BY <1>10, SampledSound
<1>. QED  BY <1>5, <1>10, <1>11 DEF OnlyRecord

\* process_foreground_priority_event: the pages that leave the shell, and those
\* that enter it.
LeaveRound(c, st, page) == CancelQueued(st, page, "InteractionWarm")

LeaveKept(c, done, st) == Open(st, c.threads) /\ Owed(st, c.records, {})

LeaveFold == INSTANCE FoldInduction
    WITH Step <- LeaveRound, Choice <- Max, Holds <- LeaveKept

WarmRound(c, a, page) == WarmPage(a, page)

WarmKept(c, done, a) ==
    /\ DOMAIN a = {"storage", "cache", "warm"}
    /\ LeaveKept(c, done, a.storage) /\ a.warm \subseteq Pages

WarmFold == INSTANCE FoldInduction
    WITH Step <- WarmRound, Choice <- Max, Holds <- WarmKept

LEMMA LeaveStep ==
    ASSUME NEW c, NEW done, NEW next, NEW st, LeaveKept(c, done, st), NEW page \in Pages
    PROVE  LeaveKept(c, next, LeaveRound(c, st, page))
<1>1. "InteractionWarm" \in Sources
  BY DEF Sources
<1>2. /\ Open(CancelQueued(st, page, "InteractionWarm"), c.threads)
      /\ \A p : Safe(st, p) => Safe(CancelQueued(st, page, "InteractionWarm"), p)
  BY <1>1, CancelCall DEF LeaveKept
<1>. QED  BY <1>2 DEF LeaveKept, LeaveRound, Owed

LEMMA WarmStep ==
    ASSUME NEW c, NEW done, NEW next, NEW a, WarmKept(c, done, a), NEW page \in Pages
    PROVE  WarmKept(c, next, WarmRound(c, a, page))
<1> DEFINE st == RequestPage(a.storage, page, FocusPriority, "InteractionWarm")
           new == WarmPage(a, page)
<1>1. "InteractionWarm" \in Sources /\ FocusPriority \in Priorities
  BY StorageAssumption DEF Sources
<1>2. Open(st, c.threads) /\ \A p : Safe(a.storage, p) => Safe(st, p)
  BY <1>1, RequestCall DEF WarmKept, LeaveKept
<1>3. /\ DOMAIN new = {"storage", "cache", "warm"} /\ new.storage \in {a.storage, st}
      /\ new.warm \in {a.warm, a.warm \cup {page}}
  BY DEF WarmPage, WarmKept
<1>. HIDE DEF st, new
<1>4. LeaveKept(c, next, new.storage)
  BY <1>2, <1>3 DEF WarmKept, LeaveKept, Owed
<1>5. new.warm \subseteq Pages
  BY <1>3 DEF WarmKept
<1>. QED  BY <1>3, <1>4, <1>5 DEF WarmKept, WarmRound, new

LEMMA LeftKept ==
    ASSUME NEW c, NEW st, LeaveKept(c, {}, st), NEW S \in SUBSET Pages
    PROVE  LeaveKept(c, {}, Upwards(LAMBDA s, page : CancelQueued(s, page, "InteractionWarm"),
                                    st, S))
<1> DEFINE left == Upwards(LAMBDA s, page : CancelQueued(s, page, "InteractionWarm"), st, S)
<1>1. left = LeaveFold!Fold(c, st, S)
  BY DEF Upwards, LeaveFold!Fold, MapThenFoldSet, LeaveFold!MapThenFoldSet, LeaveRound
<1>. HIDE DEF left
<1>2. LeaveFold!IsFiniteSet(S)
  BY PageSets DEF LeaveFold!IsFiniteSet, IsFiniteSet
<1>3. \A t \in SUBSET S : t # {} => Max(t) \in t
  BY PageSets
<1>4. \A done \in SUBSET S, x \in S : \A a :
          x \notin done /\ LeaveKept(c, done, a)
             => LeaveKept(c, done \cup {x}, LeaveRound(c, a, x))
  BY LeaveStep
<1>5. LeaveKept(c, S, left)
  BY <1>1, <1>2, <1>3, <1>4, LeaveFold!FoldHolds
<1>. QED  BY <1>5 DEF LeaveKept, left

LEMMA WarmedKept ==
    ASSUME NEW c, NEW first, WarmKept(c, {}, first), NEW S \in SUBSET Pages
    PROVE  WarmKept(c, {}, Upwards(WarmPage, first, S))
<1> DEFINE warmed == Upwards(WarmPage, first, S)
<1>1. warmed = WarmFold!Fold(c, first, S)
  BY DEF Upwards, WarmFold!Fold, MapThenFoldSet, WarmFold!MapThenFoldSet, WarmRound
<1>. HIDE DEF warmed
<1>2. WarmFold!IsFiniteSet(S)
  BY PageSets DEF WarmFold!IsFiniteSet, IsFiniteSet
<1>3. \A t \in SUBSET S : t # {} => Max(t) \in t
  BY PageSets
<1>4. \A done \in SUBSET S, x \in S : \A a :
          x \notin done /\ WarmKept(c, done, a)
             => WarmKept(c, done \cup {x}, WarmRound(c, a, x))
  BY WarmStep
<1>5. WarmKept(c, S, warmed)
  BY <1>1, <1>2, <1>3, <1>4, WarmFold!FoldHolds
<1>. QED  BY <1>5 DEF WarmKept, LeaveKept, warmed

\* accept_storage_completion: the waiting records that had no turn yet are as
\* they were, and theirs is the only page that may not be on its way.
AnswerRound(c, s, k) == Sampled(Pinned(s, k, c.page), k)

FailRound(c, s, k) == SampleFailed(s, k)

AnswerKept(c, done, s) ==
    /\ Sound(c, (c.waiting \ done) \X {c.page}, s)
    /\ \A k \in c.waiting \ done : s.records[k].phase = "Loading"

AnswerFold == INSTANCE FoldInduction
    WITH Step <- AnswerRound, Choice <- Min, Holds <- AnswerKept

FailFold == INSTANCE FoldInduction
    WITH Step <- FailRound, Choice <- Min, Holds <- AnswerKept

LEMMA AnswerStep ==
    ASSUME NEW c, c.waiting \subseteq Keys, c.page \in Pages, NEW done \in SUBSET c.waiting,
           NEW s, AnswerKept(c, done, s), NEW k \in c.waiting, k \notin done
    PROVE  /\ AnswerKept(c, done \cup {k}, AnswerRound(c, s, k))
           /\ AnswerKept(c, done \cup {k}, FailRound(c, s, k))
<1> DEFINE late == (c.waiting \ done) \X {c.page}
           rest == (c.waiting \ (done \cup {k})) \X {c.page}
           pinned == Pinned(s, k, c.page)
<1>1. /\ Sound(c, late, s) /\ k \in Keys /\ s.records[k].phase = "Loading"
      /\ \A j \in c.waiting \ (done \cup {k}) : j \in Keys \ {k} /\ s.records[j].phase = "Loading"
  BY DEF AnswerKept
<1>2. /\ \A j \in Keys, p \in Pages :
            <<j, p>> \in late /\ <<j, p>> # <<k, c.page>> => <<j, p>> \in rest
      /\ \A j \in Keys \ {k}, p \in Pages : <<j, p>> \in late => <<j, p>> \in rest
  OBVIOUS
<1>. HIDE DEF late, rest, pinned
<1>3. Sound(c, rest, pinned) /\ OnlyRecord(k, s, pinned)
  BY <1>1, <1>2, PinnedSound DEF pinned
<1>4. Sound(c, rest, Sampled(pinned, k)) /\ OnlyRecord(k, pinned, Sampled(pinned, k))
  BY <1>1, <1>3, SampledSound
<1>5. Sound(c, rest, SampleFailed(s, k)) /\ OnlyRecord(k, s, SampleFailed(s, k))
  BY <1>1, <1>2, FailedSound
<1>6. AnswerKept(c, done \cup {k}, AnswerRound(c, s, k))
  BY <1>1, <1>3, <1>4 DEF AnswerKept, AnswerRound, OnlyRecord, pinned, rest
<1>7. AnswerKept(c, done \cup {k}, FailRound(c, s, k))
  BY <1>1, <1>5 DEF AnswerKept, FailRound, OnlyRecord, rest
<1>. QED  BY <1>6, <1>7

LEMMA AnsweredSound ==
    ASSUME NEW c, NEW waiting \in SUBSET Keys, NEW page \in Pages,
           NEW s, Sound(c, waiting \X {page}, s),
           \A k \in waiting : s.records[k].phase = "Loading"
    PROVE  /\ Sound(c, {}, Downwards(LAMBDA a, k : Sampled(Pinned(a, k, page), k), s, waiting))
           /\ Sound(c, {}, Downwards(SampleFailed, s, waiting))
<1> DEFINE S == waiting
           d == [table |-> c.table, bound |-> c.bound, threads |-> c.threads,
                 waiting |-> waiting, page |-> page]
           answered == Downwards(LAMBDA a, k : Sampled(Pinned(a, k, page), k), s, S)
           failed == Downwards(SampleFailed, s, S)
<1>1. answered = AnswerFold!Fold(d, s, S)
  BY DEF Downwards, AnswerFold!Fold, MapThenFoldSet, AnswerFold!MapThenFoldSet, AnswerRound
<1>2. failed = FailFold!Fold(d, s, S)
  BY DEF Downwards, FailFold!Fold, MapThenFoldSet, FailFold!MapThenFoldSet, FailRound
<1>3. /\ d.waiting = S /\ d.page = page
      /\ \A late, t : Sound(d, late, t) <=> Sound(c, late, t)
  BY DEF Sound
<1>. HIDE DEF answered, failed, d
<1>4. AnswerFold!IsFiniteSet(S) /\ FailFold!IsFiniteSet(S)
  BY KeySets DEF AnswerFold!IsFiniteSet, FailFold!IsFiniteSet, IsFiniteSet
<1>5. \A t \in SUBSET S : t # {} => Min(t) \in t
  BY KeySets
<1>6. \A done \in SUBSET S, k \in S : \A a :
          k \notin done /\ AnswerKept(d, done, a)
             => /\ AnswerKept(d, done \cup {k}, AnswerRound(d, a, k))
                /\ AnswerKept(d, done \cup {k}, FailRound(d, a, k))
  BY <1>3, AnswerStep
<1>7. AnswerKept(d, {}, s)
  <2>1. S \ {} = S
    OBVIOUS
  <2>. QED  BY <1>3, <2>1 DEF AnswerKept
<1>8. AnswerKept(d, S, answered)
  BY <1>1, <1>4, <1>5, <1>6, <1>7, AnswerFold!FoldHolds
<1>9. AnswerKept(d, S, failed)
  BY <1>2, <1>4, <1>5, <1>6, <1>7, FailFold!FoldHolds
<1>10. (S \ S) \X {page} = {}
  OBVIOUS
<1>. QED  BY <1>3, <1>8, <1>9, <1>10 DEF AnswerKept, answered, failed

\* resume_loading_records: the records that had no turn yet are loading.
ResumeRound(c, a, k) == ResumeNext(a, k)

ResumeKept(c, done, a) ==
    /\ Sound(c, {}, a.s)
    /\ \A k \in c.turn \ done : a.s.records[k].phase = "Loading"

ResumeFold == INSTANCE FoldInduction
    WITH Step <- ResumeRound, Choice <- LeastUrgent, Holds <- ResumeKept

LEMMA ResumeStep ==
    ASSUME NEW c, c.turn \subseteq Keys, NEW done, NEW a, ResumeKept(c, done, a),
           NEW k \in c.turn, k \notin done
    PROVE  ResumeKept(c, done \cup {k}, ResumeRound(c, a, k))
<1>1. /\ k \in Keys /\ a.s.records[k].phase = "Loading" /\ Sound(c, {}, a.s)
      /\ \A j \in c.turn \ (done \cup {k}) : j \in Keys \ {k} /\ a.s.records[j].phase = "Loading"
  BY DEF ResumeKept
<1>2. CASE a.status = "Backpressure"
  BY <1>1, <1>2 DEF ResumeKept, ResumeRound, ResumeNext
<1>3. CASE a.status # "Backpressure"
  <2>1. Sound(c, {}, Resolve(a.s, k).s) /\ OnlyRecord(k, a.s, Resolve(a.s, k).s)
    BY <1>1, ResolveSound
  <2>2. ResumeRound(c, a, k) = Resolve(a.s, k)
    BY <1>3 DEF ResumeRound, ResumeNext
  <2>. QED  BY <1>1, <2>1, <2>2 DEF ResumeKept, OnlyRecord
<1>. QED  BY <1>2, <1>3

\* The order of resumption is total.
LEMMA LeastUrgentElement ==
    ASSUME NEW S \in SUBSET Keys, S # {}, \A k \in S : records[k].priority \in Nat
    PROVE  LeastUrgent(S) \in S
<1> DEFINE P == {records[k].priority : k \in S}
           low == Min(P)
           T == {k \in S : records[k].priority = low}
           last == Max(T)
<1>1. low \in P /\ \A p \in P : low <= p
  <2>1. P \subseteq Nat /\ P # {}
    OBVIOUS
  <2>. QED  BY <2>1, MinElement
<1>. HIDE DEF low
<1>2. T # {} /\ T \subseteq Keys /\ T \subseteq Nat /\ IsFiniteSet(T)
  BY <1>1, KeySets, LoadingAssumption, StorageAssumption
<1>3. last \in T /\ \A k \in T : k <= last
  BY <1>2, MaxElement
<1>. HIDE DEF last
<1>4. ASSUME NEW other \in S \ {last} PROVE Sooner(other, last)
  <2>1. low <= records[other].priority /\ low \in Nat /\ records[last].priority = low
        /\ records[other].priority \in Nat
    BY <1>1, <1>3
  <2>2. CASE records[other].priority = low
    BY <1>2, <1>3, <2>1, <2>2 DEF Sooner
  <2>3. CASE records[other].priority # low
    BY <2>1, <2>3 DEF Sooner
  <2>. QED  BY <2>2, <2>3
<1>. QED  BY <1>3, <1>4 DEF LeastUrgent

LEMMA ResumedSound ==
    ASSUME NEW c, Sound(c, {}, Now)
    PROVE  Sound(c, {}, Resumed)
<1> DEFINE d == [table |-> c.table, bound |-> c.bound, threads |-> c.threads,
                 turn |-> Soonest]
           first == [s |-> Now, status |-> "Ok"]
<1>1. d.turn = Soonest /\ \A t : Sound(d, {}, t) <=> Sound(c, {}, t)
  BY DEF Sound
<1>2. Resumed = ResumeFold!Fold(d, first, Soonest).s
  BY DEF Resumed, ResumeFold!Fold, MapThenFoldSet, ResumeFold!MapThenFoldSet, ResumeRound
<1>3. Soonest \subseteq Keys /\ \A k \in Soonest : records[k].phase = "Loading"
  BY DEF Soonest, Loading
<1>4. first.s = Now /\ Now.records = records
  BY DEF Now
<1>5. ResumeKept(d, {}, first)
  BY <1>1, <1>3, <1>4 DEF ResumeKept
<1>. HIDE DEF d, first
<1>6. \A k \in Soonest : records[k].priority \in Nat
  <2>1. TAKE k \in Soonest
  <2>2. k \in Keys /\ Now.records[k].priority \in Priorities
    BY <1>3, <1>4, RecordFields
  <2>. QED  BY <1>4, <2>2, StorageAssumption
<1>7. ResumeFold!IsFiniteSet(Soonest)
  BY <1>3, KeySets DEF ResumeFold!IsFiniteSet, IsFiniteSet
<1>8. \A s \in SUBSET Soonest : s # {} => LeastUrgent(s) \in s
  BY <1>3, <1>6, LeastUrgentElement
<1>9. \A done \in SUBSET Soonest, k \in Soonest : \A a :
          k \notin done /\ ResumeKept(d, done, a)
             => ResumeKept(d, done \cup {k}, ResumeRound(d, a, k))
  BY <1>1, <1>3, ResumeStep
<1>10. ResumeKept(d, Soonest, ResumeFold!Fold(d, first, Soonest))
  BY <1>5, <1>7, <1>8, <1>9, ResumeFold!FoldHolds
<1>. QED  BY <1>1, <1>2, <1>10 DEF ResumeKept

\* flush_scheduler_results
FlushRound(c, s, k) == Submit(s, k)

FlushKept(c, done, s) == Sound(c, {}, s)

FlushFold == INSTANCE FoldInduction
    WITH Step <- FlushRound, Choice <- Max, Holds <- FlushKept

LEMMA FlushedSound ==
    ASSUME NEW c, Sound(c, {}, Now)
    PROVE  Sound(c, {}, Flushed)
<1>1. Flushed = FlushFold!Fold(c, Now, Keys)
  BY DEF Flushed, Upwards, FlushFold!Fold, MapThenFoldSet, FlushFold!MapThenFoldSet, FlushRound
<1>2. FlushFold!IsFiniteSet(Keys)
  BY KeySets DEF FlushFold!IsFiniteSet, IsFiniteSet
<1>3. \A s \in SUBSET Keys : s # {} => Max(s) \in s
  BY KeySets
<1>4. FlushKept(c, {}, Now)
  BY DEF FlushKept
<1>5. \A done \in SUBSET Keys, k \in Keys : \A a :
          k \notin done /\ FlushKept(c, done, a)
             => FlushKept(c, done \cup {k}, FlushRound(c, a, k))
  BY SubmitSound DEF FlushKept, FlushRound
<1>6. FlushKept(c, Keys, FlushFold!Fold(c, Now, Keys))
  BY <1>2, <1>3, <1>4, <1>5, FlushFold!FoldHolds
<1>. QED  BY <1>1, <1>6 DEF FlushKept

\* forget_chunk
ForgetRound(c, left, i) ==
    IF c.queue[i].key = c.key THEN left ELSE Append(left, c.queue[i])

ForgetKept(c, done, left) ==
    left \in Seq(Result) /\ \E place : Picks(place, left, c.queue, done)

ForgetFold == INSTANCE FoldInduction
    WITH Step <- ForgetRound, Choice <- Max, Holds <- ForgetKept

LEMMA ForgetStep ==
    ASSUME NEW c, c.queue \in Seq(Result), NEW at \in 1..Len(c.queue),
           NEW done, at \notin done, NEW left, ForgetKept(c, done, left)
    PROVE  ForgetKept(c, done \cup {at}, ForgetRound(c, left, at))
<1>1. left \in Seq(Result)
  BY DEF ForgetKept
<1>2. PICK place : Picks(place, left, c.queue, done)
  BY DEF ForgetKept
<1>3. CASE ForgetRound(c, left, at) = left
  <2>1. Picks(place, left, c.queue, done \cup {at})
    BY <1>2 DEF Picks
  <2>. QED  BY <1>1, <1>3, <2>1 DEF ForgetKept
<1>4. CASE ForgetRound(c, left, at) # left
  <2> DEFINE new == Append(left, c.queue[at])
             spot == [i \in 1..Len(new) |-> IF i \in 1..Len(left) THEN place[i] ELSE at]
  <2>1. ForgetRound(c, left, at) = new
    BY <1>4 DEF ForgetRound
  <2>2. /\ new \in Seq(Result) /\ Len(new) = Len(left) + 1 /\ Len(left) \in Nat
        /\ new[Len(left) + 1] = c.queue[at]
        /\ \A i \in 1..Len(left) : new[i] = left[i]
    BY <1>1, AppendElements
  <2>. HIDE DEF new
  <2>3. \A i \in 1..Len(new) : i \in 1..Len(left) \/ (i \notin 1..Len(left) /\ i = Len(left) + 1)
    BY <2>2
  <2>4. spot \in [1..Len(new) -> done \cup {at}]
    BY <1>2 DEF Picks
  <2>5. \A i \in 1..Len(new) : new[i] = c.queue[spot[i]]
    BY <1>2, <2>2, <2>3 DEF Picks
  <2>6. \A i, j \in 1..Len(new) : spot[i] = spot[j] => i = j
    BY <1>2, <2>3 DEF Picks
  <2>7. Picks(spot, new, c.queue, done \cup {at})
    BY <2>4, <2>5, <2>6 DEF Picks
  <2>. QED  BY <2>1, <2>2, <2>7 DEF ForgetKept
<1>. QED  BY <1>3, <1>4

LEMMA ForgottenPlaces ==
    ASSUME NEW queue \in Seq(Result), NEW key
    PROVE  /\ Forgotten(queue, key) \in Seq(Result)
           /\ \E place : Picks(place, Forgotten(queue, key), queue, 1..Len(queue))
<1> DEFINE c == [queue |-> queue, key |-> key]
           S == 1..Len(queue)
           left == Forgotten(queue, key)
<1>1. DOMAIN queue = S /\ Len(queue) \in Nat
  OBVIOUS
<1>2. left = ForgetFold!Fold(c, <<>>, S)
  BY <1>1 DEF Forgotten, FoldLeft, ForgetFold!Fold, MapThenFoldSet,
              ForgetFold!MapThenFoldSet, ForgetRound
<1>3. c.queue = queue /\ ForgetKept(c, {}, <<>>)
  <2>1. \A i : i \notin 1..Len(<<>>)
    OBVIOUS
  <2>2. Picks([i \in 1..Len(<<>>) |-> 0], <<>>, queue, {})
    BY <2>1 DEF Picks
  <2>. QED  BY <2>2 DEF ForgetKept
<1>. HIDE DEF c, left
<1>4. IsFiniteSet(S) /\ S \subseteq Nat
  BY <1>1, FS_Interval
<1>5. \A t \in SUBSET S : t # {} => Max(t) \in t
  BY <1>4, FS_Subset, MaxElement
<1>6. ForgetFold!IsFiniteSet(S)
  BY <1>4 DEF ForgetFold!IsFiniteSet, IsFiniteSet
<1>7. \A done \in SUBSET S, x \in S : \A a :
          x \notin done /\ ForgetKept(c, done, a)
             => ForgetKept(c, done \cup {x}, ForgetRound(c, a, x))
  BY <1>3, ForgetStep
<1>8. ForgetKept(c, S, left)
  BY <1>2, <1>3, <1>5, <1>6, <1>7, ForgetFold!FoldHolds
<1>. QED  BY <1>3, <1>8 DEF ForgetKept, left

-----------------------------------------------------------------------------
(* The steps of the runtime.                                               *)

\* What a step of the running world has to show.
Settles ==
    /\ Open(storage', workers) /\ workers' = workers
    /\ events' \in 0..MaxEvents /\ warm' \subseteq Pages
    /\ Running' =>
          /\ DOMAIN chunks' = Keys /\ \A k \in Keys : ChunkOK(chunks'[k], events')
          /\ Answers(chunks', events', records', results')
          /\ Owed(storage', records', {})

LEMMA SettledInv ==
    ASSUME LoadingInv, Running, Settles
    PROVE  LoadingInv'
<1>1. ThreadsType(workers)
  BY DEF LoadingInv, IInv, StorageType, ThreadsType
<1>2. IInv' /\ storage'.phase = "open"
  BY <1>1 DEF Settles, Open, ServiceType, ThreadsType, IInv, StorageType, PlaceInv
<1>. QED  BY <1>2 DEF Settles, LoadingInv

LEMMA RunningFacts ==
    ASSUME LoadingInv, Running
    PROVE  /\ Open(storage, workers) /\ Owed(storage, records, {})
           /\ events \in 0..MaxEvents /\ events \in Nat /\ MaxEvents \in Nat
           /\ warm \subseteq Pages
           /\ DOMAIN chunks = Keys /\ \A k \in Keys : ChunkOK(chunks[k], events)
           /\ Answers(chunks, events, records, results)
           /\ DOMAIN records = Keys /\ \A k \in Keys : RecordOK(records[k], events)
           /\ \A k \in Keys : records[k].phase # "None" =>
                 records[k].generation \in 1..events /\ records[k].priority \in Priorities
           /\ \A k \in Keys : /\ chunks[k] \in Chunk /\ chunks[k].generation \in 0..events
                              /\ DOMAIN chunks[k] = {"generation", "lifecycle", "priority", "job"}
           /\ results \in Seq(Result)
<1>1. storage.phase = "open" /\ Open(storage, workers)
  BY OpenService DEF LoadingInv
<1>2. /\ Answers(chunks, events, records, results) /\ events \in 0..MaxEvents
      /\ events \in Nat /\ MaxEvents \in Nat
  BY LoadingAssumption DEF LoadingInv
<1>3. /\ DOMAIN records = Keys /\ \A k \in Keys : RecordOK(records[k], events)
      /\ results \in Seq(Result)
  BY <1>2 DEF Answers
<1>4. \A k \in Keys : ChunkOK(chunks[k], events)
  BY DEF LoadingInv
<1>5. \A k \in Keys : /\ chunks[k] \in Chunk /\ chunks[k].generation \in 0..events
                      /\ DOMAIN chunks[k] = {"generation", "lifecycle", "priority", "job"}
  BY <1>4 DEF ChunkOK, Chunk
<1>6. \A k \in Keys : records[k].phase # "None" =>
          records[k].generation \in 1..events /\ records[k].priority \in Priorities
  BY <1>3 DEF RecordOK
<1>. QED  BY <1>1, <1>2, <1>3, <1>4, <1>5, <1>6 DEF LoadingInv

LEMMA NowSound ==
    ASSUME LoadingInv, Running,
           NEW c, c.table = chunks, c.bound = events, c.threads = workers
    PROVE  Sound(c, {}, Now)
BY RunningFacts DEF Sound, Now

\* The release of a record now.
LEMMA ReleasedNow ==
    ASSUME LoadingInv, Running, NEW k \in Keys
    PROVE  /\ DOMAIN Released(Now, k) = {"records", "storage", "cache", "results"}
           /\ Released(Now, k).records = [records EXCEPT ![k] = NoRecord]
           /\ Released(Now, k).results = results
           /\ Open(Released(Now, k).storage, workers)
           /\ Owed(Released(Now, k).storage, Released(Now, k).records, {})
<1>1. /\ Now.records = records /\ Now.storage = storage /\ Now.results = results
      /\ DOMAIN Now = {"records", "storage", "cache", "results"}
  BY DEF Now
<1>2. Open(storage, workers) /\ Owed(storage, records, {}) /\ DOMAIN records = Keys
  BY RunningFacts
<1>. QED  BY <1>1, <1>2, ReleasedKept

LEMMA RequestChunkInv ==
    ASSUME LoadingInv, NEW k \in Keys, NEW priority \in Priorities, NEW edit \in BOOLEAN,
           RequestChunk(k, priority, edit)
    PROVE  LoadingInv'
<1> DEFINE chunk == [generation |-> events + 1, lifecycle |-> "Sampling",
                     priority |-> priority, job |-> "Sample"]
<1>1. /\ Running /\ events < MaxEvents /\ events' = events + 1
      /\ chunks' = [chunks EXCEPT ![k] = chunk]
      /\ workers' = workers /\ warm' = warm
  BY DEF RequestChunk, Event
<1>2. /\ events \in Nat /\ MaxEvents \in Nat /\ events' \in Nat /\ events <= events'
      /\ events' \in 0..MaxEvents
  BY <1>1, RunningFacts
<1>3. chunk \in Chunk
  BY <1>1, <1>2 DEF Chunk
<1>4. ChunkOK(chunk, events') /\ chunk.generation = events + 1 /\ chunk.job = "Sample"
  BY <1>1, <1>2, <1>3 DEF ChunkOK
<1>. HIDE DEF chunk
<1>5. /\ DOMAIN chunks' = Keys /\ chunks'[k] = chunk
      /\ \A j \in Keys \ {k} : chunks'[j] = chunks[j]
  BY <1>1, RunningFacts
<1>6. \A j \in Keys : ChunkOK(chunks'[j], events')
  BY <1>1, <1>2, <1>4, <1>5, RunningFacts DEF ChunkOK
<1>7. /\ records' \in {records, [records EXCEPT ![k] = NoRecord]} /\ results' = results
      /\ Open(storage', workers) /\ Owed(storage', records', {})
  <2>1. \/ Becomes(Released(Now, k))
        \/ Becomes(Now)
    BY DEF RequestChunk
  <2>2. CASE Becomes(Released(Now, k))
    BY <1>1, <2>2, ReleasedNow DEF Becomes
  <2>3. CASE Becomes(Now)
    BY <1>1, <2>3, RunningFacts DEF Becomes, Now
  <2>. QED  BY <2>1, <2>2, <2>3
<1>8. /\ DOMAIN records' = Keys /\ records'[k] \in {records[k], NoRecord}
      /\ \A j \in Keys \ {k} : records'[j] = records[j]
  BY <1>1, <1>7, RunningFacts
<1>9. RecordOK(records'[k], events')
  BY <1>1, <1>2, <1>8, NoRecordOK, RunningFacts DEF RecordOK
<1>10. records'[k].phase \in Unanswered => records'[k].generation # chunk.generation
  BY <1>1, <1>2, <1>4, <1>8, NoRecordOK, RunningFacts DEF Unanswered
<1>11. \A i \in 1..Len(results) : results[i].key = k => ~Current(chunks', results[i])
  <2>1. TAKE i \in 1..Len(results)
  <2>2. HAVE results[i].key = k
  <2>3. results[i].generation \in Nat /\ results[i].generation <= events
    BY ResultFields, <1>1, RunningFacts DEF Answers
  <2>. QED  BY <1>2, <1>4, <1>5, <2>2, <2>3 DEF Current
<1>12. Answers(chunks, events, records, results)
  BY <1>1, RunningFacts
<1>13. Answers(chunks', events', records', results)
  BY <1>2, <1>4, <1>5, <1>8, <1>9, <1>10, <1>11, <1>12, AnswersReplaced
<1>. QED  BY <1>1, <1>2, <1>5, <1>6, <1>7, <1>13, SettledInv, RunningFacts DEF Settles

LEMMA RefreshInv ==
    ASSUME LoadingInv, NEW k \in Keys, NEW priority \in Priorities,
           RefreshSameGeneration(k, priority)
    PROVE  LoadingInv'
<1> DEFINE chunk == [chunks[k] EXCEPT !.lifecycle = "Sampling", !.job = "Sample",
                                      !.priority = priority]
<1>1. /\ Running /\ events < MaxEvents /\ events' = events + 1
      /\ chunks[k].lifecycle = "Ready"
      /\ chunks' = [chunks EXCEPT ![k].lifecycle = "Sampling", ![k].job = "Sample",
                                  ![k].priority = priority]
      /\ workers' = workers /\ warm' = warm /\ Becomes(Released(Now, k))
  BY DEF RefreshSameGeneration, Event
<1>2. /\ events \in Nat /\ MaxEvents \in Nat /\ events' \in Nat /\ events <= events'
      /\ events' \in 0..MaxEvents
  BY <1>1, RunningFacts
<1>3. chunks[k] \in Chunk /\ ChunkOK(chunks[k], events)
  BY <1>1, RunningFacts
<1>4. /\ DOMAIN chunks' = Keys /\ chunks'[k] = chunk
      /\ \A j \in Keys \ {k} : chunks'[j] = chunks[j]
  BY <1>1, <1>3, RunningFacts DEF Chunk
<1>5. /\ chunk \in Chunk /\ chunk.generation = chunks[k].generation
      /\ chunk.lifecycle = "Sampling" /\ chunk.priority = priority /\ chunk.job = "Sample"
  BY <1>3 DEF Chunk
<1>. HIDE DEF chunk
<1>6. ChunkOK(chunk, events')
  BY <1>1, <1>2, <1>3, <1>5 DEF ChunkOK
<1>7. \A j \in Keys : ChunkOK(chunks'[j], events')
  BY <1>1, <1>2, <1>4, <1>6, RunningFacts DEF ChunkOK
<1>8. /\ records' = [records EXCEPT ![k] = NoRecord] /\ results' = results
      /\ Open(storage', workers) /\ Owed(storage', records', {})
  BY <1>1, ReleasedNow DEF Becomes
<1>9. /\ DOMAIN records' = Keys /\ records'[k] = NoRecord
      /\ \A j \in Keys \ {k} : records'[j] = records[j]
  BY <1>1, <1>8, RunningFacts
<1>10. RecordOK(records'[k], events') /\ records'[k].phase \notin Unanswered
  BY <1>2, <1>9, NoRecordOK DEF Unanswered
<1>11. Answers(chunks, events, records, results)
  BY <1>1, RunningFacts
<1>12. \A i \in 1..Len(results) : results[i].key = k => ~Current(chunks', results[i])
  BY <1>1, <1>4, <1>5, <1>11 DEF Current, Answers
<1>13. Answers(chunks', events', records', results)
  BY <1>2, <1>4, <1>5, <1>9, <1>10, <1>11, <1>12, AnswersReplaced
<1>. QED  BY <1>1, <1>2, <1>4, <1>7, <1>8, <1>13, SettledInv, RunningFacts DEF Settles

LEMMA RemoveChunkInv ==
    ASSUME LoadingInv, NEW k \in Keys, RemoveChunk(k)
    PROVE  LoadingInv'
<1>1. /\ Running /\ events < MaxEvents /\ events' = events + 1
      /\ chunks' = [chunks EXCEPT ![k] = NoChunk]
      /\ workers' = workers /\ warm' = warm
  BY DEF RemoveChunk, Event
<1>2. /\ events \in Nat /\ MaxEvents \in Nat /\ events' \in Nat /\ events <= events'
      /\ events' \in 0..MaxEvents
  BY <1>1, RunningFacts
<1>3. /\ DOMAIN chunks' = Keys /\ chunks'[k] = NoChunk
      /\ \A j \in Keys \ {k} : chunks'[j] = chunks[j]
  BY <1>1, RunningFacts
<1>4. /\ ChunkOK(NoChunk, events') /\ NoChunk.generation = 0 /\ NoChunk.job = "None"
  BY <1>2 DEF ChunkOK, NoChunk, Chunk
<1>5. \A j \in Keys : ChunkOK(chunks'[j], events')
  BY <1>1, <1>2, <1>3, <1>4, RunningFacts DEF ChunkOK
<1>6. /\ records' = [records EXCEPT ![k] = NoRecord] /\ results' = Forgotten(results, k)
      /\ Open(storage', workers) /\ Owed(storage', records', {})
  BY <1>1, ReleasedNow DEF RemoveChunk, Becomes
<1>7. /\ DOMAIN records' = Keys /\ records'[k] = NoRecord
      /\ \A j \in Keys \ {k} : records'[j] = records[j]
  BY <1>1, <1>6, RunningFacts
<1>8. RecordOK(records'[k], events') /\ records'[k].phase \notin Unanswered
  BY <1>2, <1>7, NoRecordOK DEF Unanswered
<1>9. Answers(chunks, events, records, results) /\ results \in Seq(Result)
  BY <1>1, RunningFacts
<1>10. /\ results' \in Seq(Result)
       /\ \E place : Picks(place, results', results, 1..Len(results))
  BY <1>6, <1>9, ForgottenPlaces
<1>11. Answers(chunks, events, records, results')
  BY <1>2, <1>9, <1>10, AnswersFewer
<1>12. \A i \in 1..Len(results') : results'[i].key = k => ~Current(chunks', results'[i])
  <2>1. TAKE i \in 1..Len(results')
  <2>2. results'[i].generation \in Nat \ {0}
    BY <1>10, ResultFields
  <2>. QED  BY <1>3, <1>4, <2>2 DEF Current
<1>13. chunks'[k].job # "Mesh"
  BY <1>3, <1>4
<1>14. Answers(chunks', events', records', results')
  BY <1>2, <1>3, <1>7, <1>8, <1>11, <1>12, <1>13, AnswersReplaced
<1>. QED  BY <1>1, <1>2, <1>3, <1>5, <1>6, <1>14, SettledInv, RunningFacts DEF Settles

\* New priorities for the chunks and their records.
LEMMA PrioritizedKept ==
    ASSUME LoadingInv, Running, NEW update, Prioritized(update),
           \A k \in Keys : /\ chunks[k].lifecycle = "Absent" => update[k] = chunks[k].priority
                           /\ chunks[k].lifecycle # "Absent" => update[k] \in Priorities,
           NEW later \in Nat, events <= later
    PROVE  /\ DOMAIN chunks' = Keys /\ \A k \in Keys : ChunkOK(chunks'[k], later)
           /\ Answers(chunks', later, records', results)
           /\ \A st : Owed(st, records, {}) => Owed(st, records', {})
<1>1. /\ DOMAIN chunks' = Keys /\ DOMAIN records' = Keys
      /\ \A k \in Keys : chunks'[k] = [chunks[k] EXCEPT !.priority = update[k]]
      /\ \A k \in Keys : records'[k] =
            IF records[k].phase # "None" /\ records[k].generation = chunks[k].generation
            THEN [records[k] EXCEPT !.priority = update[k]] ELSE records[k]
  BY DEF Prioritized
<1>2. /\ events \in Nat /\ Answers(chunks, events, records, results)
      /\ \A k \in Keys : ChunkOK(chunks[k], events)
      /\ \A k \in Keys : RecordOK(records[k], events)
  BY RunningFacts
<1>3. ASSUME NEW k \in Keys
      PROVE  /\ ChunkOK(chunks'[k], later)
             /\ chunks'[k].generation = chunks[k].generation
             /\ chunks'[k].lifecycle = chunks[k].lifecycle /\ chunks'[k].job = chunks[k].job
  <2> DEFINE old == chunks[k]
             new == [old EXCEPT !.priority = update[k]]
  <2>1. old \in Chunk /\ ChunkOK(old, events) /\ chunks'[k] = new
    BY <1>1, <1>2 DEF ChunkOK
  <2>2. CASE update[k] \in Priorities /\ old.lifecycle # "Absent"
    <3>1. /\ new \in Chunk /\ new.generation = old.generation /\ new.priority = update[k]
          /\ new.lifecycle = old.lifecycle /\ new.job = old.job
      BY <2>1, <2>2 DEF Chunk
    <3>. QED  BY <1>2, <2>1, <2>2, <3>1 DEF ChunkOK
  <2>3. CASE old.lifecycle = "Absent" /\ update[k] = old.priority
    <3>1. new = old
      BY <2>1, <2>3 DEF Chunk
    <3>. QED  BY <1>2, <2>1, <3>1 DEF ChunkOK
  <2>. QED  BY <2>2, <2>3
<1>4. ASSUME NEW k \in Keys
      PROVE  /\ RecordOK(records'[k], later)
             /\ records'[k].phase = records[k].phase
             /\ records'[k].generation = records[k].generation
             /\ \A p : Waits(records'[k], p) <=> Waits(records[k], p)
  <2> DEFINE old == records[k]
             new == [old EXCEPT !.priority = update[k]]
  <2>1. old \in Record /\ RecordOK(old, events)
    BY <1>2 DEF RecordOK
  <2>2. CASE old.phase # "None" /\ old.generation = chunks[k].generation
    <3>1. chunks[k].lifecycle # "Absent"
      <4>1. old.generation > 0
        BY <1>2, <2>1, <2>2 DEF RecordOK
      <4>. QED  BY <1>2, <2>2, <4>1 DEF ChunkOK, NoChunk
    <3>2. update[k] \in Priorities /\ records'[k] = new
      BY <1>1, <2>2, <3>1
    <3>3. /\ new \in Record /\ new.generation = old.generation /\ new.phase = old.phase
          /\ new.pages = old.pages /\ new.pinned = old.pinned /\ new.asked = old.asked
          /\ new.priority = update[k]
      BY <2>1, <3>2 DEF Record
    <3>. QED  BY <1>2, <2>1, <3>2, <3>3 DEF RecordOK, Waits
  <2>3. CASE ~(old.phase # "None" /\ old.generation = chunks[k].generation)
    <3>1. records'[k] = old
      BY <1>1, <2>3
    <3>. QED  BY <1>2, <2>1, <3>1 DEF RecordOK
  <2>. QED  BY <2>2, <2>3
<1>5. Answers(chunks', later, records', results)
  BY <1>1, <1>2, <1>3, <1>4, AnswersSame
<1>6. \A st : Owed(st, records, {}) => Owed(st, records', {})
  BY <1>4 DEF Owed
<1>. QED  BY <1>1, <1>3, <1>5, <1>6

LEMMA ReprioritizeInv ==
    ASSUME LoadingInv, NEW k \in Keys, NEW priority \in Priorities, Reprioritize(k, priority)
    PROVE  LoadingInv'
<1> DEFINE update == [c \in Keys |-> IF c = k THEN priority ELSE chunks[c].priority]
<1>1. /\ Running /\ events < MaxEvents /\ events' = events + 1 /\ Prioritized(update)
      /\ workers' = workers /\ warm' = warm /\ storage' = storage /\ results' = results
  BY DEF Reprioritize, Event
<1>2. \A c \in Keys : /\ chunks[c].lifecycle = "Absent" => update[c] = chunks[c].priority
                      /\ chunks[c].lifecycle # "Absent" => update[c] \in Priorities
  BY <1>1, RunningFacts DEF ChunkOK, Reprioritize
<1>. HIDE DEF update
<1>3. /\ events \in Nat /\ MaxEvents \in Nat /\ events' \in Nat /\ events <= events'
      /\ events' \in 0..MaxEvents
  BY <1>1, RunningFacts
<1>4. /\ DOMAIN chunks' = Keys /\ \A c \in Keys : ChunkOK(chunks'[c], events')
      /\ Answers(chunks', events', records', results)
      /\ \A st : Owed(st, records, {}) => Owed(st, records', {})
  BY <1>1, <1>2, <1>3, PrioritizedKept
<1>. QED  BY <1>1, <1>3, <1>4, SettledInv, RunningFacts DEF Settles

LEMMA WarmFocusInv ==
    ASSUME LoadingInv, NEW leased \in Leases, WarmFocus(leased)
    PROVE  LoadingInv'
<1> DEFINE shell == (UNION {Neighbours[p] \cup {p} : p \in leased}) \cap Stored
           gone == warm \ shell
           left == Upwards(LAMBDA s, page : CancelQueued(s, page, "InteractionWarm"),
                           storage, gone)
           first == [storage |-> left, cache |-> cache, warm |-> {}]
           warmed == Upwards(WarmPage, first, shell)
           update == [k \in Keys |->
                        IF chunks[k].lifecycle = "Absent" THEN chunks[k].priority
                        ELSE IF k \in leased THEN FocusPriority
                        ELSE IF k \in focus THEN FocusPriority - 1
                        ELSE chunks[k].priority]
           c == [threads |-> workers, records |-> records]
<1>1. /\ Running /\ events < MaxEvents /\ events' = events + 1 /\ Prioritized(update)
      /\ workers' = workers /\ warm' = warmed.warm /\ storage' = warmed.storage
      /\ results' = results
  BY DEF WarmFocus, Event
<1>2. \A k \in Keys : /\ chunks[k].lifecycle = "Absent" => update[k] = chunks[k].priority
                      /\ chunks[k].lifecycle # "Absent" => update[k] \in Priorities
  BY <1>1, RunningFacts, LoadingAssumption, StorageAssumption DEF ChunkOK
<1>3. shell \in SUBSET Pages /\ gone \in SUBSET Pages
  <2>1. shell \subseteq Stored
    OBVIOUS
  <2>2. warm \subseteq Pages
    BY <1>1, RunningFacts
  <2>. HIDE DEF shell
  <2>. QED  BY <2>1, <2>2, StorageAssumption
<1>4. LeaveKept(c, {}, storage) /\ c.threads = workers /\ c.records = records
  BY <1>1, RunningFacts DEF LeaveKept
<1>. HIDE DEF c, shell, gone, update
<1>5. LeaveKept(c, {}, left)
  BY <1>3, <1>4, LeftKept
<1>6. WarmKept(c, {}, first)
  <2>1. first.storage = left /\ first.warm = {} /\ DOMAIN first = {"storage", "cache", "warm"}
    OBVIOUS
  <2>. HIDE DEF first, left
  <2>. QED  BY <1>5, <2>1 DEF WarmKept
<1>. HIDE DEF left, first
<1>7. WarmKept(c, {}, warmed)
  BY <1>3, <1>6, WarmedKept
<1>. HIDE DEF warmed
<1>8. /\ Open(storage', workers) /\ Owed(storage', records, {}) /\ warm' \subseteq Pages
  BY <1>1, <1>4, <1>7 DEF WarmKept, LeaveKept
<1>9. /\ events \in Nat /\ MaxEvents \in Nat /\ events' \in Nat /\ events <= events'
      /\ events' \in 0..MaxEvents
  BY <1>1, RunningFacts
<1>10. /\ DOMAIN chunks' = Keys /\ \A k \in Keys : ChunkOK(chunks'[k], events')
       /\ Answers(chunks', events', records', results)
       /\ \A st : Owed(st, records, {}) => Owed(st, records', {})
  BY <1>1, <1>2, <1>9, PrioritizedKept
<1>. QED  BY <1>1, <1>8, <1>9, <1>10, SettledInv DEF Settles

\* A job is taken from its chunk.
LEMMA JobTaken ==
    ASSUME LoadingInv, Running, NEW k \in Keys,
           chunks' = [chunks EXCEPT ![k].job = "None"]
    PROVE  /\ DOMAIN chunks' = Keys /\ \A j \in Keys : ChunkOK(chunks'[j], events)
           /\ \A j \in Keys \ {k} : chunks'[j] = chunks[j]
           /\ chunks'[k].job = "None" /\ chunks'[k].generation = chunks[k].generation
           /\ chunks'[k].lifecycle = chunks[k].lifecycle
<1> DEFINE new == [chunks[k] EXCEPT !.job = "None"]
<1>1. /\ DOMAIN chunks = Keys /\ \A j \in Keys : ChunkOK(chunks[j], events)
      /\ chunks[k] \in Chunk
  BY RunningFacts
<1>2. /\ DOMAIN chunks' = Keys /\ chunks'[k] = new
      /\ \A j \in Keys \ {k} : chunks'[j] = chunks[j]
  BY <1>1
<1>3. /\ new \in Chunk /\ new.job = "None" /\ new.generation = chunks[k].generation
      /\ new.lifecycle = chunks[k].lifecycle /\ new.priority = chunks[k].priority
  BY <1>1 DEF Chunk
<1>4. chunks[k] = NoChunk => new = NoChunk
  BY DEF NoChunk
<1>. HIDE DEF new
<1>5. ChunkOK(new, events)
  BY <1>1, <1>3, <1>4 DEF ChunkOK
<1>. QED  BY <1>1, <1>2, <1>3, <1>5

LEMMA BeginSampleInv ==
    ASSUME LoadingInv, NEW k \in Keys, NEW pages \in DependencySets[k], BeginSample(k, pages)
    PROVE  LoadingInv'
<1> DEFINE fresh == [NoRecord EXCEPT !.phase = "Loading", !.pages = pages,
                                     !.generation = chunks[k].generation,
                                     !.priority = chunks[k].priority]
           replaced == Released(Now, k)
           began == [replaced EXCEPT !.records[k] = fresh]
           c == [table |-> chunks', bound |-> events, threads |-> workers]
<1>1. /\ Running /\ chunks[k].job = "Sample"
      /\ chunks' = [chunks EXCEPT ![k].job = "None"]
      /\ workers' = workers /\ warm' = warm /\ events' = events
  BY DEF BeginSample
<1>2. /\ DOMAIN chunks' = Keys /\ \A j \in Keys : ChunkOK(chunks'[j], events)
      /\ \A j \in Keys \ {k} : chunks'[j] = chunks[j]
      /\ chunks'[k].job = "None" /\ chunks'[k].generation = chunks[k].generation
      /\ chunks'[k].lifecycle = chunks[k].lifecycle
  BY <1>1, JobTaken
<1>3. CASE records[k].phase # "None" /\ records[k].generation = chunks[k].generation
  <2>1. storage' = storage /\ ~Running'
    BY <1>3 DEF BeginSample, Running
  <2>. QED  BY <1>1, <2>1, SettledInv, RunningFacts DEF Settles
<1>4. CASE ~(records[k].phase # "None" /\ records[k].generation = chunks[k].generation)
  <2>1. Becomes(Resolve(began, k).s)
    BY <1>4 DEF BeginSample
  <2>2. /\ chunks[k].lifecycle = "Sampling" /\ chunks[k].generation \in 1..events
        /\ chunks[k].priority \in Priorities /\ chunks[k].generation \in 0..MaxEvents
    BY <1>1, RunningFacts DEF ChunkOK, Chunk
  <2>3. pages \subseteq Pages
    BY LoadingAssumption
  <2>4. /\ fresh.phase = "Loading" /\ fresh.generation = chunks[k].generation
        /\ fresh.priority = chunks[k].priority /\ fresh.pages = pages
        /\ fresh.asked = [p \in Pages |-> None]
        /\ fresh \in Record
    BY <2>2, <2>3 DEF NoRecord, Record, Phases
  <2>. HIDE DEF fresh
  <2>5. RecordOK(fresh, events) /\ \A p \in Pages : ~Waits(fresh, p)
    BY <2>2, <2>4 DEF RecordOK, Waits
  <2>6. /\ DOMAIN replaced = {"records", "storage", "cache", "results"}
        /\ replaced.records = [records EXCEPT ![k] = NoRecord]
        /\ replaced.results = results
        /\ Open(replaced.storage, workers) /\ Owed(replaced.storage, replaced.records, {})
    BY <1>1, ReleasedNow
  <2>. HIDE DEF replaced
  <2>7. /\ DOMAIN began = {"records", "storage", "cache", "results"}
        /\ began.storage = replaced.storage /\ began.results = results
        /\ DOMAIN began.records = Keys /\ began.records[k] = fresh
        /\ \A j \in Keys \ {k} : began.records[j] = records[j]
        /\ \A j \in Keys \ {k} : began.records[j] = replaced.records[j]
    BY <1>1, <2>6, RunningFacts
  <2>. HIDE DEF began
  <2>8. Owed(began.storage, began.records, {})
    BY <2>5, <2>6, <2>7 DEF Owed
  <2>9. /\ Answers(chunks, events, records, results) /\ events \in Nat
    BY <1>1, RunningFacts
  <2>10. \A i \in 1..Len(results) : results[i].key = k => ~Current(chunks', results[i])
    BY <1>1, <1>2, <2>9 DEF Answers, Current
  <2>11. Answers(chunks', events, began.records, results)
    BY <1>2, <2>2, <2>5, <2>7, <2>9, <2>10, AnswersReplaced
  <2>12. c.table = chunks' /\ c.bound = events /\ c.threads = workers
    OBVIOUS
  <2>. HIDE DEF c
  <2>13. Sound(c, {}, began) /\ began.records[k].phase = "Loading"
    BY <2>4, <2>6, <2>7, <2>8, <2>9, <2>11, <2>12 DEF Sound
  <2>14. Sound(c, {}, Resolve(began, k).s)
    BY <2>13, ResolveSound
  <2>15. /\ Answers(chunks', events, records', results') /\ Open(storage', workers)
         /\ Owed(storage', records', {})
    BY <2>1, <2>12, <2>14 DEF Sound, Becomes
  <2>. QED  BY <1>1, <1>2, <2>15, SettledInv, RunningFacts DEF Settles
<1>. QED  BY <1>3, <1>4

\* A sound state of the runtime is what a step that makes no demand leaves.
LEMMA SoundSettles ==
    ASSUME LoadingInv, Running, NEW c, c.table = chunks, c.bound = events, c.threads = workers,
           NEW s, Sound(c, {}, s),
           records' = s.records, storage' = s.storage, results' = s.results,
           chunks' = chunks, events' = events, workers' = workers, warm' = warm
    PROVE  LoadingInv'
<1>1. /\ Answers(chunks', events', records', results') /\ Open(storage', workers)
      /\ Owed(storage', records', {})
  BY DEF Sound
<1>. QED  BY <1>1, SettledInv, RunningFacts DEF Settles

LEMMA ResumeLoadingInv ==
    ASSUME LoadingInv, ResumeLoading
    PROVE  LoadingInv'
<1> DEFINE c == [table |-> chunks, bound |-> events, threads |-> workers]
<1>1. /\ Running /\ chunks' = chunks /\ events' = events /\ workers' = workers /\ warm' = warm
      /\ records' = Resumed.records /\ storage' = Resumed.storage
      /\ results' = Resumed.results
  BY DEF ResumeLoading, Becomes
<1>2. c.table = chunks /\ c.bound = events /\ c.threads = workers
  OBVIOUS
<1>. HIDE DEF c
<1>3. Sound(c, {}, Resumed)
  BY <1>1, <1>2, NowSound, ResumedSound
<1>. QED  BY <1>1, <1>2, <1>3, SoundSettles

LEMMA FlushResultsInv ==
    ASSUME LoadingInv, FlushResults
    PROVE  LoadingInv'
<1> DEFINE c == [table |-> chunks, bound |-> events, threads |-> workers]
<1>1. /\ Running /\ chunks' = chunks /\ events' = events /\ workers' = workers /\ warm' = warm
      /\ records' = Flushed.records /\ storage' = Flushed.storage
      /\ results' = Flushed.results
  BY DEF FlushResults, Becomes
<1>2. c.table = chunks /\ c.bound = events /\ c.threads = workers
  OBVIOUS
<1>. HIDE DEF c
<1>3. Sound(c, {}, Flushed)
  BY <1>1, <1>2, NowSound, FlushedSound
<1>. QED  BY <1>1, <1>2, <1>3, SoundSettles

LEMMA AcceptCompletionInv ==
    ASSUME LoadingInv, AcceptCompletion
    PROVE  LoadingInv'
<1> DEFINE completion == Head(storage.completed)
           page == completion.page
           popped == [Now EXCEPT !.storage = PopCompletion(@)]
           cached == [popped EXCEPT !.cache = AcceptPage(@, page)]
           fanned == Downwards(LAMBDA s, k : Sampled(Pinned(s, k, page), k), cached, Waiting(page))
           failed == Downwards(SampleFailed, popped, Waiting(page))
           c == [table |-> chunks, bound |-> events, threads |-> workers]
<1>1. /\ Running /\ storage.completed # <<>>
      /\ chunks' = chunks /\ events' = events /\ workers' = workers /\ warm' = warm
  BY DEF AcceptCompletion
<1>2. \/ Becomes(IF page \in focus THEN [fanned EXCEPT !.cache = LookUp(@, page)] ELSE fanned)
      \/ Becomes(failed)
  BY DEF AcceptCompletion
<1>3. c.table = chunks /\ c.bound = events /\ c.threads = workers
  OBVIOUS
<1>4. Sound(c, {}, Now)
  BY <1>1, <1>3, NowSound
<1>5. LET st == PopCompletion(storage)
      IN  /\ Open(st, workers) /\ \A p : Safe(storage, p) /\ p # page => Safe(st, p)
          /\ completion \in Completion
  BY <1>1, PopCall, RunningFacts
<1>6. page \in Pages /\ Waiting(page) \in SUBSET Keys
  BY <1>5 DEF Completion, Waiting
<1>7. \A k \in Waiting(page) : records[k].phase = "Loading"
  BY DEF Waiting, Waits
<1>8. /\ DOMAIN popped = {"records", "storage", "cache", "results"}
      /\ popped.records = records /\ popped.storage = PopCompletion(storage)
      /\ popped.results = results
      /\ DOMAIN cached = {"records", "storage", "cache", "results"}
      /\ cached.records = records /\ cached.storage = PopCompletion(storage)
      /\ cached.results = results
  BY DEF Now
<1>9. Answers(chunks, events, records, results) /\ Owed(storage, records, {}) /\ events \in Nat
  BY <1>1, RunningFacts
<1>. HIDE DEF c, popped, cached, page, completion
<1>10. Owed(PopCompletion(storage), records, Waiting(page) \X {page})
  BY <1>5, <1>9 DEF Owed, Waiting
<1>11. Sound(c, Waiting(page) \X {page}, popped) /\ Sound(c, Waiting(page) \X {page}, cached)
  BY <1>3, <1>5, <1>8, <1>9, <1>10 DEF Sound
<1>12. Sound(c, {}, fanned)
  BY <1>6, <1>7, <1>8, <1>11, AnsweredSound
<1>13. Sound(c, {}, failed)
  BY <1>6, <1>7, <1>8, <1>11, AnsweredSound
<1>. HIDE DEF fanned, failed
<1>14. CASE Becomes(failed)
  BY <1>1, <1>3, <1>13, <1>14, SoundSettles DEF Becomes
<1>15. CASE Becomes(IF page \in focus THEN [fanned EXCEPT !.cache = LookUp(@, page)] ELSE fanned)
  <2>1. records' = fanned.records /\ storage' = fanned.storage /\ results' = fanned.results
    BY <1>12, <1>15 DEF Becomes, Sound
  <2>. QED  BY <1>1, <1>3, <1>12, <2>1, SoundSettles
<1>. QED  BY <1>2, <1>14, <1>15

\* One result leaves the head of the queue.
LEMMA TailAnswers ==
    ASSUME NEW t, NEW n \in Nat, NEW recs, NEW res, Answers(t, n, recs, res), res # <<>>
    PROVE  /\ Answers(t, n, recs, Tail(res)) /\ Tail(res) \in Seq(Result)
           /\ Head(res) = res[1] /\ 1 \in 1..Len(res)
           /\ \A i \in 1..Len(Tail(res)) : i + 1 \in 1..Len(res) /\ Tail(res)[i] = res[i + 1]
<1>1. res \in Seq(Result)
  BY DEF Answers
<1>2. /\ Tail(res) \in Seq(Result) /\ Len(res) \in Nat \ {0} /\ Head(res) = res[1]
      /\ Len(Tail(res)) = Len(res) - 1
      /\ \A i \in 1..Len(res) - 1 : Tail(res)[i] = res[i + 1]
  BY <1>1, HeadTailElements
<1>3. \A i \in 1..Len(Tail(res)) : i + 1 \in 1..Len(res) /\ Tail(res)[i] = res[i + 1]
  BY <1>2
<1>4. 1 \in 1..Len(res)
  BY <1>2
<1> DEFINE left == Tail(res)
           place == [i \in 1..Len(left) |-> i + 1]
<1>. HIDE DEF left
<1>5. Picks(place, left, res, 1..Len(res))
  BY <1>3 DEF Picks, left
<1>6. Answers(t, n, recs, left)
  BY <1>2, <1>5, AnswersFewer DEF left
<1>. QED  BY <1>2, <1>3, <1>4, <1>6 DEF left

LEMMA ApplyResultInv ==
    ASSUME LoadingInv, ApplyResult
    PROVE  LoadingInv'
<1> DEFINE result == Head(results)
           k == result.key
<1>1. /\ Running /\ results # <<>> /\ results' = Tail(results)
      /\ storage' = storage /\ workers' = workers /\ records' = records
      /\ warm' = warm /\ events' = events
  BY DEF ApplyResult
<1>2. /\ Answers(chunks, events, records, results) /\ events \in Nat
      /\ DOMAIN chunks = Keys /\ \A j \in Keys : ChunkOK(chunks[j], events)
  BY <1>1, RunningFacts
<1> DEFINE left == Tail(results)
<1>3. /\ Answers(chunks, events, records, left) /\ left \in Seq(Result)
      /\ result = results[1] /\ 1 \in 1..Len(results)
      /\ \A i \in 1..Len(left) : i + 1 \in 1..Len(results) /\ left[i] = results[i + 1]
  <2>1. Answers(chunks, events, records, results) /\ events \in Nat /\ results # <<>>
    BY <1>1, <1>2
  <2>. QED  BY ONLY <2>1, TailAnswers
<1>4. result \in Result /\ k \in Keys /\ result.ok \in BOOLEAN
  BY <1>2, <1>3, ResultFields DEF Answers
<1>5. CASE chunks' = chunks
  BY <1>1, <1>2, <1>3, <1>5, SettledInv, RunningFacts DEF Settles
<1>6. CASE chunks' # chunks
  <2>1. Current(chunks, result) /\ chunks[k].lifecycle = "Sampling"
    BY <1>6 DEF ApplyResult, Current
  <2>2. /\ chunks[k].job = "None"
        /\ result.ok => records[k].phase = "AwaitingMesh"
                        /\ records[k].generation = chunks[k].generation
        /\ ~result.ok => records[k].generation # chunks[k].generation
    BY <1>2, <1>3, <2>1 DEF Answers, Current
  <2>3. /\ result.ok => chunks' = [chunks EXCEPT ![k].lifecycle = "Meshing", ![k].job = "Mesh"]
        /\ ~result.ok => chunks' = [chunks EXCEPT ![k].lifecycle = "Failed"]
    BY <1>6 DEF ApplyResult
  <2> DEFINE new == IF result.ok
                    THEN [chunks[k] EXCEPT !.lifecycle = "Meshing", !.job = "Mesh"]
                    ELSE [chunks[k] EXCEPT !.lifecycle = "Failed"]
  <2>4. /\ DOMAIN chunks' = Keys /\ chunks'[k] = new
        /\ \A j \in Keys \ {k} : chunks'[j] = chunks[j]
    BY <1>2, <1>4, <2>3
  <2>5. chunks[k] \in Chunk /\ ChunkOK(chunks[k], events)
    BY <1>2, <1>4 DEF ChunkOK
  <2>6. /\ new \in Chunk /\ new.generation = chunks[k].generation
        /\ new.priority = chunks[k].priority
        /\ new.lifecycle = IF result.ok THEN "Meshing" ELSE "Failed"
        /\ new.job = IF result.ok THEN "Mesh" ELSE "None"
    BY <2>2, <2>5 DEF Chunk
  <2>. HIDE DEF new, k, result, left
  <2>7. ChunkOK(new, events)
    BY <2>1, <2>5, <2>6 DEF ChunkOK
  <2>8. \A j \in Keys : ChunkOK(chunks'[j], events)
    BY <1>2, <2>4, <2>7
  <2>9. \A i \in 1..Len(left) : left[i].key = k => ~Current(chunks', left[i])
    <3>1. TAKE i \in 1..Len(left)
    <3>2. HAVE left[i].key = k
    <3>3. i + 1 \in 1..Len(results) /\ left[i] = results[i + 1] /\ i + 1 # 1
      BY <1>3
    <3>4. ~Current(chunks, results[i + 1])
      BY <1>2, <1>3, <2>1, <3>2, <3>3 DEF Answers, k
    <3>. QED  BY <1>3, <2>4, <2>6, <3>2, <3>3, <3>4 DEF Current
  <2>10. /\ records[k].phase \in Unanswered => records[k].generation # chunks'[k].generation
         /\ chunks'[k].job = "Mesh" =>
               /\ chunks'[k].lifecycle = "Meshing" /\ records[k].phase = "AwaitingMesh"
               /\ records[k].generation = chunks'[k].generation
    BY <2>2, <2>4, <2>6 DEF Unanswered
  <2>11. /\ k \in Keys /\ events \in Nat /\ events <= events
         /\ DOMAIN records = Keys /\ RecordOK(records[k], events)
    BY <1>2, <1>4 DEF Answers
  <2>12. Answers(chunks, events, records, left)
    BY <1>3
  <2>13. Answers(chunks', events, records, left)
    BY <2>4, <2>9, <2>10, <2>11, <2>12, AnswersReplaced
  <2>. QED  BY <1>1, <2>4, <2>8, <2>13, SettledInv, RunningFacts DEF Settles, left
<1>. QED  BY <1>5, <1>6

LEMMA MeshJobInv ==
    ASSUME LoadingInv, NEW k \in Keys, MeshJob(k)
    PROVE  LoadingInv'
<1>1. /\ Running /\ chunks[k].job = "Mesh"
      /\ storage' = storage /\ workers' = workers /\ results' = results
      /\ warm' = warm /\ events' = events
  BY DEF MeshJob
<1>2. /\ Answers(chunks, events, records, results) /\ events \in Nat
      /\ DOMAIN chunks = Keys /\ \A j \in Keys : ChunkOK(chunks[j], events)
      /\ DOMAIN records = Keys /\ \A j \in Keys : RecordOK(records[j], events)
  BY <1>1, RunningFacts
<1>3. /\ chunks[k].lifecycle = "Meshing" /\ records[k].phase = "AwaitingMesh"
      /\ records[k].generation = chunks[k].generation
  BY <1>1, <1>2 DEF Answers
<1> DEFINE chunk == [chunks[k] EXCEPT !.job = "None", !.lifecycle = "Ready"]
           record == [records[k] EXCEPT !.phase = "Ready", !.pinned = {}]
<1>4. /\ chunks' = [chunks EXCEPT ![k].job = "None", ![k].lifecycle = "Ready"]
      /\ records' = [records EXCEPT ![k].phase = "Ready", ![k].pinned = {}]
  BY <1>3 DEF MeshJob
<1>5. /\ DOMAIN chunks' = Keys /\ chunks'[k] = chunk
      /\ \A j \in Keys \ {k} : chunks'[j] = chunks[j]
      /\ DOMAIN records' = Keys /\ records'[k] = record
      /\ \A j \in Keys \ {k} : records'[j] = records[j]
  BY <1>2, <1>4
<1>6. /\ chunk \in Chunk /\ chunk.generation = chunks[k].generation
      /\ chunk.lifecycle = "Ready" /\ chunk.job = "None" /\ chunk.priority = chunks[k].priority
  BY <1>2 DEF ChunkOK, Chunk
<1>7. /\ record \in Record /\ record.phase = "Ready" /\ record.priority = records[k].priority
      /\ record.generation = records[k].generation
  BY <1>2 DEF RecordOK, Record, Phases
<1>. HIDE DEF chunk, record
<1>8. ChunkOK(chunk, events)
  BY <1>2, <1>3, <1>6 DEF ChunkOK
<1>9. RecordOK(record, events)
  BY <1>2, <1>3, <1>7 DEF RecordOK
<1>10. \A j \in Keys : ChunkOK(chunks'[j], events)
  BY <1>2, <1>5, <1>8
<1>11. \A i \in 1..Len(results) : results[i].key = k => ~Current(chunks', results[i])
  BY <1>2, <1>3, <1>5, <1>6 DEF Answers, Current
<1>12. chunks'[k].job # "Mesh" /\ records'[k].phase \notin Unanswered
  BY <1>5, <1>6, <1>7 DEF Unanswered
<1>13. Answers(chunks', events, records', results)
  BY <1>2, <1>5, <1>9, <1>11, <1>12, AnswersReplaced
<1>14. \A p \in Pages : ~Waits(records'[k], p)
  BY <1>5, <1>7 DEF Waits
<1>15. Owed(storage, records, {}) => Owed(storage, records', {})
  BY <1>5, <1>14 DEF Owed
<1>. QED  BY <1>1, <1>5, <1>10, <1>13, <1>15, SettledInv, RunningFacts DEF Settles

\* The world ends.
LEMMA StopWorldInv ==
    ASSUME LoadingInv, Stop
    PROVE  LoadingInv'
<1>1. ~Running' /\ storage' = storage /\ workers' = workers /\ events' = events /\ warm' = warm
  BY DEF Stop, Running
<1>2. IInv'
  BY <1>1 DEF LoadingInv, IInv, StorageType, PlaceInv
<1>. QED  BY <1>1, <1>2 DEF LoadingInv

LEMMA CloseWorldInv ==
    ASSUME LoadingInv, Close
    PROVE  LoadingInv'
<1>1. /\ ~Running /\ events' = events /\ warm' = warm /\ world' = world
      /\ BeginClose \/ EndClose
  BY DEF Close, loadingVars
<1>2. IInv'
  BY <1>1, StopInv DEF LoadingInv
<1>. QED  BY <1>1, <1>2 DEF LoadingInv, Running

\* A worker takes a request of the queue, or leaves the queue alone.
LEMMA WorkerInv ==
    ASSUME LoadingInv, NEW w \in Workers, Worker(w)
    PROVE  LoadingInv'
<1>1. /\ chunks' = chunks /\ results' = results /\ records' = records
      /\ world' = world /\ events' = events /\ warm' = warm /\ WorkerStep(w)
  BY DEF Worker, loadingVars
<1>2. IInv /\ IInv'
  BY <1>1, StartInv, FinishInv, DeliverInv, StopInv DEF LoadingInv, WorkerStep
<1>3. ASSUME Running PROVE storage'.phase = "open" /\ Owed(storage', records, {})
  <2>1. storage.phase = "open" /\ Owed(storage, records, {})
    BY <1>3, RunningFacts DEF Open
  <2>2. /\ storage.queue \in Seq(Request)
        /\ DOMAIN storage = {"queue", "active", "completed", "phase"}
    BY <1>2 DEF IInv, StorageType
  <2>3. CASE StartLoad(w)
    <3> DEFINE at == Selected(w)
    <3>1. at \in 1..Len(storage.queue)
      BY <1>2, <2>3, SelectedPlace DEF StartLoad, IInv
    <3>2. /\ storage'.queue = RemoveAt(storage.queue, at)
          /\ storage'.active = storage.active /\ storage'.phase = "open"
      BY <2>1, <2>2, <2>3 DEF StartLoad
    <3>. HIDE DEF at
    <3>3. \A i \in 1..Len(storage'.queue) : \E j \in 1..Len(storage.queue) :
              storage'.queue[i] = storage.queue[j]
      <4>1. \A i \in 1..Len(RemoveAt(storage.queue, at)) : \E j \in 1..Len(storage.queue) :
                /\ RemoveAt(storage.queue, at)[i] = storage.queue[j]
                /\ (j = i /\ i < at) \/ (j = i + 1 /\ j > at)
        BY <2>2, <3>1, RemoveAtPlaces
      <4>. QED  BY <3>2, <4>1
    <3>4. \A p : Safe(storage, p) => Safe(storage', p)
      BY <3>2, <3>3 DEF Safe, Kept
    <3>. QED  BY <2>1, <3>2, <3>4 DEF Owed
  <2>4. CASE FinishLoad(w)
    BY <2>1, <2>4 DEF FinishLoad
  <2>5. CASE Deliver(w)
    <3>1. /\ storage'.queue = storage.queue /\ storage'.active = storage.active
          /\ storage'.phase = "open"
      BY <2>1, <2>2, <2>5 DEF Deliver
    <3>2. \A p : Safe(storage, p) => Safe(storage', p)
      BY <3>1 DEF Safe
    <3>. QED  BY <2>1, <3>1, <3>2 DEF Owed
  <2>6. CASE WorkerExits(w)
    BY <2>1, <2>6 DEF WorkerExits
  <2>. QED  BY <1>1, <2>3, <2>4, <2>5, <2>6 DEF WorkerStep
<1>. QED  BY <1>1, <1>2, <1>3 DEF LoadingInv, Running

-----------------------------------------------------------------------------
(* The theorems about the runtime.                                         *)

LEMMA LoadingInit == Init => LoadingInv
<1> SUFFICES ASSUME Init PROVE LoadingInv
  OBVIOUS
<1>1. IInv /\ storage.phase = "open"
  BY InitInv DEF Init, StorageInit
<1>2. events = 0 /\ events \in 0..MaxEvents /\ 0 \in Nat /\ warm = {}
  BY LoadingAssumption DEF Init
<1>3. /\ DOMAIN chunks = Keys /\ \A k \in Keys : chunks[k] = NoChunk
      /\ DOMAIN records = Keys /\ \A k \in Keys : records[k] = NoRecord
      /\ results = <<>>
  BY DEF Init
<1>4. ChunkOK(NoChunk, 0) /\ NoChunk.job = "None"
  BY LoadingAssumption DEF ChunkOK, NoChunk, Chunk
<1>5. RecordOK(NoRecord, 0) /\ NoRecord.phase = "None"
  BY NoRecordOK
<1>6. Answers(chunks, 0, records, results)
  <2>1. results \in Seq(Result) /\ \A i : i \notin 1..Len(results)
    BY <1>3
  <2>2. \A k \in Keys : /\ RecordOK(records[k], 0) /\ records[k].phase \notin Unanswered
                        /\ chunks[k].job # "Mesh"
    BY <1>3, <1>4, <1>5 DEF Unanswered
  <2>. QED  BY <1>3, <2>1, <2>2 DEF Answers
<1>7. Owed(storage, records, {})
  BY <1>3, <1>5 DEF Owed, Waits
<1>. QED  BY <1>1, <1>2, <1>3, <1>4, <1>6, <1>7 DEF LoadingInv

LEMMA LoadingStep == LoadingInv /\ [Next]_vars => LoadingInv'
<1> SUFFICES ASSUME LoadingInv, [Next]_vars PROVE LoadingInv'
  OBVIOUS
<1>1. CASE Demand
  BY <1>1, RequestChunkInv, RefreshInv, ReprioritizeInv, RemoveChunkInv, WarmFocusInv DEF Demand
<1>2. CASE Stop
  BY <1>2, StopWorldInv
<1>3. CASE RunLoop
  BY <1>3, ApplyResultInv, AcceptCompletionInv, MeshJobInv, BeginSampleInv, FlushResultsInv,
     ResumeLoadingInv DEF RunLoop, BeginSomeSample
<1>4. CASE Close \/ \E w \in Workers : Worker(w)
  BY <1>4, CloseWorldInv, WorkerInv
<1>5. CASE UNCHANGED vars
  <2>1. /\ UNCHANGED <<storage, workers>>
        /\ UNCHANGED <<chunks, results, records, warm, world, events>>
    BY <1>5 DEF vars, loadingVars
  <2>. QED  BY <2>1 DEF LoadingInv, IInv, StorageType, PlaceInv, Running
<1>. QED  BY <1>1, <1>2, <1>3, <1>4, <1>5 DEF Next, Work

\* Every reachable state of the page-meshing runtime: while the world runs, an
\* unanswered record of the current generation, a result of the current
\* generation and a mesh job exclude each other for a chunk; a mesh job's record
\* has every page pinned; and a page some record waits for is on its way under a
\* request the interaction warm-up cannot cancel.
THEOREM LoadingInductive == Spec => []LoadingInv
<1>. QED  BY LoadingInit, LoadingStep, PTL DEF Spec

\* No chunk waits for ever for a page nobody is loading: a page a loading record
\* asked for and does not hold is requested, being loaded or waiting in the
\* completion ring, whatever other records are released, whichever pages the
\* interaction warm-up cancels, and however priorities change meanwhile.
THEOREM NoRequestIsLost == Spec => []NoLostRequest
<1>1. LoadingInv => NoLostRequest
  <2> SUFFICES ASSUME LoadingInv, Running, NEW k \in Keys,
                      NEW page \in records[k].pages \ records[k].pinned,
                      records[k].phase = "Loading", records[k].asked[page] # None
               PROVE  page \in storage.active
    BY DEF NoLostRequest
  <2>1. records[k].pages \subseteq Pages /\ Owed(storage, records, {})
    BY RunningFacts DEF RecordOK, Record
  <2>2. Waits(records[k], page) /\ page \in Pages
    BY <2>1 DEF Waits
  <2>. QED  BY <2>1, <2>2 DEF Owed, Safe
<1>. QED  BY <1>1, LoadingInductive, PTL

\* A mesh job never ends the world and is never wasted: the record of its
\* generation is there, awaits it, and has every page pinned.
THEOREM MeshJobsAreBacked == Spec => []MeshJobsHaveTheirPages
<1>1. LoadingInv => MeshJobsHaveTheirPages
  <2> SUFFICES ASSUME LoadingInv, Running, NEW k \in Keys, chunks[k].job = "Mesh"
               PROVE  /\ records[k].phase = "AwaitingMesh"
                      /\ records[k].generation = chunks[k].generation
                      /\ records[k].pinned = records[k].pages
    BY DEF MeshJobsHaveTheirPages
  <2>1. Answers(chunks, events, records, results) /\ RecordOK(records[k], events)
    BY RunningFacts
  <2>. QED  BY <2>1 DEF Answers, RecordOK
<1>. QED  BY <1>1, LoadingInductive, PTL

\* The page runtime's calls, several of them in one step, keep each active page
\* in exactly one of the queue, a worker's hands and the completion ring.
THEOREM LoadingKeepsPlaces == Spec => []ActiveIsOnePlace
<1>1. LoadingInv => ActiveIsOnePlace
  BY CountedPlaces DEF LoadingInv
<1>. QED  BY <1>1, LoadingInductive, PTL

=============================================================================
