----------------------- MODULE PublicationQueueProofs -----------------------
(***************************************************************************)
(* Theorems about PublicationQueue, for every set of keys, every number of *)
(* generations and every capacity and budget.  IInv says where the         *)
(* ExpectChunk of a payload is while the payload is queued, waits for room *)
(* or is kept back; the safety properties follow from it.                  *)
(***************************************************************************)
EXTENDS PublicationQueue, SequenceLemmas

-----------------------------------------------------------------------------
(* The inductive invariant.                                                *)

\* An ExpectChunk of this version among the first n of the priority ring.
ExpectWithin(n, v) ==
    \E i \in 1..n : priority[i].kind = "Expect" /\ Version(priority[i]) = v

\* The application has been told of a version, or will be by the priority ring.
Covered(v) == v \in expected \/ ExpectWithin(Len(priority), v)

\* A payload in the priority ring has its ExpectChunk before it, and one in
\* the normal ring has it in the priority ring, unless it was applied.
RingInv ==
    /\ \A i \in 1..Len(priority) :
          Payload(priority[i]) =>
              Version(priority[i]) \in expected \/ ExpectWithin(i - 1, Version(priority[i]))
    /\ \A i \in 1..Len(normal) : Payload(normal[i]) => Covered(Version(normal[i]))

\* What the runtime has announced is covered, but for an ExpectChunk that is
\* waiting for room; so is a payload that waits.
AnnouncedInv ==
    stop = "No" =>
        /\ \A k \in Keys : announced[k] # 0 =>
              \/ Covered(<<k, announced[k]>>)
              \/ pending # None /\ pending.kind = "Expect"
                                /\ Version(pending) = <<k, announced[k]>>
        /\ pending # None /\ Payload(pending) => Covered(Version(pending))

\* A publication kept back is a payload the application expects.
DeferredInv ==
    deferred # None => Payload(deferred) /\ Version(deferred) \in expected

\* The drain has room for one more publication when it looks for one that may
\* overtake, and the runtime returns only after a stop request.
PlaceInv ==
    /\ frame = "Overtake" => drained < MaxDrain
    /\ pc \in {"Returned", "Destroyed"} => stop # "No"

\* No version has two collision payloads in a ring, or one there and one waiting.
CopyInv ==
    /\ \A i, j \in 1..Len(priority) :
          priority[i].kind = "Collision" /\ priority[j].kind = "Collision"
          /\ Version(priority[i]) = Version(priority[j]) => i = j
    /\ \A i, j \in 1..Len(normal) :
          normal[i].kind = "Collision" /\ normal[j].kind = "Collision"
          /\ Version(normal[i]) = Version(normal[j]) => i = j
    /\ pending # None /\ pending.kind = "Collision" =>
          /\ \A i \in 1..Len(priority) : priority[i].kind = "Collision" =>
                 Version(priority[i]) # Version(pending)
          /\ \A i \in 1..Len(normal) : normal[i].kind = "Collision" =>
                 Version(normal[i]) # Version(pending)

IInv ==
    /\ TypeOK /\ RingInv /\ AnnouncedInv /\ DeferredInv /\ PlaceInv /\ CopyInv
    /\ PayloadAfterExpect

-----------------------------------------------------------------------------
(* Selecting in a ring.                                                    *)

\* The fields of a publication.
LEMMA Fields ==
    ASSUME NEW p \in Publication
    PROVE  /\ p.kind \in {"Expect", "SetCollision", "Control", "Collision", "Render", "Answer"}
           /\ p.key \in Keys /\ p.generation \in Generations /\ p.urgency \in 0..3
           /\ Version(p) \in Keys \X Generations
           /\ p # None
BY NoPublication DEF Publication, Version

\* The oldest publication of a ring that is not a collision payload.
LEMMA OldestNotCollision ==
    ASSUME NEW ring \in Seq(Publication), Indices(ring, NotCollision) # {}
    PROVE  LET i == SelectInSeq(ring, NotCollision)
           IN  /\ i \in 1..Len(ring) /\ ring[i].kind # "Collision"
               /\ \A j \in 1..i - 1 : ring[j].kind = "Collision"
<1> DEFINE I == {i \in 1..Len(ring) : NotCollision(ring[i])}
<1>1. I # {} /\ I \subseteq Nat
  BY DEF Indices
<1>2. SelectInSeq(ring, NotCollision) = Min(I)
  BY <1>1 DEF SelectInSeq
<1>3. Min(I) \in I /\ \A i \in I : Min(I) <= i
  <2>. HIDE DEF I
  <2>. QED  BY <1>1, MinElement
<1>4. Min(I) \in 1..Len(ring) /\ NotCollision(ring[Min(I)])
  BY <1>3
<1>5. ASSUME NEW j \in 1..Min(I) - 1 PROVE ring[j].kind = "Collision"
  <2>1. j \in 1..Len(ring) /\ ~(Min(I) <= j)
    BY <1>4
  <2>2. j \notin I
    <3>. HIDE DEF I
    <3>. QED  BY <1>1, <1>3, <2>1
  <2>. QED  BY <2>1, <2>2 DEF NotCollision
<1>. QED  BY <1>2, <1>4, <1>5 DEF NotCollision

\* The oldest publication of a ring that is no payload.
LEMMA OldestNotPayload ==
    ASSUME NEW ring \in Seq(Publication), Indices(ring, NotPayload) # {}
    PROVE  LET i == SelectInSeq(ring, NotPayload)
           IN  i \in 1..Len(ring) /\ ~Payload(ring[i])
<1> DEFINE I == {i \in 1..Len(ring) : NotPayload(ring[i])}
<1>1. I # {} /\ I \subseteq Nat
  BY DEF Indices
<1>2. SelectInSeq(ring, NotPayload) = Min(I)
  BY <1>1 DEF SelectInSeq
<1>3. Min(I) \in I
  <2>. HIDE DEF I
  <2>. QED  BY <1>1, MinElement
<1>. QED  BY <1>2, <1>3 DEF NotPayload

\* What leaves the ring for the payload at i: nothing of its version's
\* ExpectChunks is left before it.
LEMMA FrontFacts ==
    ASSUME NEW ring \in Seq(Publication), NEW i \in 1..Len(ring)
    PROVE  LET f == FrontOf(ring, i)
           IN  /\ f \in 1..i
               /\ ring[f].kind \in {"Expect", "SetCollision"} \/ ring[f] = ring[i]
               /\ \A j \in 1..f - 1 :
                      ~(ring[j].kind = "Expect" /\ Version(ring[j]) = Version(ring[i]))
<1> DEFINE Goes(p) == /\ Version(p) = Version(ring[i])
                      /\ \/ p.kind = "Expect"
                         \/ p.kind = "SetCollision" /\ p.required
                         \/ p = ring[i]
           I == {k \in 1..i : Goes(ring[k])}
<1>1. i \in I /\ I \subseteq Nat
  OBVIOUS
<1>2. FrontOf(ring, i) = Min(I)
  BY <1>1 DEF FrontOf, SelectInSubSeq
<1>3. Min(I) \in I /\ \A k \in I : Min(I) <= k
  <2>. HIDE DEF I
  <2>. QED  BY <1>1, MinElement
<1>4. Min(I) \in 1..i /\ Goes(ring[Min(I)])
  BY <1>3
<1>5. ASSUME NEW j \in 1..Min(I) - 1
      PROVE  ~(ring[j].kind = "Expect" /\ Version(ring[j]) = Version(ring[i]))
  <2>1. j \in 1..i /\ ~(Min(I) <= j)
    BY <1>4
  <2>2. j \notin I
    <3>. HIDE DEF I
    <3>. QED  BY <1>1, <1>3, <2>1
  <2>. QED  BY <2>1, <2>2
<1>. QED  BY <1>2, <1>4, <1>5

LEMMA CollisionFront ==
    ASSUME TypeOK, NextCollision # 0
    PROVE  /\ NextCollision \in 1..Len(priority)
           /\ Payload(priority[NextCollision]) =>
                 ~ExpectWithin(NextCollision - 1, Version(priority[NextCollision]))
<1> DEFINE Best(p) == /\ p.kind = "Collision"
                      /\ \A q \in ToSet(priority) :
                             q.kind = "Collision" => q.urgency <= p.urgency
           I == {i \in 1..Len(priority) : Best(priority[i])}
           best == IF I # {} THEN Min(I) ELSE 0
<1>1. NextCollision = IF best = 0 THEN 0 ELSE FrontOf(priority, best)
  BY DEF NextCollision, SelectInSeq
<1>2. I # {} => Min(I) \in I
  <2>1. I \subseteq Nat
    OBVIOUS
  <2>. HIDE DEF I
  <2>. QED  BY <2>1, MinElement
<1>3. best # 0 /\ NextCollision = FrontOf(priority, best)
  BY <1>1
<1>4. best \in 1..Len(priority) /\ priority[best].kind = "Collision"
  BY <1>2, <1>3
<1>. HIDE DEF best
<1>5. priority \in Seq(Publication)
  BY DEF TypeOK
<1>6. /\ NextCollision \in 1..best
      /\ priority[NextCollision].kind \in {"Expect", "SetCollision"}
         \/ priority[NextCollision] = priority[best]
      /\ \A j \in 1..NextCollision - 1 :
             ~(priority[j].kind = "Expect" /\ Version(priority[j]) = Version(priority[best]))
  BY <1>3, <1>4, <1>5, FrontFacts
<1>7. Payload(priority[NextCollision]) => priority[NextCollision] = priority[best]
  BY <1>6 DEF Payload
<1>8. NextCollision \in 1..Len(priority)
  BY <1>4, <1>6
<1>. QED  BY <1>6, <1>7, <1>8 DEF ExpectWithin

-----------------------------------------------------------------------------
(* Taking a publication.                                                   *)

\* What the application expects once it was given p.
Told(p) == expected \cup (IF p.kind = "Expect" THEN {Version(p)} ELSE {})

\* A publication leaves a ring and reaches the application, unless it is kept back.
Leaves(p) ==
    \/ \E i \in 1..Len(priority) :
          /\ p = priority[i] /\ priority' = RemoveAt(priority, i) /\ normal' = normal
          /\ Payload(p) => ~ExpectWithin(i - 1, Version(p))
    \/ \E i \in 1..Len(normal) :
          /\ p = normal[i] /\ normal' = RemoveAt(normal, i) /\ priority' = priority
          /\ Payload(p) => ~ExpectWithin(Len(priority), Version(p))

\* A payload that leaves a ring is expected.
LEMMA LeavesExpected ==
    ASSUME TypeOK, RingInv, NEW p, Leaves(p)
    PROVE  p \in Publication /\ (Payload(p) => Version(p) \in expected)
<1>1. priority \in Seq(Publication) /\ normal \in Seq(Publication)
  BY DEF TypeOK
<1>2. ASSUME NEW i \in 1..Len(priority), p = priority[i],
             Payload(p) => ~ExpectWithin(i - 1, Version(p))
      PROVE  p \in Publication /\ (Payload(p) => Version(p) \in expected)
  BY <1>1, <1>2 DEF RingInv
<1>3. ASSUME NEW i \in 1..Len(normal), p = normal[i],
             Payload(p) => ~ExpectWithin(Len(priority), Version(p))
      PROVE  p \in Publication /\ (Payload(p) => Version(p) \in expected)
  BY <1>1, <1>3 DEF RingInv, Covered
<1>. QED  BY <1>2, <1>3 DEF Leaves

LEMMA CollisionLeaves ==
    ASSUME TypeOK, NextCollision # 0, priority' = RemoveAt(priority, NextCollision),
           normal' = normal
    PROVE  Leaves(priority[NextCollision])
BY CollisionFront DEF Leaves

\* pop_non_collision_publication: the publication is called p in both rings.
LEMMA NotCollisionLeaves ==
    ASSUME TypeOK,
           NEW p,
           \/ /\ RingWith(NotCollision) = "priority"
              /\ LET i == SelectInSeq(priority, NotCollision)
                 IN p = priority[i] /\ priority' = RemoveAt(priority, i)
              /\ UNCHANGED normal
           \/ /\ RingWith(NotCollision) = "normal"
              /\ LET i == SelectInSeq(normal, NotCollision)
                 IN p = normal[i] /\ normal' = RemoveAt(normal, i)
              /\ UNCHANGED priority
    PROVE  Leaves(p)
<1>0. priority \in Seq(Publication) /\ normal \in Seq(Publication)
  BY DEF TypeOK
<1>1. CASE RingWith(NotCollision) = "priority"
  <2>1. Indices(priority, NotCollision) # {}
    BY <1>1 DEF RingWith
  <2> DEFINE i == SelectInSeq(priority, NotCollision)
  <2>2. i \in 1..Len(priority) /\ \A j \in 1..i - 1 : priority[j].kind = "Collision"
    BY <1>0, <2>1, OldestNotCollision
  <2>3. p = priority[i] /\ priority' = RemoveAt(priority, i) /\ normal' = normal
    BY <1>1
  <2>4. ~ExpectWithin(i - 1, Version(p))
    BY <2>2 DEF ExpectWithin
  <2>. HIDE DEF i
  <2>. QED  BY <2>2, <2>3, <2>4 DEF Leaves
<1>2. CASE RingWith(NotCollision) = "normal"
  <2>1. Indices(priority, NotCollision) = {} /\ Indices(normal, NotCollision) # {}
    BY <1>2 DEF RingWith
  <2> DEFINE i == SelectInSeq(normal, NotCollision)
  <2>2. i \in 1..Len(normal)
    BY <1>0, <2>1, OldestNotCollision
  <2>3. p = normal[i] /\ normal' = RemoveAt(normal, i) /\ priority' = priority
    BY <1>2
  <2>4. ~ExpectWithin(Len(priority), Version(p))
    BY <1>0, <2>1 DEF ExpectWithin, Indices, NotCollision
  <2>. HIDE DEF i
  <2>. QED  BY <2>2, <2>3, <2>4 DEF Leaves
<1>. QED  BY <1>1, <1>2

\* pop_unbudgeted_publication.
LEMMA NotPayloadLeaves ==
    ASSUME TypeOK,
           NEW p,
           \/ /\ RingWith(NotPayload) = "priority"
              /\ LET i == SelectInSeq(priority, NotPayload)
                 IN p = priority[i] /\ priority' = RemoveAt(priority, i)
              /\ UNCHANGED normal
           \/ /\ RingWith(NotPayload) = "normal"
              /\ LET i == SelectInSeq(normal, NotPayload)
                 IN p = normal[i] /\ normal' = RemoveAt(normal, i)
              /\ UNCHANGED priority
    PROVE  Leaves(p) /\ ~Payload(p)
<1>0. priority \in Seq(Publication) /\ normal \in Seq(Publication)
  BY DEF TypeOK
<1>1. CASE RingWith(NotPayload) = "priority"
  <2>1. Indices(priority, NotPayload) # {}
    BY <1>1 DEF RingWith
  <2> DEFINE i == SelectInSeq(priority, NotPayload)
  <2>2. i \in 1..Len(priority) /\ ~Payload(priority[i])
    BY <1>0, <2>1, OldestNotPayload
  <2>3. p = priority[i] /\ priority' = RemoveAt(priority, i) /\ normal' = normal
    BY <1>1
  <2>. HIDE DEF i
  <2>. QED  BY <2>2, <2>3 DEF Leaves
<1>2. CASE RingWith(NotPayload) = "normal"
  <2>1. Indices(normal, NotPayload) # {}
    BY <1>2 DEF RingWith
  <2> DEFINE i == SelectInSeq(normal, NotPayload)
  <2>2. i \in 1..Len(normal) /\ ~Payload(normal[i])
    BY <1>0, <2>1, OldestNotPayload
  <2>3. p = normal[i] /\ normal' = RemoveAt(normal, i) /\ priority' = priority
    BY <1>2
  <2>. HIDE DEF i
  <2>. QED  BY <2>2, <2>3 DEF Leaves
<1>. QED  BY <1>1, <1>2

\* What is covered stays covered when a publication leaves a ring.
LEMMA CoveredKept ==
    ASSUME TypeOK, NEW p, Leaves(p), expected' = Told(p), NEW v, Covered(v)
    PROVE  Covered(v)'
<1>0. priority \in Seq(Publication)
  BY DEF TypeOK
<1>1. CASE v \in expected
  BY <1>1 DEF Covered, Told
<1>2. CASE v \notin expected
  <2>1. PICK b \in 1..Len(priority) : priority[b].kind = "Expect" /\ Version(priority[b]) = v
    BY <1>2 DEF Covered, ExpectWithin
  <2>2. CASE priority' = priority
    BY <2>1, <2>2 DEF Covered, ExpectWithin
  <2>3. CASE priority' # priority
    <3>1. PICK i \in 1..Len(priority) : p = priority[i] /\ priority' = RemoveAt(priority, i)
      BY <2>3 DEF Leaves
    <3>2. CASE b = i
      BY <2>1, <3>1, <3>2 DEF Covered, Told
    <3>3. CASE b # i
      <4>1. \E a \in 1..Len(priority') : priority'[a] = priority[b]
        BY <1>0, <3>1, <3>3, RemoveAtPlaces
      <4>. QED  BY <2>1, <4>1 DEF Covered, ExpectWithin
    <3>. QED  BY <3>2, <3>3
  <2>. QED  BY <2>2, <2>3
<1>. QED  BY <1>1, <1>2

LEMMA RingLeaves ==
    ASSUME TypeOK, RingInv, NEW p, Leaves(p), expected' = Told(p)
    PROVE  RingInv'
<1>0. priority \in Seq(Publication) /\ normal \in Seq(Publication)
      /\ Len(priority) \in Nat /\ Len(normal) \in Nat
  BY DEF TypeOK
<1>1. expected \subseteq expected'
  BY DEF Told
<1>2. CASE \E i \in 1..Len(priority) :
               p = priority[i] /\ priority' = RemoveAt(priority, i) /\ normal' = normal
  <2>1. PICK i \in 1..Len(priority) :
            p = priority[i] /\ priority' = RemoveAt(priority, i) /\ normal' = normal
    BY <1>2
  <2>2. ASSUME NEW a \in 1..Len(priority'), Payload(priority'[a]),
               Version(priority'[a]) \notin expected'
        PROVE  ExpectWithin(a - 1, Version(priority[a]))'
    <3>1. PICK b \in 1..Len(priority) :
              priority'[a] = priority[b] /\ ((b = a /\ a < i) \/ (b = a + 1 /\ b > i))
      BY <1>0, <2>1, RemoveAtPlaces
    <3>2. ExpectWithin(b - 1, Version(priority[b]))
      BY <1>1, <2>2, <3>1 DEF RingInv
    <3>3. PICK c \in 1..b - 1 :
              priority[c].kind = "Expect" /\ Version(priority[c]) = Version(priority[b])
      BY <3>2 DEF ExpectWithin
    <3>4. c # i
      BY <2>1, <2>2, <3>1, <3>3 DEF Told
    <3>5. c \in 1..Len(priority) /\ c < b
      BY <1>0
    <3>6. PICK d \in 1..Len(priority') :
              priority'[d] = priority[c] /\ ((d = c /\ c < i) \/ (d = c - 1 /\ c > i))
      <4>1. \A k \in 1..Len(priority) : k # i => \E d \in 1..Len(RemoveAt(priority, i)) :
                /\ RemoveAt(priority, i)[d] = priority[k]
                /\ (d = k /\ k < i) \/ (d = k - 1 /\ k > i)
        BY <1>0, RemoveAtPlaces
      <4>. QED  BY <2>1, <3>4, <3>5, <4>1
    <3>7. d \in 1..a - 1
      BY <1>0, <3>1, <3>4, <3>5, <3>6
    <3>. QED  BY <3>1, <3>3, <3>6, <3>7 DEF ExpectWithin
  <2>3. ASSUME NEW a \in 1..Len(normal'), Payload(normal'[a])
        PROVE  Covered(Version(normal[a]))'
    BY <2>1, <2>3, CoveredKept DEF RingInv
  <2>. QED  BY <2>2, <2>3 DEF RingInv
<1>3. CASE \E i \in 1..Len(normal) :
               p = normal[i] /\ normal' = RemoveAt(normal, i) /\ priority' = priority
  <2>1. PICK i \in 1..Len(normal) :
            p = normal[i] /\ normal' = RemoveAt(normal, i) /\ priority' = priority
    BY <1>3
  <2>2. ASSUME NEW a \in 1..Len(priority'), Payload(priority'[a]),
               Version(priority'[a]) \notin expected'
        PROVE  ExpectWithin(a - 1, Version(priority[a]))'
    BY <1>1, <2>1, <2>2 DEF RingInv, ExpectWithin
  <2>3. ASSUME NEW a \in 1..Len(normal'), Payload(normal'[a])
        PROVE  Covered(Version(normal[a]))'
    <3>1. PICK b \in 1..Len(normal) : normal'[a] = normal[b]
      BY <1>0, <2>1, RemoveAtPlaces
    <3>2. Covered(Version(normal[b]))
      BY <2>3, <3>1 DEF RingInv
    <3>. QED  BY <3>1, <3>2, CoveredKept
  <2>. QED  BY <2>2, <2>3 DEF RingInv
<1>. QED  BY <1>2, <1>3 DEF Leaves

\* One ring without a publication still has no two payloads of a version.
LEMMA CopyRemoved ==
    ASSUME NEW ring \in Seq(Publication), NEW at \in 1..Len(ring), NEW new,
           new = RemoveAt(ring, at),
           \A i, j \in 1..Len(ring) :
              ring[i].kind = "Collision" /\ ring[j].kind = "Collision"
              /\ Version(ring[i]) = Version(ring[j]) => i = j
    PROVE  /\ \A i, j \in 1..Len(new) :
                 new[i].kind = "Collision" /\ new[j].kind = "Collision"
                 /\ Version(new[i]) = Version(new[j]) => i = j
           /\ \A i \in 1..Len(new) : \E j \in 1..Len(ring) : new[i] = ring[j]
<1>1. \A a \in 1..Len(new) : \E b \in 1..Len(ring) :
          new[a] = ring[b] /\ ((b = a /\ a < at) \/ (b = a + 1 /\ b > at))
  BY RemoveAtPlaces
<1>2. ASSUME NEW i \in 1..Len(new), NEW j \in 1..Len(new),
             new[i].kind = "Collision", new[j].kind = "Collision",
             Version(new[i]) = Version(new[j])
      PROVE  i = j
  <2>1. PICK k \in 1..Len(ring) : new[i] = ring[k] /\ ((k = i /\ i < at) \/ (k = i + 1 /\ k > at))
    BY <1>1
  <2>2. PICK l \in 1..Len(ring) : new[j] = ring[l] /\ ((l = j /\ j < at) \/ (l = j + 1 /\ l > at))
    BY <1>1
  <2>3. k = l
    BY <1>2, <2>1, <2>2
  <2>. QED  BY <2>1, <2>2, <2>3
<1>. QED  BY <1>1, <1>2

\* A ring holds at most one collision payload of each chunk version.
OneOfEach(ring) ==
    \A i, j \in 1..Len(ring) :
        ring[i].kind = "Collision" /\ ring[j].kind = "Collision"
        /\ Version(ring[i]) = Version(ring[j]) => i = j

LEMMA OneOfEachRemoved ==
    ASSUME NEW ring \in Seq(Publication), NEW at \in 1..Len(ring), NEW new,
           new = RemoveAt(ring, at), OneOfEach(ring)
    PROVE  /\ OneOfEach(new)
           /\ \A i \in 1..Len(new) : \E j \in 1..Len(ring) : new[i] = ring[j]
BY CopyRemoved DEF OneOfEach

LEMMA CopyLeaves ==
    ASSUME TypeOK, CopyInv, NEW p, Leaves(p), pending' = pending
    PROVE  CopyInv'
<1>0. priority \in Seq(Publication) /\ normal \in Seq(Publication)
  BY DEF TypeOK
<1>1. CASE \E i \in 1..Len(priority) : priority' = RemoveAt(priority, i) /\ normal' = normal
  <2>1. PICK i \in 1..Len(priority) : priority' = RemoveAt(priority, i) /\ normal' = normal
    BY <1>1
  <2>2. OneOfEach(priority)
    BY DEF CopyInv, OneOfEach
  <2>3. PICK new : new = RemoveAt(priority, i)
    OBVIOUS
  <2>4. OneOfEach(new) /\ \A a \in 1..Len(new) : \E b \in 1..Len(priority) : new[a] = priority[b]
    BY <1>0, <2>2, <2>3, OneOfEachRemoved, SMTT(30)
  <2>5. priority' = new /\ normal' = normal
    BY <2>1, <2>3
  <2>6. ASSUME pending # None, pending.kind = "Collision",
               NEW a \in 1..Len(new), new[a].kind = "Collision"
        PROVE  Version(new[a]) # Version(pending)
    BY <2>4, <2>6 DEF CopyInv
  <2>. QED  BY <2>4, <2>5, <2>6 DEF CopyInv, OneOfEach
<1>2. CASE \E i \in 1..Len(normal) : normal' = RemoveAt(normal, i) /\ priority' = priority
  <2>1. PICK i \in 1..Len(normal) : normal' = RemoveAt(normal, i) /\ priority' = priority
    BY <1>2
  <2>2. OneOfEach(normal)
    BY DEF CopyInv, OneOfEach
  <2>3. PICK new : new = RemoveAt(normal, i)
    OBVIOUS
  <2>4. OneOfEach(new) /\ \A a \in 1..Len(new) : \E b \in 1..Len(normal) : new[a] = normal[b]
    BY <1>0, <2>2, <2>3, OneOfEachRemoved, SMTT(30)
  <2>5. normal' = new /\ priority' = priority
    BY <2>1, <2>3
  <2>6. ASSUME pending # None, pending.kind = "Collision",
               NEW a \in 1..Len(new), new[a].kind = "Collision"
        PROVE  Version(new[a]) # Version(pending)
    BY <2>4, <2>6 DEF CopyInv
  <2>. QED  BY <2>4, <2>5, <2>6 DEF CopyInv, OneOfEach
<1>. QED  BY <1>1, <1>2 DEF Leaves

LEMMA AnnouncedLeaves ==
    ASSUME TypeOK, AnnouncedInv, NEW p, Leaves(p), expected' = Told(p),
           UNCHANGED <<announced, pending, stop>>
    PROVE  AnnouncedInv'
<1>1. \A v : Covered(v) => Covered(v)'
  BY CoveredKept
<1>. QED  BY <1>1 DEF AnnouncedInv

-----------------------------------------------------------------------------
(* What the frame thread does with a publication.                          *)

FrameOK ==
    /\ frame \in {"Idle", "Drain", "Overtake", "StopCall", "JoinCall", "Joining", "Gone"}
    /\ drained \in 0..MaxDrain /\ renders \in 0..RenderBudget
    /\ deferred \in Publication \cup {None}
    /\ frame = "Overtake" => drained < MaxDrain

LEMMA ApplyEffect ==
    ASSUME NEW p \in Publication, Payload(p) => Version(p) \in expected, Apply(p)
    PROVE  expected' = Told(p) /\ orphans' = orphans
BY DEF Apply, Told

LEMMA SwitchEffect ==
    ASSUME TypeOK, NEW p \in Publication, Payload(p) => Version(p) \in expected,
           drained < MaxDrain, p.kind = "Render" => renders < RenderBudget, Switch(p)
    PROVE  /\ expected' = Told(p) /\ orphans' = orphans
           /\ drained' \in 0..MaxDrain /\ renders' \in 0..RenderBudget
           /\ frame' = "Drain"
<1>1. expected' = Told(p) /\ orphans' = orphans
  <2>1. CASE p.kind = "Collision"
    BY <2>1 DEF Switch, Told
  <2>2. CASE p.kind # "Collision"
    BY <2>2, ApplyEffect DEF Switch
  <2>. QED  BY <2>1, <2>2
<1>2. drained \in Nat /\ renders \in Nat /\ MaxDrain \in Nat /\ RenderBudget \in Nat
      /\ renders <= RenderBudget
  BY PublicationAssumption DEF TypeOK
<1>. QED  BY <1>1, <1>2 DEF Switch

LEMMA DispatchEffect ==
    ASSUME TypeOK, DeferredInv, NEW p \in Publication,
           Payload(p) => Version(p) \in expected, drained < MaxDrain, Dispatch(p)
    PROVE  /\ expected' = Told(p) /\ orphans' = orphans
           /\ FrameOK' /\ DeferredInv'
<1>1. CASE OverBudget(p)
  <2>1. Payload(p)
    BY <1>1 DEF OverBudget, Payload
  <2>2. deferred' = p /\ frame' = "Overtake" /\ UNCHANGED <<drained, renders, expected, orphans>>
    BY <1>1 DEF Dispatch
  <2>3. Told(p) = expected
    BY <2>1 DEF Told, Payload
  <2>4. DeferredInv'
    <3>1. Payload(p) /\ Version(p) \in expected
      BY <2>1
    <3>. QED  BY <2>2, <3>1 DEF DeferredInv, Payload, Version
  <2>. QED  BY <2>2, <2>3, <2>4 DEF TypeOK, FrameOK
<1>2. CASE ~OverBudget(p)
  <2>1. Switch(p) /\ deferred' = deferred
    BY <1>2 DEF Dispatch
  <2>2. p.kind = "Render" => renders < RenderBudget
    BY <1>2, PublicationAssumption DEF OverBudget, TypeOK
  <2>3. /\ expected' = Told(p) /\ orphans' = orphans
        /\ drained' \in 0..MaxDrain /\ renders' \in 0..RenderBudget /\ frame' = "Drain"
    BY <2>1, <2>2, SwitchEffect
  <2>4. expected \subseteq expected'
    BY <2>3 DEF Told
  <2>. QED  BY <2>1, <2>3, <2>4 DEF TypeOK, FrameOK, DeferredInv, Payload, Version
<1>. QED  BY <1>1, <1>2

LEMMA DispatchDeferredEffect ==
    ASSUME TypeOK, DeferredInv, deferred # None, drained < MaxDrain, DispatchDeferred(deferred)
    PROVE  /\ expected' = expected /\ orphans' = orphans
           /\ FrameOK' /\ DeferredInv'
<1>0. deferred \in Publication /\ Payload(deferred) /\ Version(deferred) \in expected
  BY DEF TypeOK, DeferredInv
<1>1. CASE OverBudget(deferred)
  <2>1. frame' = "Overtake" /\ UNCHANGED <<drained, renders, deferred, expected, orphans>>
    BY <1>1 DEF DispatchDeferred
  <2>. QED  BY <2>1 DEF TypeOK, FrameOK, DeferredInv, Payload, Version
<1>2. CASE ~OverBudget(deferred)
  <2>1. Switch(deferred) /\ deferred' = None
    BY <1>2 DEF DispatchDeferred
  <2>2. deferred.kind = "Render" => renders < RenderBudget
    BY <1>2, PublicationAssumption DEF OverBudget, TypeOK
  <2>3. /\ expected' = Told(deferred) /\ orphans' = orphans
        /\ drained' \in 0..MaxDrain /\ renders' \in 0..RenderBudget /\ frame' = "Drain"
    BY <1>0, <2>1, <2>2, SwitchEffect
  <2>4. Told(deferred) = expected
    BY <1>0 DEF Told, Payload
  <2>. QED  BY <2>1, <2>3, <2>4 DEF FrameOK, DeferredInv
<1>. QED  BY <1>1, <1>2

\* A publication left a ring for the application, or none did.
Outcome ==
    \/ \E p : Leaves(p) /\ expected' = Told(p)
    \/ UNCHANGED <<priority, normal, expected>>

LEMMA FrameTakes ==
    ASSUME TypeOK, RingInv, DeferredInv, PlaceInv,
           PhysicsTake \/ DrainNext \/ DrainOvertake
    PROVE  /\ Outcome /\ orphans' = orphans /\ DeferredInv' /\ FrameOK'
           /\ UNCHANGED <<announced, pending, stop>> /\ pc' \in {pc, Notified}
<1>1. CASE PhysicsTake
  <2> DEFINE p == priority[NextCollision]
  <2>1. /\ NextCollision # 0 /\ priority' = RemoveAt(priority, NextCollision)
        /\ Apply(p) /\ pc' = Notified /\ normal' = normal
        /\ UNCHANGED <<announced, pending, stop, frame, drained, renders, deferred>>
    BY <1>1 DEF PhysicsTake, TakeCollision
  <2>2. Leaves(p)
    BY <2>1, CollisionLeaves
  <2>. HIDE DEF p
  <2>3. p \in Publication /\ (Payload(p) => Version(p) \in expected)
    BY <2>2, LeavesExpected
  <2>4. expected' = Told(p) /\ orphans' = orphans
    BY <2>1, <2>3, ApplyEffect
  <2>5. expected \subseteq expected'
    BY <2>4 DEF Told
  <2>6. DeferredInv' /\ FrameOK'
    BY <2>1, <2>5 DEF TypeOK, PlaceInv, DeferredInv, FrameOK, Payload, Version
  <2>. QED  BY <2>1, <2>2, <2>4, <2>6 DEF Outcome
<1>2. CASE DrainNext
  <2>0. drained < MaxDrain /\ UNCHANGED <<announced, pending, stop>>
    BY <1>2 DEF DrainNext
  <2>1. CASE TakeOldest(NotCollision, Dispatch)
    <3>1. PICK p : /\ \/ /\ RingWith(NotCollision) = "priority"
                         /\ LET i == SelectInSeq(priority, NotCollision)
                            IN p = priority[i] /\ priority' = RemoveAt(priority, i)
                         /\ UNCHANGED normal
                      \/ /\ RingWith(NotCollision) = "normal"
                         /\ LET i == SelectInSeq(normal, NotCollision)
                            IN p = normal[i] /\ normal' = RemoveAt(normal, i)
                         /\ UNCHANGED priority
                   /\ Dispatch(p) /\ pc' = Notified
      BY <2>1 DEF TakeOldest
    <3>2. Leaves(p)
      BY <3>1, NotCollisionLeaves
    <3>3. p \in Publication /\ (Payload(p) => Version(p) \in expected)
      BY <3>2, LeavesExpected
    <3>4. /\ expected' = Told(p) /\ orphans' = orphans
          /\ FrameOK' /\ DeferredInv'
      BY <2>0, <3>1, <3>3, DispatchEffect
    <3>. QED  BY <2>0, <3>1, <3>2, <3>4 DEF Outcome
  <2>2. CASE TakeCollision(Dispatch)
    <3> DEFINE p == priority[NextCollision]
    <3>1. /\ NextCollision # 0 /\ priority' = RemoveAt(priority, NextCollision)
          /\ Dispatch(p) /\ pc' = Notified /\ normal' = normal
      BY <2>2 DEF TakeCollision
    <3>2. Leaves(p)
      BY <3>1, CollisionLeaves
    <3>. HIDE DEF p
    <3>3. p \in Publication /\ (Payload(p) => Version(p) \in expected)
      BY <3>2, LeavesExpected
    <3>4. /\ expected' = Told(p) /\ orphans' = orphans
          /\ FrameOK' /\ DeferredInv'
      BY <2>0, <3>1, <3>3, DispatchEffect
    <3>. QED  BY <2>0, <3>1, <3>2, <3>4 DEF Outcome
  <2>3. CASE deferred # None /\ DispatchDeferred(deferred) /\ UNCHANGED <<priority, normal, pc>>
    BY <2>0, <2>3, DispatchDeferredEffect DEF Outcome
  <2>. QED  BY <1>2, <2>1, <2>2, <2>3 DEF DrainNext
<1>3. CASE DrainOvertake
  <2>0. drained < MaxDrain /\ UNCHANGED <<announced, pending, stop, deferred>>
    BY <1>3 DEF DrainOvertake, PlaceInv
  <2>1. PICK p : /\ \/ /\ RingWith(NotPayload) = "priority"
                       /\ LET i == SelectInSeq(priority, NotPayload)
                          IN p = priority[i] /\ priority' = RemoveAt(priority, i)
                       /\ UNCHANGED normal
                    \/ /\ RingWith(NotPayload) = "normal"
                       /\ LET i == SelectInSeq(normal, NotPayload)
                          IN p = normal[i] /\ normal' = RemoveAt(normal, i)
                       /\ UNCHANGED priority
                 /\ Switch(p) /\ pc' = Notified
    BY <1>3 DEF DrainOvertake, TakeOldest
  <2>2. Leaves(p) /\ ~Payload(p)
    BY <2>1, NotPayloadLeaves
  <2>3. p \in Publication
    BY <2>2, LeavesExpected
  <2>4. /\ expected' = Told(p) /\ orphans' = orphans
        /\ drained' \in 0..MaxDrain /\ renders' \in 0..RenderBudget /\ frame' = "Drain"
    BY <2>0, <2>1, <2>2, <2>3, SwitchEffect DEF Payload
  <2>5. expected \subseteq expected'
    BY <2>4 DEF Told
  <2>6. DeferredInv' /\ FrameOK'
    BY <2>0, <2>4, <2>5 DEF TypeOK, DeferredInv, FrameOK, Payload, Version
  <2>. QED  BY <2>0, <2>1, <2>2, <2>4, <2>6 DEF Outcome
<1>. QED  BY <1>1, <1>2, <1>3

-----------------------------------------------------------------------------
(* Putting a publication into a ring.                                      *)

\* What the runtime may publish: payloads and requirements only of the
\* generation it announced last.
LEMMA OfferFacts ==
    ASSUME TypeOK, NEW p \in Offers
    PROVE  /\ p \in Publication
           /\ Payload(p) => announced[p.key] # 0 /\ p.generation = announced[p.key]
<1>1. Urgencies \subseteq 0..3 /\ MaxGeneration \in Nat /\ Keys # {}
  BY PublicationAssumption
<1>2. ASSUME NEW kind \in {"Expect", "SetCollision", "Control", "Collision", "Render", "Answer"},
             NEW k \in Keys, NEW g \in Generations
      PROVE  /\ Plain(kind, k, g) \in Publication
             /\ Plain(kind, k, g).key = k /\ Plain(kind, k, g).generation = g
             /\ Plain(kind, k, g).kind = kind
  BY DEF Plain, Publication
<1>3. ASSUME NEW k \in Keys, NEW g \in Generations, p \in About(k, g)
      PROVE  p \in Publication /\ p.key = k /\ p.generation = g
  <2>1. CASE p = Plain("Expect", k, g)
    BY <1>2, <2>1
  <2>2. ASSUME NEW r \in BOOLEAN, p = [Plain("SetCollision", k, g) EXCEPT !.required = r]
        PROVE  p \in Publication /\ p.key = k /\ p.generation = g
    <3>1. p = [kind |-> "SetCollision", key |-> k, generation |-> g,
               urgency |-> 0, staged |-> FALSE, required |-> r]
      BY <2>2 DEF Plain
    <3>. QED  BY <3>1 DEF Publication
  <2>3. ASSUME NEW u \in Urgencies, p = [Plain("Collision", k, g) EXCEPT !.urgency = u]
        PROVE  p \in Publication /\ p.key = k /\ p.generation = g
    BY <1>1, <2>3 DEF Plain, Publication
  <2>4. ASSUME NEW s \in BOOLEAN, p = [Plain("Render", k, g) EXCEPT !.staged = s]
        PROVE  p \in Publication /\ p.key = k /\ p.generation = g
    <3>1. p = [kind |-> "Render", key |-> k, generation |-> g,
               urgency |-> 0, staged |-> s, required |-> FALSE]
      BY <2>4 DEF Plain
    <3>. QED  BY <3>1 DEF Publication
  <2>. QED  BY <1>3, <2>1, <2>2, <2>3, <2>4 DEF About
<1>4. CASE \E k \in Keys : announced[k] # 0 /\ p \in About(k, announced[k])
  <2>1. PICK k \in Keys : announced[k] # 0 /\ p \in About(k, announced[k])
    BY <1>4
  <2>2. announced[k] \in Generations
    BY DEF TypeOK
  <2>. QED  BY <1>3, <2>1, <2>2
<1>5. CASE \E kind \in {"Control", "Answer"} : p = Plain(kind, CHOOSE k \in Keys : TRUE, 0)
  <2>1. (CHOOSE k \in Keys : TRUE) \in Keys /\ 0 \in Generations
    BY <1>1 DEF Generations
  <2>. QED  BY <1>2, <1>5, <2>1 DEF Payload
<1>6. CASE \E k \in Keys, g \in Generations : p = Plain("Expect", k, g)
  BY <1>2, <1>6 DEF Payload
<1> DEFINE someKey == CHOOSE k \in Keys : TRUE
           Fresh == {g \in Generations : \A k \in Keys : announced[k] < g}
<1>7. \/ p \in {Plain(kind, someKey, 0) : kind \in {"Control", "Answer"}}
      \/ p \in UNION {About(k, announced[k]) : k \in {j \in Keys : announced[j] # 0}}
      \/ p \in {Plain("Expect", k, g) : k \in Keys, g \in Fresh}
  BY DEF Offers
<1>8. p \in {Plain("Expect", k, g) : k \in Keys, g \in Fresh} =>
          \E k \in Keys, g \in Generations : p = Plain("Expect", k, g)
  OBVIOUS
<1>9. p \in UNION {About(k, announced[k]) : k \in {j \in Keys : announced[j] # 0}} =>
          \E k \in Keys : announced[k] # 0 /\ p \in About(k, announced[k])
  OBVIOUS
<1>. QED  BY <1>4, <1>5, <1>6, <1>7, <1>8, <1>9

LEMMA Enqueued ==
    ASSUME TypeOK, NEW p \in Publication, Enqueue(p)
    PROVE  \/ /\ normal' = normal
              /\ priority' \in Seq(Publication) /\ Len(priority') = Len(priority) + 1
              /\ \A i \in 1..Len(priority) : priority'[i] = priority[i]
              /\ priority'[Len(priority) + 1] = p
              /\ Room(p) => Len(priority) < PriorityCapacity
           \/ /\ priority' = priority
              /\ p.kind \notin {"Expect", "Collision"}
              /\ normal' \in Seq(Publication) /\ Len(normal') = Len(normal) + 1
              /\ \A i \in 1..Len(normal) : normal'[i] = normal[i]
              /\ normal'[Len(normal) + 1] = p
              /\ Room(p) => Len(normal) < NormalCapacity
<1>1. priority \in Seq(Publication) /\ normal \in Seq(Publication)
  BY DEF TypeOK
<1>2. ASSUME NEW ring \in Seq(Publication)
      PROVE  /\ Append(ring, p) \in Seq(Publication) /\ Len(Append(ring, p)) = Len(ring) + 1
             /\ \A i \in 1..Len(ring) : Append(ring, p)[i] = ring[i]
             /\ Append(ring, p)[Len(ring) + 1] = p
  BY AppendElements
<1>3. CASE IsPriority(p)
  <2>1. priority' = Append(priority, p) /\ normal' = normal
    BY <1>3 DEF Enqueue
  <2>2. Room(p) => Len(priority) < PriorityCapacity
    BY <1>3 DEF Room
  <2>. QED  BY <1>1, <1>2, <2>1, <2>2
<1>4. CASE ~IsPriority(p)
  <2>1. normal' = Append(normal, p) /\ priority' = priority
    BY <1>4 DEF Enqueue
  <2>2. Room(p) => Len(normal) < NormalCapacity
    BY <1>4 DEF Room
  <2>3. p.kind \notin {"Expect", "Collision"}
    BY <1>4 DEF IsPriority
  <2>. QED  BY <1>1, <1>2, <2>1, <2>2, <2>3
<1>. QED  BY <1>3, <1>4

LEMMA CoveredEnqueued ==
    ASSUME TypeOK, NEW p \in Publication, Enqueue(p), expected' = expected
    PROVE  /\ \A v : Covered(v) => Covered(v)'
           /\ p.kind = "Expect" => Covered(Version(p))'
<1>0. Len(priority) \in Nat
  BY DEF TypeOK
<1>1. CASE /\ Len(priority') = Len(priority) + 1
           /\ \A i \in 1..Len(priority) : priority'[i] = priority[i]
           /\ priority'[Len(priority) + 1] = p
  <2>1. 1..Len(priority) \subseteq 1..Len(priority') /\ Len(priority) + 1 \in 1..Len(priority')
    BY <1>0, <1>1
  <2>2. ASSUME NEW v, Covered(v) PROVE Covered(v)'
    BY <1>1, <2>1, <2>2 DEF Covered, ExpectWithin
  <2>3. ASSUME p.kind = "Expect" PROVE Covered(Version(p))'
    BY <1>1, <2>1, <2>3 DEF Covered, ExpectWithin, Version
  <2>. QED  BY <2>2, <2>3
<1>2. CASE priority' = priority /\ p.kind # "Expect"
  BY <1>2 DEF Covered, ExpectWithin
<1>. QED  BY <1>1, <1>2, Enqueued

LEMMA RingEnqueued ==
    ASSUME TypeOK, RingInv, NEW p \in Publication, Payload(p) => Covered(Version(p)),
           Enqueue(p), expected' = expected
    PROVE  RingInv'
<1>0. Len(priority) \in Nat /\ Len(normal) \in Nat
  BY DEF TypeOK
<1>1. CASE /\ normal' = normal /\ Len(priority') = Len(priority) + 1
           /\ \A i \in 1..Len(priority) : priority'[i] = priority[i]
           /\ priority'[Len(priority) + 1] = p
  <2>1. ASSUME NEW i \in 1..Len(priority'), Payload(priority'[i]),
               Version(priority'[i]) \notin expected
        PROVE  ExpectWithin(i - 1, Version(priority[i]))'
    <3>1. CASE i \in 1..Len(priority)
      <4>1. ExpectWithin(i - 1, Version(priority[i]))
        BY <1>1, <2>1, <3>1 DEF RingInv
      <4>2. \A j \in 1..i - 1 : priority'[j] = priority[j]
        BY <1>0, <1>1, <3>1
      <4>. QED  BY <1>1, <3>1, <4>1, <4>2 DEF ExpectWithin
    <3>2. CASE i = Len(priority) + 1
      <4>1. ExpectWithin(Len(priority), Version(p))
        BY <1>1, <2>1, <3>2 DEF Covered
      <4>2. i - 1 = Len(priority)
        BY <1>0, <3>2
      <4>. QED  BY <1>1, <3>2, <4>1, <4>2 DEF ExpectWithin
    <3>. QED  BY <1>0, <1>1, <3>1, <3>2
  <2>2. ASSUME NEW i \in 1..Len(normal'), Payload(normal'[i])
        PROVE  Covered(Version(normal[i]))'
    BY <1>1, <2>2, CoveredEnqueued DEF RingInv
  <2>. QED  BY <2>1, <2>2 DEF RingInv
<1>2. CASE /\ priority' = priority /\ Len(normal') = Len(normal) + 1
           /\ \A i \in 1..Len(normal) : normal'[i] = normal[i]
           /\ normal'[Len(normal) + 1] = p
  <2>1. ASSUME NEW i \in 1..Len(priority'), Payload(priority'[i]),
               Version(priority'[i]) \notin expected
        PROVE  ExpectWithin(i - 1, Version(priority[i]))'
    BY <1>2, <2>1 DEF RingInv, ExpectWithin
  <2>2. ASSUME NEW i \in 1..Len(normal'), Payload(normal'[i])
        PROVE  Covered(Version(normal[i]))'
    <3>1. CASE i \in 1..Len(normal)
      <4>1. Covered(Version(normal[i]))
        BY <1>2, <2>2, <3>1 DEF RingInv
      <4>. QED  BY <1>2, <3>1, <4>1, CoveredEnqueued
    <3>2. CASE i = Len(normal) + 1
      BY <1>2, <2>2, <3>2, CoveredEnqueued
    <3>. QED  BY <1>0, <1>2, <3>1, <3>2
  <2>. QED  BY <2>1, <2>2 DEF RingInv
<1>. QED  BY <1>1, <1>2, Enqueued

LEMMA CopyEnqueued ==
    ASSUME TypeOK, CopyInv, NEW p \in Publication, Enqueue(p), pending' = None,
           p.kind = "Collision" =>
               /\ \A i \in 1..Len(priority) : priority[i].kind = "Collision" =>
                      Version(priority[i]) # Version(p)
               /\ \A i \in 1..Len(normal) : normal[i].kind = "Collision" =>
                      Version(normal[i]) # Version(p)
    PROVE  CopyInv'
<1>0. Len(priority) \in Nat /\ Len(normal) \in Nat
  BY DEF TypeOK
<1>1. CASE /\ normal' = normal /\ Len(priority') = Len(priority) + 1
           /\ \A i \in 1..Len(priority) : priority'[i] = priority[i]
           /\ priority'[Len(priority) + 1] = p
  <2>1. \A i \in 1..Len(priority') : i \in 1..Len(priority) \/ i = Len(priority) + 1
    BY <1>0, <1>1
  <2>2. ASSUME NEW i \in 1..Len(priority'), NEW j \in 1..Len(priority'),
               priority'[i].kind = "Collision", priority'[j].kind = "Collision",
               Version(priority[i])' = Version(priority[j])'
        PROVE  i = j
    BY <1>1, <2>1, <2>2 DEF CopyInv, Version
  <2>. QED  BY <1>1, <2>2 DEF CopyInv
<1>2. CASE /\ priority' = priority /\ p.kind # "Collision" /\ Len(normal') = Len(normal) + 1
           /\ \A i \in 1..Len(normal) : normal'[i] = normal[i]
           /\ normal'[Len(normal) + 1] = p
  <2>1. \A i \in 1..Len(normal') : i \in 1..Len(normal) \/ i = Len(normal) + 1
    BY <1>0, <1>2
  <2>2. ASSUME NEW i \in 1..Len(normal'), NEW j \in 1..Len(normal'),
               normal'[i].kind = "Collision", normal'[j].kind = "Collision",
               Version(normal[i])' = Version(normal[j])'
        PROVE  i = j
    BY <1>2, <2>1, <2>2 DEF CopyInv, Version
  <2>. QED  BY <1>2, <2>2 DEF CopyInv
<1>. QED  BY <1>1, <1>2, Enqueued

-----------------------------------------------------------------------------
(* The steps.                                                              *)

\* Types of everything but the rings and what the frame thread has.
RestOK ==
    /\ announced \in [Keys -> Generations]
    /\ pc \in {"Running", "Checked", "Blocked", "Woken", "Returned", "Destroyed"}
    /\ pending \in Publication \cup {None}
    /\ (pending # None) = (pc \in {"Checked", "Blocked", "Woken"})
    /\ stop \in {"No", "Stored", "Notified"}
    /\ pc \in {"Returned", "Destroyed"} => stop # "No"

\* Steps that leave the rings, what was announced and the application alone.
LEMMA Quiet ==
    ASSUME IInv, UNCHANGED <<priority, normal, announced, pending, expected, orphans, deferred>>,
           FrameOK', RestOK', stop' = "No" => stop = "No"
    PROVE  IInv'
<1>1. \A v : Covered(v)' <=> Covered(v)
  BY DEF Covered, ExpectWithin
<1>2. RingInv'
  BY <1>1 DEF IInv, RingInv, ExpectWithin, Covered
<1>3. AnnouncedInv' /\ DeferredInv' /\ CopyInv' /\ PayloadAfterExpect'
  BY <1>1 DEF IInv, AnnouncedInv, DeferredInv, CopyInv, PayloadAfterExpect, Payload, Version,
              Covered, ExpectWithin
<1>4. TypeOK' /\ PlaceInv'
  BY DEF IInv, TypeOK, PlaceInv, FrameOK, RestOK
<1>. QED  BY <1>2, <1>3, <1>4 DEF IInv

\* Steps in which the frame thread looks for a publication.
LEMMA FrameStep ==
    ASSUME IInv, PhysicsTake \/ DrainNext \/ DrainOvertake
    PROVE  IInv'
<1>0. TypeOK /\ RingInv /\ AnnouncedInv /\ DeferredInv /\ PlaceInv /\ CopyInv /\ orphans = {}
  BY DEF IInv, PayloadAfterExpect
<1>1. /\ Outcome /\ orphans' = orphans /\ DeferredInv' /\ FrameOK'
      /\ UNCHANGED <<announced, pending, stop>> /\ pc' \in {pc, Notified}
  BY <1>0, FrameTakes
<1>2. RestOK'
  BY <1>0, <1>1 DEF TypeOK, PlaceInv, RestOK, Notified
<1>3. CASE UNCHANGED <<priority, normal, expected>>
  <2>1. \A v : Covered(v)' <=> Covered(v)
    BY <1>3 DEF Covered, ExpectWithin
  <2>2. RingInv' /\ AnnouncedInv' /\ CopyInv'
    BY <1>0, <1>1, <1>3, <2>1
    DEF RingInv, AnnouncedInv, CopyInv, Payload, Version, ExpectWithin, Covered
  <2>3. TypeOK' /\ PlaceInv'
    BY <1>0, <1>1, <1>2, <1>3 DEF TypeOK, PlaceInv, FrameOK, RestOK
  <2>. QED  BY <1>0, <1>1, <2>2, <2>3 DEF IInv, PayloadAfterExpect
<1>4. ASSUME NEW p, Leaves(p), expected' = Told(p) PROVE IInv'
  <2>1. RingInv' /\ AnnouncedInv' /\ CopyInv'
    BY <1>0, <1>1, <1>4, RingLeaves, AnnouncedLeaves, CopyLeaves
  <2>2. /\ priority' \in Seq(Publication) /\ Len(priority') <= PriorityCapacity
        /\ normal' \in Seq(Publication) /\ Len(normal') <= NormalCapacity
    <3>1. /\ priority \in Seq(Publication) /\ Len(priority) <= PriorityCapacity
          /\ normal \in Seq(Publication) /\ Len(normal) <= NormalCapacity
          /\ PriorityCapacity \in Nat /\ NormalCapacity \in Nat
      BY <1>0, PublicationAssumption DEF TypeOK
    <3>2. ASSUME NEW i \in 1..Len(priority), priority' = RemoveAt(priority, i)
          PROVE  priority' \in Seq(Publication) /\ Len(priority') = Len(priority) - 1
      BY <3>1, <3>2, RemoveAtElements
    <3>3. ASSUME NEW i \in 1..Len(normal), normal' = RemoveAt(normal, i)
          PROVE  normal' \in Seq(Publication) /\ Len(normal') = Len(normal) - 1
      BY <3>1, <3>3, RemoveAtElements
    <3>. QED  BY <1>4, <3>1, <3>2, <3>3 DEF Leaves
  <2>3. expected' \subseteq Keys \X Generations
    <3>1. p \in Publication
      BY <1>0, <1>4, LeavesExpected
    <3>2. Version(p) \in Keys \X Generations
      BY <3>1, Fields
    <3>. QED  BY <1>0, <1>4, <3>2 DEF TypeOK, Told
  <2>4. TypeOK' /\ PlaceInv'
    BY <1>0, <1>1, <1>2, <2>2, <2>3 DEF TypeOK, PlaceInv, FrameOK, RestOK
  <2>. QED  BY <1>0, <1>1, <2>1, <2>4 DEF IInv, PayloadAfterExpect
<1>. QED  BY <1>1, <1>3, <1>4 DEF Outcome

\* The types of the rings after a publication was put into one with room.
LEMMA RoomKept ==
    ASSUME TypeOK, NEW p \in Publication, Room(p), Enqueue(p)
    PROVE  /\ priority' \in Seq(Publication) /\ Len(priority') <= PriorityCapacity
           /\ normal' \in Seq(Publication) /\ Len(normal') <= NormalCapacity
<1>1. /\ priority \in Seq(Publication) /\ Len(priority) <= PriorityCapacity
      /\ normal \in Seq(Publication) /\ Len(normal) <= NormalCapacity
      /\ PriorityCapacity \in Nat /\ NormalCapacity \in Nat
      /\ Len(priority) \in Nat /\ Len(normal) \in Nat
  BY PublicationAssumption DEF TypeOK
<1>. QED  BY <1>1, Enqueued

LEMMA PushStep ==
    ASSUME IInv, Push
    PROVE  IInv'
<1>0. TypeOK /\ RingInv /\ AnnouncedInv /\ DeferredInv /\ PlaceInv /\ CopyInv /\ orphans = {}
  BY DEF IInv, PayloadAfterExpect
<1>1. PICK p \in Offers :
        /\ ~AlreadyQueued(p)
        /\ announced' = IF p.kind = "Expect"
                        THEN [announced EXCEPT ![p.key] = p.generation] ELSE announced
        /\ \/ Room(p) /\ Enqueue(p) /\ UNCHANGED <<pc, pending>>
           \/ /\ ~Room(p)
              /\ pc' = "Checked" /\ pending' = p
              /\ UNCHANGED <<priority, normal>>
  BY DEF Push
<1>2. /\ pc = "Running" /\ stop = "No" /\ pending = None
      /\ UNCHANGED <<stop, frame, drained, renders, deferred, expected, orphans>>
  BY <1>0 DEF Push, TypeOK
<1>3. /\ p \in Publication /\ p # None
      /\ p.key \in Keys /\ p.generation \in Generations
      /\ Payload(p) => announced[p.key] # 0 /\ p.generation = announced[p.key]
  BY <1>0, <1>1, OfferFacts, Fields
<1>4. announced' \in [Keys -> Generations]
  BY <1>0, <1>1, <1>3 DEF TypeOK
<1>5. Payload(p) => Covered(Version(p))
  BY <1>0, <1>2, <1>3 DEF AnnouncedInv, Version
<1>6. p.kind = "Collision" =>
          /\ \A i \in 1..Len(priority) : priority[i].kind = "Collision" =>
                 Version(priority[i]) # Version(p)
          /\ \A i \in 1..Len(normal) : normal[i].kind = "Collision" =>
                 Version(normal[i]) # Version(p)
  <2>1. priority \in Seq(Publication) /\ normal \in Seq(Publication)
    BY <1>0 DEF TypeOK
  <2>2. /\ \A i \in 1..Len(priority) : priority[i] \in ToSet(priority)
        /\ \A i \in 1..Len(normal) : normal[i] \in ToSet(normal)
    BY <2>1, ToSetElements
  <2>. QED  BY <1>1, <2>2 DEF AlreadyQueued
<1>7. DeferredInv' /\ PayloadAfterExpect'
  BY <1>0, <1>2 DEF DeferredInv, PayloadAfterExpect, Payload, Version
<1>8. \A k \in Keys : announced'[k] # 0 =>
          \/ announced[k] # 0 /\ announced'[k] = announced[k]
          \/ p.kind = "Expect" /\ Version(p) = <<k, announced'[k]>>
  BY <1>0, <1>1, <1>3 DEF TypeOK, Version
<1>9. CASE Room(p) /\ Enqueue(p) /\ UNCHANGED <<pc, pending>>
  <2>1. RingInv'
    BY <1>0, <1>2, <1>3, <1>5, <1>9, RingEnqueued
  <2>2. CopyInv'
    BY <1>0, <1>2, <1>3, <1>6, <1>9, CopyEnqueued
  <2>3. /\ \A v : Covered(v) => Covered(v)'
        /\ p.kind = "Expect" => Covered(Version(p))'
    BY <1>0, <1>2, <1>3, <1>9, CoveredEnqueued
  <2>4. AnnouncedInv'
    <3>1. ASSUME NEW k \in Keys, announced'[k] # 0 PROVE Covered(<<k, announced[k]>>)'
      <4>1. CASE announced[k] # 0 /\ announced'[k] = announced[k]
        <5>1. Covered(<<k, announced[k]>>)
          BY <1>0, <1>2, <4>1 DEF AnnouncedInv
        <5>. QED  BY <2>3, <4>1, <5>1
      <4>2. CASE p.kind = "Expect" /\ Version(p) = <<k, announced'[k]>>
        BY <2>3, <4>2 DEF Covered, ExpectWithin
      <4>. QED  BY <1>8, <3>1, <4>1, <4>2
    <3>. QED  BY <1>2, <1>9, <3>1 DEF AnnouncedInv
  <2>5. TypeOK' /\ PlaceInv'
    BY <1>0, <1>2, <1>3, <1>4, <1>9, RoomKept DEF TypeOK, PlaceInv
  <2>. QED  BY <1>7, <2>1, <2>2, <2>4, <2>5 DEF IInv
<1>10. CASE pc' = "Checked" /\ pending' = p /\ UNCHANGED <<priority, normal>>
  <2>1. \A v : Covered(v)' <=> Covered(v)
    BY <1>2, <1>10 DEF Covered, ExpectWithin
  <2>2. RingInv'
    BY <1>0, <1>2, <1>10, <2>1 DEF RingInv, ExpectWithin, Covered
  <2>3. CopyInv'
    BY <1>0, <1>6, <1>10 DEF CopyInv, Version
  <2>4. AnnouncedInv'
    <3>1. ASSUME NEW k \in Keys, announced'[k] # 0
          PROVE  \/ Covered(<<k, announced[k]>>)'
                 \/ p.kind = "Expect" /\ Version(p) = <<k, announced'[k]>>
      <4>1. CASE announced[k] # 0 /\ announced'[k] = announced[k]
        <5>1. Covered(<<k, announced[k]>>)
          BY <1>0, <1>2, <4>1 DEF AnnouncedInv
        <5>. QED  BY <2>1, <4>1, <5>1
      <4>. QED  BY <1>8, <3>1, <4>1
    <3>2. Payload(p) => Covered(Version(p))'
      BY <1>5, <2>1
    <3>. QED  BY <1>3, <1>10, <3>1, <3>2 DEF AnnouncedInv
  <2>5. TypeOK' /\ PlaceInv'
    BY <1>0, <1>2, <1>3, <1>4, <1>10 DEF TypeOK, PlaceInv
  <2>. QED  BY <1>7, <2>2, <2>3, <2>4, <2>5 DEF IInv
<1>. QED  BY <1>1, <1>9, <1>10

\* The woken push puts its publication into the ring that has room now.
LEMMA RetryStep ==
    ASSUME IInv, Retry
    PROVE  IInv'
<1>0. TypeOK /\ RingInv /\ AnnouncedInv /\ DeferredInv /\ PlaceInv /\ CopyInv /\ orphans = {}
  BY DEF IInv, PayloadAfterExpect
<1>1. /\ pc = "Woken" /\ pending # None /\ pending \in Publication
      /\ UNCHANGED <<announced, stop, frame, drained, renders, deferred, expected, orphans>>
  BY <1>0 DEF Retry, TypeOK
<1>2. CASE stop # "No" /\ pc' = "Running" /\ pending' = None /\ UNCHANGED <<priority, normal>>
  <2>1. \A v : Covered(v)' <=> Covered(v)
    BY <1>1, <1>2 DEF Covered, ExpectWithin
  <2>2. RingInv' /\ CopyInv' /\ AnnouncedInv' /\ DeferredInv' /\ PayloadAfterExpect'
    BY <1>0, <1>1, <1>2, <2>1
    DEF RingInv, CopyInv, AnnouncedInv, DeferredInv, PayloadAfterExpect, ExpectWithin,
        Covered, Payload, Version
  <2>3. TypeOK' /\ PlaceInv'
    BY <1>0, <1>1, <1>2 DEF TypeOK, PlaceInv
  <2>. QED  BY <2>2, <2>3 DEF IInv
<1>3. CASE /\ stop = "No" /\ Room(pending) /\ Enqueue(pending)
           /\ pc' = "Running" /\ pending' = None
  <2>1. PICK p \in Publication : p = pending
    BY <1>1
  <2>2. Room(p) /\ Enqueue(p)
    BY <1>3, <2>1
  <2>3. /\ \A v : Covered(v) => Covered(v)'
        /\ p.kind = "Expect" => Covered(Version(p))'
    BY <1>0, <1>1, <2>2, CoveredEnqueued
  <2>4. Payload(p) => Covered(Version(p))
    BY <1>0, <1>1, <1>3, <2>1 DEF AnnouncedInv
  <2>5. RingInv'
    BY <1>0, <1>1, <2>2, <2>4, RingEnqueued
  <2>6. CopyInv'
    <3>1. p.kind = "Collision" =>
              /\ \A i \in 1..Len(priority) : priority[i].kind = "Collision" =>
                     Version(priority[i]) # Version(p)
              /\ \A i \in 1..Len(normal) : normal[i].kind = "Collision" =>
                     Version(normal[i]) # Version(p)
      BY <1>0, <1>1, <2>1 DEF CopyInv
    <3>. QED  BY <1>0, <1>3, <2>2, <3>1, CopyEnqueued
  <2>7. AnnouncedInv'
    <3>1. ASSUME NEW k \in Keys, announced[k] # 0 PROVE Covered(<<k, announced[k]>>)'
      <4>1. CASE Covered(<<k, announced[k]>>)
        BY <1>1, <2>3, <4>1 DEF Covered, ExpectWithin
      <4>2. CASE p.kind = "Expect" /\ Version(p) = <<k, announced[k]>>
        <5>1. Covered(Version(p))'
          BY <2>3, <4>2
        <5>. QED  BY <1>1, <4>2, <5>1 DEF Covered, ExpectWithin
      <4>. QED  BY <1>0, <1>3, <2>1, <3>1, <4>1, <4>2 DEF AnnouncedInv
    <3>. QED  BY <1>1, <1>3, <3>1 DEF AnnouncedInv
  <2>8. DeferredInv' /\ PayloadAfterExpect'
    BY <1>0, <1>1 DEF DeferredInv, PayloadAfterExpect, Payload, Version
  <2>9. TypeOK' /\ PlaceInv'
    <3>1. /\ priority' \in Seq(Publication) /\ Len(priority') <= PriorityCapacity
          /\ normal' \in Seq(Publication) /\ Len(normal') <= NormalCapacity
      BY <1>0, <2>2, RoomKept
    <3>. QED  BY <1>0, <1>1, <1>3, <3>1 DEF TypeOK, PlaceInv
  <2>. QED  BY <2>5, <2>6, <2>7, <2>8, <2>9 DEF IInv
<1>4. CASE stop = "No" /\ pc' = "Checked" /\ UNCHANGED <<priority, normal, pending>>
  <2>1. FrameOK' /\ RestOK'
    BY <1>0, <1>1, <1>4 DEF TypeOK, PlaceInv, FrameOK, RestOK
  <2>. QED  BY <1>1, <1>4, <2>1, Quiet
<1>. QED  BY <1>2, <1>3, <1>4 DEF Retry

LEMMA DestroyStep ==
    ASSUME IInv, DestroyRuntime
    PROVE  IInv'
<1>0. TypeOK /\ DeferredInv /\ PlaceInv /\ orphans = {}
  BY DEF IInv, PayloadAfterExpect
<1>1. /\ priority' = <<>> /\ normal' = <<>> /\ Len(priority') = 0 /\ Len(normal') = 0
      /\ pc' = "Destroyed" /\ stop # "No" /\ pending = None
      /\ UNCHANGED <<announced, pending, stop, frame, drained, renders, deferred, expected,
                     orphans>>
  BY <1>0 DEF DestroyRuntime, PlaceInv, TypeOK
<1>2. RingInv' /\ CopyInv' /\ AnnouncedInv'
  BY <1>1 DEF RingInv, CopyInv, AnnouncedInv
<1>3. DeferredInv' /\ PayloadAfterExpect'
  BY <1>0, <1>1 DEF DeferredInv, PayloadAfterExpect, Payload, Version
<1>4. TypeOK' /\ PlaceInv'
  <2>1. /\ priority' \in Seq(Publication) /\ normal' \in Seq(Publication)
        /\ Len(priority') <= PriorityCapacity /\ Len(normal') <= NormalCapacity
    BY <1>1, PublicationAssumption
  <2>. QED  BY <1>0, <1>1, <2>1 DEF TypeOK, PlaceInv
<1>. QED  BY <1>2, <1>3, <1>4 DEF IInv

LEMMA InitIInv == Init => IInv
<1>. SUFFICES ASSUME Init PROVE IInv
  OBVIOUS
<1>1. Len(priority) = 0 /\ Len(normal) = 0
  BY DEF Init
<1>2. TypeOK
  <2>1. priority \in Seq(Publication) /\ normal \in Seq(Publication)
    BY DEF Init
  <2>2. announced \in [Keys -> Generations]
    BY PublicationAssumption DEF Init, Generations
  <2>3. 0 \in 0..MaxDrain /\ 0 \in 0..RenderBudget
        /\ 0 <= PriorityCapacity /\ 0 <= NormalCapacity
    BY PublicationAssumption
  <2>. QED  BY <1>1, <2>1, <2>2, <2>3 DEF Init, TypeOK
<1>3. RingInv /\ CopyInv
  BY <1>1 DEF Init, RingInv, CopyInv
<1>4. AnnouncedInv /\ DeferredInv /\ PlaceInv /\ PayloadAfterExpect
  BY DEF Init, AnnouncedInv, DeferredInv, PlaceInv, PayloadAfterExpect
<1>. QED  BY <1>2, <1>3, <1>4 DEF IInv

\* The inductive invariant holds in every reachable state.
THEOREM Inductive == Spec => []IInv
<1>1. ASSUME IInv, [Next]_vars PROVE IInv'
  <2>0. TypeOK /\ PlaceInv
    BY <1>1 DEF IInv
  <2>1. CASE Push
    BY <1>1, <2>1, PushStep
  <2>2. CASE Block
    BY <1>1, <2>0, <2>2, Quiet DEF Block, TypeOK, PlaceInv, FrameOK, RestOK
  <2>3. CASE SpuriousWakeup
    BY <1>1, <2>0, <2>3, Quiet DEF SpuriousWakeup, TypeOK, PlaceInv, FrameOK, RestOK
  <2>4. CASE Retry
    BY <1>1, <2>4, RetryStep
  <2>5. CASE RunReturns
    BY <1>1, <2>0, <2>5, Quiet DEF RunReturns, TypeOK, PlaceInv, FrameOK, RestOK
  <2>6. CASE DestroyRuntime
    BY <1>1, <2>6, DestroyStep
  <2>7. CASE PhysicsTake \/ DrainNext \/ DrainOvertake
    BY <1>1, <2>7, FrameStep
  <2>8. CASE BeginFrame
    BY <1>1, <2>0, <2>8, Quiet DEF BeginFrame, TypeOK, PlaceInv, FrameOK, RestOK
  <2>9. CASE EndFrame
    BY <1>1, <2>0, <2>9, PublicationAssumption, Quiet
    DEF EndFrame, TypeOK, PlaceInv, FrameOK, RestOK
  <2>10. CASE RequestStop
    BY <1>1, <2>0, <2>10, Quiet DEF RequestStop, TypeOK, PlaceInv, FrameOK, RestOK
  <2>11. CASE NotifyStop
    BY <1>1, <2>0, <2>11, Quiet DEF NotifyStop, Notified, TypeOK, PlaceInv, FrameOK, RestOK
  <2>12. CASE Joined
    BY <1>1, <2>0, <2>12, Quiet DEF Joined, TypeOK, PlaceInv, FrameOK, RestOK
  <2>13. CASE UNCHANGED vars
    BY <1>1, <2>0, <2>13, Quiet DEF vars, TypeOK, PlaceInv, FrameOK, RestOK
  <2>. QED
    BY <1>1, <2>1, <2>2, <2>3, <2>4, <2>5, <2>6, <2>7, <2>8, <2>9, <2>10, <2>11, <2>12, <2>13
    DEF Next
<1>. QED  BY InitIInv, <1>1, PTL DEF Spec

\* The rings keep within their slots and every variable keeps its type.
THEOREM TypeCorrect == Spec => []TypeOK
<1>1. IInv => TypeOK
  BY DEF IInv
<1>. QED  BY Inductive, <1>1, PTL

\* No payload reaches the application before the ExpectChunk of its generation.
THEOREM PayloadsFollowExpect == Spec => []PayloadAfterExpect
<1>1. IInv => PayloadAfterExpect
  BY DEF IInv
<1>. QED  BY Inductive, <1>1, PTL

\* No chunk generation has two collision payloads in the rings.
THEOREM OneCopyQueued == Spec => []OneCollisionQueued
<1>1. ASSUME IInv PROVE OneCollisionQueued
  <2>1. DOMAIN priority = 1..Len(priority) /\ DOMAIN normal = 1..Len(normal)
    BY <1>1 DEF IInv, TypeOK
  <2>. QED  BY <1>1, <2>1 DEF IInv, CopyInv, OneCollisionQueued
<1>. QED  BY Inductive, <1>1, PTL
=============================================================================
