------------------------- MODULE DesiredSetsProofs -------------------------
(***************************************************************************)
(* Theorems about the desired-set runtime, for every set of chunk keys and *)
(* every capacity: its tables name the same versions, no chunk the viewers *)
(* see is older than the last edit that touched it, a collision shape      *)
(* counts for a revision only after physics answered for that revision,    *)
(* and no delta, edit or repair overfills a table.                         *)
(*                                                                         *)
(* That the tables agree is inductive together with their types; edits     *)
(* reach the chunks because every version is requested at the committed    *)
(* revision, which no edit is ahead of.  Neither needs a capacity.  The    *)
(* sizes of the tables are a second invariant, built on the first: how     *)
(* many records a delta leaves follows from which tables agree.            *)
(***************************************************************************)
EXTENDS DesiredSets, SequenceLemmas, FiniteSetTheorems

Statuses == {"Absent", "Sampling", "Meshing", "Ready", "Failed"}

ChunkType == [status : Statuses, generation : Nat, world : Nat]

ApplicationType == [generation : Nat, world : Nat, roles : SUBSET Roles,
                    shape : Nat \cup {NoShape}, staged : BOOLEAN, refresh : BOOLEAN]

\* The tables the first invariant speaks of, without their sizes.
Typed ==
    /\ desired \in [Keys -> SUBSET Roles]
    /\ chunk \in [Keys -> ChunkType]
    /\ app \in [Keys -> ApplicationType]
    /\ dormant \in Seq(Keys \X Nat)
    /\ issued \in Nat /\ world \in Nat
    /\ touched \in [Keys -> Nat]
    /\ remeshes \subseteq Keys

\* No edit is ahead of the committed world revision.
TouchedPast == \A k \in Keys : touched[k] <= world

Tables == Typed /\ RecordsAgree /\ TouchedPast /\ EditsReachChunks

SentType == sent \in [Keys -> [generation : Nat, world : Nat]]

IInv == Tables /\ SentType

-----------------------------------------------------------------------------
(* Numbers and places.                                                     *)

\* The versions requested for a set of chunks get natural numbers.
LEMMA NumbersType ==
    ASSUME issued \in Nat, NEW S \in SUBSET Keys, NEW number \in Numberings(S)
    PROVE  /\ Cardinality(S) \in Nat
           /\ \A k \in S : number[k] \in Nat \ {0}
<1>1. IsFiniteSet(S)
  BY DesiredSetsAssumption, FS_Subset
<1>2. Cardinality(S) \in Nat
  BY <1>1, FS_CardinalityType
<1>3. number \in [S -> (issued + 1)..(issued + Cardinality(S))]
  BY DEF Numberings, Bijection, Injection
<1>. QED  BY <1>2, <1>3

\* The order of the places that stay meets every one of them.
LEMMA AscendingMeetsAll ==
    ASSUME NEW n \in Nat, NEW S \in SUBSET (1..n), NEW place \in Ascending(S)
    PROVE  /\ Cardinality(S) \in Nat
           /\ \A m \in 1..Cardinality(S) : place[m] \in S
           /\ \A i \in S : \E m \in 1..Cardinality(S) : place[m] = i
<1>1. IsFiniteSet(S) /\ Cardinality(S) \in Nat
  <2>1. n \in Int /\ 1 \in Int
    OBVIOUS
  <2>2. IsFiniteSet(1..n)
    BY <2>1, FS_Interval
  <2>. QED  BY <2>2, FS_Subset, FS_CardinalityType
<1>2. PICK c \in Nat : c = Cardinality(S)
  BY <1>1
<1>3. /\ place \in [1..c -> S]
      /\ \A a, b \in 1..c : a < b => place[a] < place[b]
  BY <1>2 DEF Ascending
<1>4. \A a, b \in 1..c : place[a] = place[b] => a = b
  <2>1. \A a \in 1..c : place[a] \in Nat
    <3>1. S \subseteq Nat
      OBVIOUS
    <3>2. \A a \in 1..c : place[a] \in S
      BY <1>3
    <3>. QED  BY <3>1, <3>2
  <2>. QED  BY <1>3, <2>1
<1>5. place \in Injection(1..c, S)
  BY <1>3, <1>4 DEF Injection, IsInjective
<1>6. Cardinality(1..c) = c
  <2>1. c \in Int /\ 1 \in Int
    OBVIOUS
  <2>2. Cardinality(1..c) = IF 1 > c THEN 0 ELSE c - 1 + 1
    BY <2>1, FS_Interval
  <2>. QED  BY <2>2
<1>7. place \in Surjection(1..c, S)
  BY <1>1, <1>2, <1>5, <1>6, FS_Injection
<1>. QED  BY <1>1, <1>2, <1>3, <1>7 DEF Surjection

\* A set listed in any order: a sequence of all its elements.
LEMMA ListedElements ==
    ASSUME NEW T, NEW R \in SUBSET T, IsFiniteSet(R), NEW order \in SetToSeqs(R)
    PROVE  /\ order \in Seq(T)
           /\ \A i \in 1..Len(order) : order[i] \in R
           /\ \A e \in R : \E i \in 1..Len(order) : order[i] = e
<1>1. PICK c \in Nat : c = Cardinality(R)
  BY FS_CardinalityType
<1>2. /\ order \in [1..c -> R]
      /\ \A i, j \in 1..c : i # j => order[i] # order[j]
  BY <1>1 DEF SetToSeqs
<1>3. order \in Seq(R) /\ Len(order) = c
  BY <1>2
<1>4. order \in Injection(1..c, R)
  BY <1>2 DEF Injection, IsInjective
<1>5. Cardinality(1..c) = c
  <2>1. c \in Int /\ 1 \in Int
    OBVIOUS
  <2>2. Cardinality(1..c) = IF 1 > c THEN 0 ELSE c - 1 + 1
    BY <2>1, FS_Interval
  <2>. QED  BY <2>2
<1>6. order \in Surjection(1..c, R)
  BY <1>1, <1>4, <1>5, FS_Injection
<1>. QED  BY <1>2, <1>3, <1>6 DEF Surjection

\* What the dormant list holds after a delta: what stays, and what it retains.
LEMMA DormantElements ==
    ASSUME NEW T, NEW list \in Seq(T), NEW S \in SUBSET DOMAIN list,
           NEW place \in Ascending(S), NEW R \in SUBSET T, IsFiniteSet(R),
           NEW order \in SetToSeqs(R), NEW kept \in Seq(T), Len(kept) = Cardinality(S),
           \A i \in 1..Cardinality(S) : kept[i] = list[place[i]]
    PROVE  /\ kept \o order \in Seq(T)
           /\ \A e : e \in Range(kept \o order) <=> e \in R \/ \E i \in S : list[i] = e
<1>1. PICK n \in Nat : n = Len(list)
  OBVIOUS
<1>2. S \in SUBSET (1..n) /\ \A i \in 1..n : list[i] \in T
  BY <1>1
<1>3. /\ Cardinality(S) \in Nat
      /\ \A m \in 1..Cardinality(S) : place[m] \in S
      /\ \A i \in S : \E m \in 1..Cardinality(S) : place[m] = i
  BY <1>2, AscendingMeetsAll
<1>4. PICK c \in Nat :
          /\ c = Cardinality(S)
          /\ \A m \in 1..c : place[m] \in S
          /\ \A i \in S : \E m \in 1..c : place[m] = i
  BY <1>3
<1>7. /\ order \in Seq(T)
      /\ \A i \in 1..Len(order) : order[i] \in R
      /\ \A e \in R : \E i \in 1..Len(order) : order[i] = e
  BY ListedElements
<1>8. kept \o order \in Seq(T)
  BY <1>7, ConcatProperties
<1>9. Range(kept \o order) = Range(kept) \cup Range(order)
  BY <1>7, RangeConcatenation
<1>10. \A e : e \in Range(order) <=> e \in R
  <2>1. Range(order) = {order[i] : i \in 1..Len(order)}
    BY <1>7, RangeEquality
  <2>. QED  BY <1>7, <2>1
<1>11. Range(kept) = {kept[i] : i \in 1..c}
  BY <1>4, RangeEquality
<1>12. \A e : e \in Range(kept) <=> \E i \in S : list[i] = e
  <2>1. \A i \in 1..c : kept[i] = list[place[i]]
    BY <1>4
  <2>2. ASSUME NEW i \in S PROVE list[i] \in Range(kept)
    <3>1. PICK m \in 1..c : place[m] = i
      BY <1>4
    <3>2. kept[m] = list[i]
      BY <2>1, <3>1
    <3>. QED  BY <1>11, <3>2
  <2>3. ASSUME NEW m \in 1..c PROVE \E i \in S : kept[m] = list[i]
    <3>1. place[m] \in S /\ kept[m] = list[place[m]]
      BY <1>4, <2>1
    <3>. QED  BY <3>1
  <2>. QED  BY <1>11, <2>2, <2>3
<1>. QED  BY <1>8, <1>9, <1>10, <1>12, Zenon


-----------------------------------------------------------------------------
(* Records and expectations.                                               *)

\* What RecordsAgree says of one chunk.
Agrees(k) ==
    /\ desired[k] # {} =>
          /\ chunk[k].status # "Absent" /\ k \notin DormantKeys
          /\ app[k].generation = chunk[k].generation /\ app[k].world = chunk[k].world
          /\ desired[k] \subseteq app[k].roles
          /\ "collision" \in app[k].roles => "collision" \in desired[k]
    /\ desired[k] = {} => app[k].generation = 0
    /\ desired[k] = {} /\ chunk[k].status # "Absent" =>
          chunk[k].status = "Ready" /\ <<k, chunk[k].generation>> \in Range(dormant)
    /\ k \in DormantKeys => chunk[k].status # "Absent"

LEMMA AgreesAll == RecordsAgree <=> \A k \in Keys : Agrees(k)
BY DEF RecordsAgree, Agrees, Recorded, Expected

\* The fields of a new record.
LEMMA VersionFields ==
    ASSUME NEW generation, NEW revision
    PROVE  /\ Version(generation, revision).status = "Sampling"
           /\ Version(generation, revision).generation = generation
           /\ Version(generation, revision).world = revision
           /\ generation \in Nat /\ revision \in Nat =>
                 Version(generation, revision) \in ChunkType
BY DEF Version, ChunkType, Statuses

\* A step that keeps which chunks are wanted and dormant, and the versions of
\* their records and expectations, keeps the tables agreeing.
LEMMA SameVersions ==
    ASSUME Typed, RecordsAgree, UNCHANGED <<desired, dormant>>,
           \A k \in Keys :
              /\ chunk'[k].status = "Absent" <=> chunk[k].status = "Absent"
              /\ desired[k] = {} => chunk'[k].status = chunk[k].status
              /\ chunk'[k].generation = chunk[k].generation
              /\ chunk'[k].world = chunk[k].world
              /\ app'[k].generation = app[k].generation
              /\ app'[k].world = app[k].world /\ app'[k].roles = app[k].roles
    PROVE  RecordsAgree'
<1>1. DormantKeys' = DormantKeys
  BY DEF DormantKeys
<1>2. ASSUME NEW k \in Keys PROVE Agrees(k)'
  <2>1. Agrees(k)
    BY AgreesAll
  <2>. QED  BY <1>1, <2>1 DEF Agrees
<1>3. (RecordsAgree <=> \A k \in Keys : Agrees(k))'
  BY DEF RecordsAgree, Agrees, Recorded, Expected
<1>. QED  BY <1>2, <1>3

\* New versions for chunks the viewers want, at some revision.
LEMMA Regenerated ==
    ASSUME Typed, RecordsAgree, NEW K \in SUBSET Keys, \A k \in K : desired[k] # {},
           NEW revision \in Nat, NEW staged, Regenerate(K, revision, staged),
           UNCHANGED <<desired, dormant>>
    PROVE  /\ issued' \in Nat
           /\ chunk' \in [Keys -> ChunkType] /\ app' \in [Keys -> ApplicationType]
           /\ RecordsAgree'
           /\ \A k \in Keys :
                 /\ chunk'[k].world = IF k \in K THEN revision ELSE chunk[k].world
                 /\ app'[k].shape \in {NoShape, app[k].shape}
<1>1. PICK number \in Numberings(K) :
          /\ issued' = issued + Cardinality(K)
          /\ chunk' = [k \in Keys |-> IF k \in K THEN Version(number[k], revision) ELSE chunk[k]]
          /\ app' = [k \in Keys |->
                IF k \in K THEN Expectation(k, Version(number[k], revision), desired[k],
                                             k \in staged, k \in staged)
                ELSE app[k]]
  BY DEF Regenerate
<1>2. Cardinality(K) \in Nat /\ \A k \in K : number[k] \in Nat \ {0}
  BY NumbersType DEF Typed
<1>3. \A k \in Keys : k \notin K => chunk'[k] = chunk[k] /\ app'[k] = app[k]
  BY <1>1
<1>4. ASSUME NEW k \in K
      PROVE  /\ chunk'[k] \in ChunkType /\ chunk'[k].status = "Sampling"
             /\ chunk'[k].world = revision
             /\ app'[k] \in ApplicationType
             /\ app'[k].generation = chunk'[k].generation /\ app'[k].world = chunk'[k].world
             /\ app'[k].roles = desired[k] /\ app'[k].shape \in {NoShape, app[k].shape}
  <2>1. PICK version : version = Version(number[k], revision)
    OBVIOUS
  <2>2. version \in ChunkType /\ version.status = "Sampling" /\ version.world = revision
    BY <1>2, <2>1, VersionFields
  <2>3. chunk'[k] = version
    BY <1>1, <2>1
  <2>4. PICK e : e = app'[k]
    OBVIOUS
  <2>7. e = Expectation(k, version, desired[k], k \in staged, k \in staged)
    BY <1>1, <2>1, <2>4
  <2>5. desired[k] \in SUBSET Roles
    BY DEF Typed
  <2>6. /\ e \in ApplicationType
        /\ e.generation = version.generation /\ e.world = version.world
        /\ e.roles = desired[k] /\ e.shape \in {NoShape, app[k].shape}
    <3>1. app[k].shape \in Nat \cup {NoShape}
      BY DEF Typed, ApplicationType
    <3>2. version.generation \in Nat /\ version.world \in Nat
      BY <2>2 DEF ChunkType
    <3>. QED  BY <2>5, <2>7, <3>1, <3>2 DEF Expectation, ApplicationType
  <2>. QED  BY <2>2, <2>3, <2>4, <2>6
<1>5. issued' \in Nat
  BY <1>1, <1>2 DEF Typed
<1>6. chunk' \in [Keys -> ChunkType]
  <2>1. \A k \in Keys : chunk'[k] \in ChunkType
    BY <1>3, <1>4 DEF Typed
  <2>. QED  BY <1>1, <2>1
<1>7. app' \in [Keys -> ApplicationType]
  <2>1. \A k \in Keys : app'[k] \in ApplicationType
    BY <1>3, <1>4 DEF Typed
  <2>. QED  BY <1>1, <2>1
<1>8. RecordsAgree'
  <2>1. DormantKeys' = DormantKeys
    BY DEF DormantKeys
  <2>2. ASSUME NEW k \in Keys PROVE Agrees(k)'
    <3>1. Agrees(k)
      BY AgreesAll
    <3>2. CASE k \in K
      BY <1>4, <2>1, <3>1, <3>2 DEF Agrees
    <3>3. CASE k \notin K
      BY <1>3, <2>1, <3>1, <3>3 DEF Agrees
    <3>. QED  BY <3>2, <3>3
  <2>3. (RecordsAgree <=> \A k \in Keys : Agrees(k))'
    BY DEF RecordsAgree, Agrees, Recorded, Expected
  <2>. QED  BY <2>2, <2>3
<1>. QED  BY <1>3, <1>4, <1>5, <1>6, <1>7, <1>8

-----------------------------------------------------------------------------
(* A viewer event.                                                         *)

\* The chunks a delta tells apart.
LEMMA DeltaParts ==
    ASSUME Typed, RecordsAgree, NEW d \in Deltas
    PROVE  /\ d.roles \in [Keys -> SUBSET Roles]
           /\ \A k \in Keys : k \notin Added(d) \cup Removed(d) \cup Updated(d) =>
                 d.roles[k] = desired[k]
           /\ Fresh(d) \subseteq Added(d) /\ Reusable(d) \subseteq Added(d)
           /\ Remeshed(d) \subseteq Updated(d)
           /\ Reopenable(d) \subseteq CollisionOnly(d)
           /\ CollisionOnly(d) \subseteq Updated(d) \ Remeshed(d)
           /\ Evicted(d) \subseteq DormantKeys
           /\ \A k \in Evicted(d) : desired[k] = {} /\ k \notin Reusable(d)
           /\ \A k \in Evicted(d) : k \in Added(d) => k \in Fresh(d)
<1>1. d.roles \in [Keys -> SUBSET Roles]
  <2>1. d.roles \in [Keys -> Demands \cup {{}}]
    BY DEF Deltas
  <2>2. Demands \cup {{}} \subseteq SUBSET Roles
    BY DesiredSetsAssumption DEF Roles
  <2>. QED  BY <2>1, <2>2
<1>2. \A k \in Keys : k \notin Added(d) \cup Removed(d) \cup Updated(d) =>
          d.roles[k] = desired[k]
  BY <1>1 DEF Typed, Added, Removed, Updated
<1>3. Fresh(d) \subseteq Added(d) /\ Reusable(d) \subseteq Added(d)
  BY DEF Fresh, Reusable
<1>4. Remeshed(d) \subseteq Updated(d)
  BY DEF Remeshed, Gains
<1>5. Reopenable(d) \subseteq CollisionOnly(d)
  BY DEF Reopenable
<1>6. CollisionOnly(d) \subseteq Updated(d) \ Remeshed(d)
  BY DEF CollisionOnly, Remeshed, Gains
<1>7. /\ Crowded(d) \subseteq DormantKeys
      /\ \A k \in Crowded(d) : k \notin Added(d)
  BY DEF Crowded, DormantKeys
<1>8. /\ Outdated(d) \subseteq DormantKeys
      /\ \A k \in Outdated(d) : k \in Fresh(d)
  BY DEF Outdated, Fresh
<1>9. DormantKeys \subseteq Keys
  BY DEF DormantKeys, Typed
<1>10. \A k \in DormantKeys : desired[k] = {}
  BY <1>9, AgreesAll DEF Agrees
<1>. QED
  BY <1>1, <1>2, <1>3, <1>4, <1>5, <1>6, <1>7, <1>8, <1>10 DEF Evicted, Fresh

\* The chunks in the dormant list are those of its entries.
LEMMA DormantKeysAre ==
    \A k : k \in DormantKeys <=> \E e \in Range(dormant) : e[1] = k
BY DEF DormantKeys, Range

\* What a viewer event leaves of the tables the invariant speaks of.
Outcome(d, retained, number, reopened) ==
    /\ retained \subseteq Removed(d) /\ \A k \in retained : chunk[k].status = "Ready"
    /\ reopened \subseteq Reopenable(d)
    /\ desired' = d.roles
    /\ chunk' = VersionsAfter(d, Gone(d, retained), number, reopened)
    /\ app' = ApplicationAfter(d, chunk')
    /\ issued' = issued + Cardinality(Renewed(d))
    /\ remeshes' = remeshes \cup {k \in Reopenable(d) \ reopened : "mesh" \notin cached[k]}
    /\ Rested(d, retained)
    /\ UNCHANGED <<world, touched>>

LEMMA ViewerEventParts ==
    ASSUME NEW d \in Deltas, ViewerEvent(d)
    PROVE  \E retained \in Retainable(d), lent \in {{}, Outgoing(d)},
              number \in Numberings(Renewed(d)), reopened \in SUBSET Reopenable(d) :
              /\ Applied(d, retained, lent, number, reopened)
              /\ Outcome(d, retained, number, reopened)
<1>1. PICK retained \in Retainable(d) :
          /\ Rested(d, retained)
          /\ \E lent \in {{}, Outgoing(d)}, number \in Numberings(Renewed(d)),
                reopened \in Reopenings(d, Gone(d, retained)) :
                Applied(d, retained, lent, number, reopened)
  BY DEF ViewerEvent
<1>2. PICK lent \in {{}, Outgoing(d)}, number \in Numberings(Renewed(d)),
           reopened \in Reopenings(d, Gone(d, retained)) :
          Applied(d, retained, lent, number, reopened)
  BY <1>1
<1>3. retained \subseteq Removed(d) /\ \A k \in retained : chunk[k].status = "Ready"
  BY DEF Retainable, kSubset
<1>4. reopened \subseteq Reopenable(d)
  BY DEF Reopenings, kSubset
<1>5. /\ desired' = d.roles
      /\ chunk' = VersionsAfter(d, Gone(d, retained), number, reopened)
      /\ app' = ApplicationAfter(d, VersionsAfter(d, Gone(d, retained), number, reopened))
      /\ issued' = issued + Cardinality(Renewed(d))
      /\ remeshes' = remeshes \cup {k \in Reopenable(d) \ reopened : "mesh" \notin cached[k]}
  BY <1>2 DEF Applied
<1>6. UNCHANGED <<world, touched>>
  BY DEF ViewerEvent
<1>7. Outcome(d, retained, number, reopened)
  BY <1>1, <1>3, <1>4, <1>5, <1>6 DEF Outcome
<1>. QED  BY <1>2, <1>4, <1>7

LEMMA ViewerEventOutcome ==
    ASSUME NEW d \in Deltas, ViewerEvent(d)
    PROVE  \E retained \in SUBSET Removed(d), number \in Numberings(Renewed(d)),
              reopened \in SUBSET Reopenable(d) : Outcome(d, retained, number, reopened)
<1>1. \A retained \in Retainable(d) : retained \in SUBSET Removed(d)
  BY DEF Retainable, kSubset
<1>. QED  BY <1>1, ViewerEventParts

\* The records after a delta.
LEMMA RecordsAfter ==
    ASSUME Typed, RecordsAgree, NEW d \in Deltas, NEW retained \in SUBSET Removed(d),
           NEW number \in Numberings(Renewed(d)), NEW reopened \in SUBSET Reopenable(d),
           Outcome(d, retained, number, reopened), NEW k \in Keys
    PROVE  /\ chunk'[k] \in ChunkType
           /\ k \in Renewed(d) => chunk'[k].status = "Sampling" /\ chunk'[k].world = world
           /\ k \in Removed(d) => chunk'[k] = IF k \in retained THEN chunk[k] ELSE NoChunk
           /\ k \in Reusable(d) => chunk'[k] = chunk[k]
           /\ desired[k] # {} /\ d.roles[k] # {} /\ k \notin Remeshed(d) =>
                 /\ chunk'[k].generation = chunk[k].generation
                 /\ chunk'[k].world = chunk[k].world
                 /\ chunk'[k].status # "Absent"
           /\ desired[k] = {} /\ d.roles[k] = {} =>
                 chunk'[k] = IF k \in Evicted(d) THEN NoChunk ELSE chunk[k]
<1>1. chunk'[k] = IF k \in Renewed(d) THEN Version(number[k], world)
                  ELSE IF k \in reopened THEN [chunk[k] EXCEPT !.status = "Sampling"]
                  ELSE IF k \in Gone(d, retained) THEN NoChunk
                  ELSE chunk[k]
  BY DEF Outcome, VersionsAfter
<1>2. chunk[k] \in ChunkType
  BY DEF Typed
<1>3. NoChunk \in ChunkType
  BY DEF NoChunk, ChunkType, Statuses
<1>4. PICK again : again = [chunk[k] EXCEPT !.status = "Sampling"]
  OBVIOUS
<1>5. /\ again \in ChunkType /\ again.status = "Sampling"
      /\ again.generation = chunk[k].generation /\ again.world = chunk[k].world
  BY <1>2, <1>4 DEF ChunkType, Statuses
<1>6. PICK fresh : fresh = Version(number[k], world)
  OBVIOUS
<1>7. /\ fresh.status = "Sampling" /\ fresh.world = world
      /\ k \in Renewed(d) => fresh \in ChunkType
  <2>1. /\ fresh.status = "Sampling" /\ fresh.world = world
        /\ number[k] \in Nat /\ world \in Nat => fresh \in ChunkType
    BY <1>6, VersionFields
  <2>2. Renewed(d) \in SUBSET Keys
    BY DEF Renewed, Fresh, Added, Remeshed, Gains, Updated
  <2>3. k \in Renewed(d) => number[k] \in Nat
    BY <2>2, NumbersType DEF Typed
  <2>. QED  BY <2>1, <2>3 DEF Typed
<1>8. /\ k \in Removed(d) => desired[k] # {} /\ d.roles[k] = {}
      /\ k \in Added(d) => desired[k] = {} /\ d.roles[k] # {}
      /\ k \in Updated(d) => desired[k] # {} /\ d.roles[k] # {}
  BY DEF Removed, Added, Updated
<1>9. /\ k \in Fresh(d) \/ k \in Reusable(d) => k \in Added(d)
      /\ k \in Remeshed(d) \/ k \in Reopenable(d) => k \in Updated(d)
      /\ k \in Reopenable(d) => k \notin Remeshed(d)
      /\ k \in Evicted(d) => desired[k] = {} /\ k \notin Reusable(d)
      /\ k \in Reusable(d) => k \notin Fresh(d)
  BY DeltaParts DEF Fresh
<1>10. desired[k] # {} => chunk[k].status # "Absent"
  BY AgreesAll DEF Agrees
<1>11. chunk'[k] = IF k \in Renewed(d) THEN fresh
                   ELSE IF k \in reopened THEN again
                   ELSE IF k \in Gone(d, retained) THEN NoChunk
                   ELSE chunk[k]
  BY <1>1, <1>4, <1>6
<1>. QED  BY <1>2, <1>3, <1>5, <1>7, <1>8, <1>9, <1>10, <1>11 DEF Renewed, Gone

\* The expectations after a delta.
LEMMA ExpectationsAfter ==
    ASSUME Typed, RecordsAgree, NEW d \in Deltas, NEW retained \in SUBSET Removed(d),
           NEW number \in Numberings(Renewed(d)), NEW reopened \in SUBSET Reopenable(d),
           Outcome(d, retained, number, reopened), NEW k \in Keys
    PROVE  /\ app'[k] \in ApplicationType /\ app'[k].shape \in {NoShape, app[k].shape}
           /\ k \in Removed(d) => app'[k].generation = 0
           /\ k \in Added(d) \cup Remeshed(d) =>
                 /\ app'[k].generation = chunk'[k].generation
                 /\ app'[k].world = chunk'[k].world /\ app'[k].roles = d.roles[k]
           /\ k \in Updated(d) \ Remeshed(d) =>
                 /\ app'[k].generation = app[k].generation /\ app'[k].world = app[k].world
                 /\ d.roles[k] \subseteq app'[k].roles
                 /\ "collision" \in app'[k].roles => "collision" \in d.roles[k]
           /\ k \notin Added(d) \cup Removed(d) \cup Updated(d) => app'[k] = app[k]
<1>0. /\ app[k] \in ApplicationType /\ chunk'[k] \in ChunkType /\ d.roles[k] \in SUBSET Roles
  <2>1. chunk'[k] \in ChunkType
    BY RecordsAfter
  <2>2. d.roles \in [Keys -> SUBSET Roles]
    BY DeltaParts
  <2>. QED  BY <2>1, <2>2 DEF Typed
<1>9. PICK version, e : version = chunk'[k] /\ e = app'[k]
  OBVIOUS
<1>1. app'[k] =
        CASE k \in Removed(d) -> NoApplication
          [] k \in Added(d) -> Expectation(k, chunk'[k], d.roles[k], Replaces(d), FALSE)
          [] k \in Remeshed(d) -> Expectation(k, chunk'[k], d.roles[k], TRUE, TRUE)
          [] k \in CollisionOnly(d) ->
                [app[k] EXCEPT !.roles = @ \cup {"collision"}, !.shape = NoShape,
                               !.refresh = @ \/ k \notin Submitted(d)]
          [] k \in Updated(d) \ (Remeshed(d) \cup CollisionOnly(d)) ->
                [app[k] EXCEPT !.roles = d.roles[k],
                               !.shape = IF k \in Gains(d, "collision") THEN NoShape ELSE @,
                               !.staged = @ \/ "visual" \in d.roles[k] \ desired[k]]
          [] OTHER -> app[k]
  BY DEF Outcome, ApplicationAfter, ApplicationOf
<1>2. /\ k \in Removed(d) => k \notin Added(d) \cup Updated(d)
      /\ k \in Added(d) => k \notin Updated(d)
      /\ k \in Remeshed(d) => k \in Updated(d)
      /\ k \in CollisionOnly(d) => k \in Updated(d) /\ k \notin Remeshed(d)
  BY DeltaParts DEF Removed, Added, Updated
<1>3. CASE k \in Removed(d)
  <2>1. app'[k] = NoApplication
    BY <1>1, <1>2, <1>3
  <2>. QED  BY <1>2, <1>3, <2>1 DEF NoApplication, ApplicationType
<1>4. CASE k \in Added(d)
  <2>1. app'[k] = Expectation(k, chunk'[k], d.roles[k], Replaces(d), FALSE)
    BY <1>1, <1>2, <1>4
  <2>2. Replaces(d) \in BOOLEAN
    BY DEF Replaces
  <2>3. /\ app'[k] \in ApplicationType
        /\ app'[k].generation = chunk'[k].generation /\ app'[k].world = chunk'[k].world
        /\ app'[k].roles = d.roles[k] /\ app'[k].shape \in {NoShape, app[k].shape}
    <3>1. version \in ChunkType /\ e = Expectation(k, version, d.roles[k], Replaces(d), FALSE)
      BY <1>0, <1>9, <2>1
    <3>2. /\ e \in ApplicationType
          /\ e.generation = version.generation /\ e.world = version.world
          /\ e.roles = d.roles[k] /\ e.shape \in {NoShape, app[k].shape}
      <4>1. app[k].shape \in Nat \cup {NoShape}
        BY <1>0 DEF ApplicationType
      <4>2. version.generation \in Nat /\ version.world \in Nat
        BY <3>1 DEF ChunkType
      <4>. QED  BY <1>0, <2>2, <3>1, <4>1, <4>2 DEF Expectation, ApplicationType
    <3>. QED  BY <1>9, <3>2
  <2>. QED  BY <1>2, <1>4, <2>3
<1>5. CASE k \in Remeshed(d)
  <2>1. app'[k] = Expectation(k, chunk'[k], d.roles[k], TRUE, TRUE)
    BY <1>1, <1>2, <1>5
  <2>2. /\ app'[k] \in ApplicationType
        /\ app'[k].generation = chunk'[k].generation /\ app'[k].world = chunk'[k].world
        /\ app'[k].roles = d.roles[k] /\ app'[k].shape \in {NoShape, app[k].shape}
    <3>1. version \in ChunkType /\ e = Expectation(k, version, d.roles[k], TRUE, TRUE)
      BY <1>0, <1>9, <2>1
    <3>2. /\ e \in ApplicationType
          /\ e.generation = version.generation /\ e.world = version.world
          /\ e.roles = d.roles[k] /\ e.shape \in {NoShape, app[k].shape}
      <4>1. app[k].shape \in Nat \cup {NoShape}
        BY <1>0 DEF ApplicationType
      <4>2. version.generation \in Nat /\ version.world \in Nat
        BY <3>1 DEF ChunkType
      <4>. QED  BY <1>0, <3>1, <4>1, <4>2 DEF Expectation, ApplicationType
    <3>. QED  BY <1>9, <3>2
  <2>. QED  BY <1>2, <1>5, <2>2
<1>6. CASE k \in CollisionOnly(d)
  <2>1. app'[k] = [app[k] EXCEPT !.roles = @ \cup {"collision"}, !.shape = NoShape,
                                 !.refresh = @ \/ k \notin Submitted(d)]
    BY <1>1, <1>2, <1>6
  <2>2. "visual" \in app[k].roles /\ "collision" \in d.roles[k]
    BY <1>6 DEF CollisionOnly, Gains
  <2>3. /\ app'[k] \in ApplicationType /\ app'[k].shape = NoShape
        /\ app'[k].generation = app[k].generation /\ app'[k].world = app[k].world
        /\ app'[k].roles = app[k].roles \cup {"collision"}
    BY <1>0, <2>1 DEF ApplicationType, Roles
  <2>. QED  BY <1>0, <1>2, <1>6, <2>2, <2>3 DEF Roles
<1>7. CASE k \in Updated(d) \ (Remeshed(d) \cup CollisionOnly(d))
  <2>1. app'[k] = [app[k] EXCEPT !.roles = d.roles[k],
                                 !.shape = IF k \in Gains(d, "collision") THEN NoShape ELSE @,
                                 !.staged = @ \/ "visual" \in d.roles[k] \ desired[k]]
    BY <1>1, <1>2, <1>7
  <2>2. /\ app'[k] \in ApplicationType /\ app'[k].shape \in {NoShape, app[k].shape}
        /\ app'[k].generation = app[k].generation /\ app'[k].world = app[k].world
        /\ app'[k].roles = d.roles[k]
    BY <1>0, <2>1 DEF ApplicationType
  <2>. QED  BY <1>2, <1>7, <2>2
<1>8. CASE k \notin Added(d) \cup Removed(d) \cup Updated(d)
  BY <1>0, <1>1, <1>2, <1>8
<1>. QED  BY <1>2, <1>3, <1>4, <1>5, <1>6, <1>7, <1>8

\* The dormant list after a delta.
LEMMA DormantAfter ==
    ASSUME Typed, RecordsAgree, NEW d \in Deltas, NEW retained \in SUBSET Removed(d),
           Rested(d, retained)
    PROVE  /\ dormant' \in Seq(Keys \X Nat)
           /\ \A e \in Range(dormant') :
                 \/ \E k \in retained : e = <<k, chunk[k].generation>>
                 \/ e \in Range(dormant) /\ e[1] \notin Added(d) \cup Evicted(d)
           /\ \A e \in Range(dormant) :
                 e[1] \notin Added(d) \cup Evicted(d) => e \in Range(dormant')
           /\ \A k \in retained : <<k, chunk[k].generation>> \in Range(dormant')
<1> DEFINE resting == {<<k, chunk[k].generation>> : k \in retained}
<1>1. PICK place \in Ascending(Staying(d)), order \in SetToSeqs(resting) :
          dormant' = [i \in 1..Cardinality(Staying(d)) |-> dormant[place[i]]] \o order
  BY DEF Rested
<1>2. retained \subseteq Keys
  BY DEF Removed
<1>3. resting \in SUBSET (Keys \X Nat)
  BY <1>2 DEF Typed, ChunkType
<1>4. IsFiniteSet(resting)
  <2>1. IsFiniteSet(retained)
    BY <1>2, DesiredSetsAssumption, FS_Subset
  <2>2. [k \in retained |-> <<k, chunk[k].generation>>] \in Surjection(retained, resting)
    BY DEF Surjection
  <2>. QED  BY <2>1, <2>2, FS_Surjection
<1>6. Staying(d) \in SUBSET DOMAIN dormant /\ dormant \in Seq(Keys \X Nat)
  BY DEF Staying, Typed
<1>7. PICK kept : kept = [i \in 1..Cardinality(Staying(d)) |-> dormant[place[i]]]
  OBVIOUS
<1>15. /\ kept \in Seq(Keys \X Nat) /\ Len(kept) = Cardinality(Staying(d))
       /\ \A i \in 1..Cardinality(Staying(d)) : kept[i] = dormant[place[i]]
  <2>1. PICK n \in Nat : n = Cardinality(Staying(d))
    <3>1. Len(dormant) \in Nat /\ Staying(d) \in SUBSET (1..Len(dormant))
      BY <1>6
    <3>. QED  BY <3>1, AscendingMeetsAll
  <2>2. \A i \in 1..n : place[i] \in DOMAIN dormant
    BY <1>6, <2>1 DEF Ascending
  <2>3. \A i \in DOMAIN dormant : dormant[i] \in Keys \X Nat
    BY <1>6
  <2>4. kept \in [1..n -> Keys \X Nat] /\ \A i \in 1..n : kept[i] = dormant[place[i]]
    BY <1>7, <2>1, <2>2, <2>3
  <2>5. kept \in Seq(Keys \X Nat) /\ Len(kept) = n
    BY <2>4
  <2>. QED  BY <2>1, <2>4, <2>5
<1>. HIDE DEF resting
<1>8. /\ kept \o order \in Seq(Keys \X Nat)
      /\ \A e : e \in Range(kept \o order) <=>
                    e \in resting \/ \E i \in Staying(d) : dormant[i] = e
  <2>1. PICK T, S, list : T = Keys \X Nat /\ S = Staying(d) /\ list = dormant
    OBVIOUS
  <2>2. /\ list \in Seq(T) /\ S \in SUBSET DOMAIN list /\ place \in Ascending(S)
        /\ resting \in SUBSET T /\ IsFiniteSet(resting) /\ order \in SetToSeqs(resting)
        /\ kept \in Seq(T) /\ Len(kept) = Cardinality(S)
        /\ \A i \in 1..Cardinality(S) : kept[i] = list[place[i]]
    BY <1>3, <1>4, <1>6, <1>15, <2>1
  <2>3. /\ kept \o order \in Seq(T)
        /\ \A e : e \in Range(kept \o order) <=> e \in resting \/ \E i \in S : list[i] = e
    BY <2>2, DormantElements
  <2>. QED  BY <2>1, <2>3
<1>9. dormant' \in Seq(Keys \X Nat)
      /\ \A e : e \in Range(dormant') <=>
                    e \in resting \/ \E i \in Staying(d) : dormant[i] = e
  BY <1>1, <1>7, <1>8
<1>10. \A e : e \in Range(dormant) <=> \E i \in DOMAIN dormant : dormant[i] = e
  BY DEF Range
<1>11. \A i \in DOMAIN dormant :
           i \in Staying(d) <=> dormant[i][1] \notin Added(d) \cup Evicted(d)
  BY DEF Staying
<1>12. \A e \in Range(dormant') :
           \/ \E k \in retained : e = <<k, chunk[k].generation>>
           \/ e \in Range(dormant) /\ e[1] \notin Added(d) \cup Evicted(d)
  BY <1>6, <1>9, <1>10, <1>11 DEF resting
<1>13. \A e \in Range(dormant) :
           e[1] \notin Added(d) \cup Evicted(d) => e \in Range(dormant')
  BY <1>6, <1>9, <1>10, <1>11
<1>14. \A k \in retained : <<k, chunk[k].generation>> \in Range(dormant')
  BY <1>9 DEF resting
<1>. QED  BY <1>9, <1>12, <1>13, <1>14

\* A viewer event keeps the invariant, and every shape it leaves was there.
LEMMA ViewerEventStep ==
    ASSUME Tables, NEW d \in Deltas, ViewerEvent(d)
    PROVE  Tables' /\ \A k \in Keys : app'[k].shape \in {NoShape, app[k].shape}
<1>. USE DEF Tables
<1>1. PICK retained \in SUBSET Removed(d), number \in Numberings(Renewed(d)),
           reopened \in SUBSET Reopenable(d) : Outcome(d, retained, number, reopened)
  BY ViewerEventOutcome
<1>2. /\ \A k \in retained : chunk[k].status = "Ready"
      /\ desired' = d.roles /\ UNCHANGED <<world, touched>> /\ Rested(d, retained)
      /\ issued' = issued + Cardinality(Renewed(d))
      /\ remeshes' = remeshes \cup {k \in Reopenable(d) \ reopened : "mesh" \notin cached[k]}
  BY <1>1 DEF Outcome
<1>14. chunk' = [k \in Keys |-> chunk'[k]]
  BY <1>1 DEF Outcome, VersionsAfter
<1>15. app' = [k \in Keys |-> app'[k]]
  BY <1>1 DEF Outcome, ApplicationAfter
<1>3. \A k \in Keys :
          /\ chunk'[k] \in ChunkType
          /\ k \in Renewed(d) => chunk'[k].status = "Sampling" /\ chunk'[k].world = world
          /\ k \in Removed(d) => chunk'[k] = IF k \in retained THEN chunk[k] ELSE NoChunk
          /\ k \in Reusable(d) => chunk'[k] = chunk[k]
          /\ desired[k] # {} /\ d.roles[k] # {} /\ k \notin Remeshed(d) =>
                /\ chunk'[k].generation = chunk[k].generation
                /\ chunk'[k].world = chunk[k].world
                /\ chunk'[k].status # "Absent"
          /\ desired[k] = {} /\ d.roles[k] = {} =>
                chunk'[k] = IF k \in Evicted(d) THEN NoChunk ELSE chunk[k]
  BY <1>1, RecordsAfter
<1>4. \A k \in Keys :
          /\ app'[k] \in ApplicationType /\ app'[k].shape \in {NoShape, app[k].shape}
          /\ k \in Removed(d) => app'[k].generation = 0
          /\ k \in Added(d) \cup Remeshed(d) =>
                /\ app'[k].generation = chunk'[k].generation
                /\ app'[k].world = chunk'[k].world /\ app'[k].roles = d.roles[k]
          /\ k \in Updated(d) \ Remeshed(d) =>
                /\ app'[k].generation = app[k].generation /\ app'[k].world = app[k].world
                /\ d.roles[k] \subseteq app'[k].roles
                /\ "collision" \in app'[k].roles => "collision" \in d.roles[k]
          /\ k \notin Added(d) \cup Removed(d) \cup Updated(d) => app'[k] = app[k]
  BY <1>1, ExpectationsAfter
<1>5. /\ dormant' \in Seq(Keys \X Nat)
      /\ \A e \in Range(dormant') :
            \/ \E k \in retained : e = <<k, chunk[k].generation>>
            \/ e \in Range(dormant) /\ e[1] \notin Added(d) \cup Evicted(d)
      /\ \A e \in Range(dormant) :
            e[1] \notin Added(d) \cup Evicted(d) => e \in Range(dormant')
      /\ \A k \in retained : <<k, chunk[k].generation>> \in Range(dormant')
  BY <1>2, DormantAfter
<1>6. Renewed(d) \in SUBSET Keys /\ Cardinality(Renewed(d)) \in Nat
  <2>1. Renewed(d) \in SUBSET Keys
    BY DEF Renewed, Fresh, Added, Remeshed, Gains, Updated
  <2>. QED  BY <2>1, NumbersType DEF Typed
<1>7. Typed'
  <2>1. chunk' \in [Keys -> ChunkType] /\ app' \in [Keys -> ApplicationType]
    BY <1>3, <1>4, <1>14, <1>15
  <2>2. d.roles \in [Keys -> SUBSET Roles]
    BY DeltaParts
  <2>3. issued' \in Nat
    BY <1>2, <1>6 DEF Typed
  <2>4. Reopenable(d) \subseteq Keys
    BY DEF Reopenable, CollisionOnly, Gains, Updated
  <2>. QED  BY <1>2, <1>5, <2>1, <2>2, <2>3, <2>4 DEF Typed
<1>8. \A k \in Keys :
          /\ k \in Removed(d) <=> desired[k] # {} /\ d.roles[k] = {}
          /\ k \in Added(d) <=> desired[k] = {} /\ d.roles[k] # {}
          /\ k \in Updated(d) => desired[k] # {} /\ d.roles[k] # {}
          /\ k \notin Added(d) \cup Removed(d) \cup Updated(d) => d.roles[k] = desired[k]
          /\ k \in Renewed(d) <=> k \in Fresh(d) \/ k \in Remeshed(d)
          /\ k \in Added(d) => (k \in Fresh(d) <=> k \notin Reusable(d))
          /\ k \in Remeshed(d) => k \in Updated(d)
          /\ k \in Fresh(d) => k \in Added(d)
          /\ k \in Evicted(d) => desired[k] = {}
  BY DeltaParts DEF Removed, Added, Updated, Renewed, Fresh
<1>9. \A k : k \in DormantKeys <=> \E e \in Range(dormant) : e[1] = k
  BY DormantKeysAre
<1>10. \A k : k \in DormantKeys' <=> \E e \in Range(dormant') : e[1] = k
  BY DEF DormantKeys, Range
<1>11. ASSUME NEW k \in Keys PROVE Agrees(k)'
  <2>1. Agrees(k)
    BY AgreesAll
  <2>2. CASE k \in Removed(d)
    <3>1. desired[k] # {} /\ d.roles[k] = {}
      BY <1>8, <2>2
    <3>2. k \notin DormantKeys /\ chunk[k].status # "Absent"
      BY <2>1, <3>1 DEF Agrees
    <3>3. k \in DormantKeys' => k \in retained
      BY <1>5, <1>9, <1>10, <3>2
    <3>4. k \in retained =>
              chunk'[k] = chunk[k] /\ <<k, chunk[k].generation>> \in Range(dormant')
      BY <1>3, <1>5, <2>2
    <3>5. k \notin retained => chunk'[k].status = "Absent"
      BY <1>3, <2>2 DEF NoChunk
    <3>6. desired'[k] = {} /\ app'[k].generation = 0
      BY <1>2, <1>4, <2>2, <3>1
    <3>. QED  BY <1>2, <3>2, <3>3, <3>4, <3>5, <3>6 DEF Agrees
  <2>3. CASE k \in Added(d)
    <3>1. desired[k] = {} /\ d.roles[k] # {} /\ k \notin retained
      BY <1>8, <2>3
    <3>2. k \notin DormantKeys'
      BY <1>5, <1>10, <2>3, <3>1
    <3>3. chunk'[k].status # "Absent"
      <4>1. CASE k \in Fresh(d)
        BY <1>3, <1>8, <4>1
      <4>2. CASE k \in Reusable(d)
        BY <1>3, <4>2 DEF Reusable
      <4>. QED  BY <1>8, <2>3, <4>1, <4>2
    <3>4. /\ app'[k].generation = chunk'[k].generation
          /\ app'[k].world = chunk'[k].world /\ app'[k].roles = d.roles[k]
      BY <1>4, <2>3
    <3>. QED  BY <1>2, <3>1, <3>2, <3>3, <3>4 DEF Agrees
  <2>4. CASE desired[k] # {} /\ d.roles[k] # {}
    <3>1. k \notin DormantKeys
      BY <2>1, <2>4 DEF Agrees
    <3>2. k \notin DormantKeys'
      BY <1>5, <1>8, <1>9, <1>10, <2>4, <3>1
    <3>3. CASE k \in Remeshed(d)
      <4>1. chunk'[k].status # "Absent"
        BY <1>3, <1>8, <3>3
      <4>2. /\ app'[k].generation = chunk'[k].generation
            /\ app'[k].world = chunk'[k].world /\ app'[k].roles = d.roles[k]
        BY <1>4, <3>3
      <4>. QED  BY <1>2, <2>4, <3>2, <4>1, <4>2 DEF Agrees
    <3>4. CASE k \notin Remeshed(d)
      <4>1. /\ chunk'[k].generation = chunk[k].generation
            /\ chunk'[k].world = chunk[k].world /\ chunk'[k].status # "Absent"
        BY <1>3, <2>4, <3>4
      <4>2. /\ app'[k].generation = app[k].generation /\ app'[k].world = app[k].world
            /\ d.roles[k] \subseteq app'[k].roles
            /\ "collision" \in app'[k].roles => "collision" \in d.roles[k]
        <5>1. CASE k \in Updated(d)
          BY <1>4, <3>4, <5>1
        <5>2. CASE k \notin Updated(d)
          <6>1. app'[k] = app[k] /\ d.roles[k] = desired[k]
            BY <1>4, <1>8, <2>4, <5>2
          <6>. QED  BY <2>1, <2>4, <6>1 DEF Agrees
        <5>. QED  BY <5>1, <5>2
      <4>3. app[k].generation = chunk[k].generation /\ app[k].world = chunk[k].world
        BY <2>1, <2>4 DEF Agrees
      <4>. QED  BY <1>2, <2>4, <3>2, <4>1, <4>2, <4>3 DEF Agrees
    <3>. QED  BY <3>3, <3>4
  <2>5. CASE desired[k] = {} /\ d.roles[k] = {}
    <3>1. k \notin Added(d) \cup Removed(d) \cup Updated(d) /\ k \notin retained
      BY <1>8, <2>5
    <3>2. app'[k] = app[k] /\ desired'[k] = {}
      BY <1>2, <1>4, <2>5, <3>1
    <3>3. k \in DormantKeys' => k \in DormantKeys /\ k \notin Evicted(d)
      BY <1>5, <1>9, <1>10, <3>1
    <3>4. CASE k \in Evicted(d)
      <4>1. chunk'[k].status = "Absent"
        BY <1>3, <2>5, <3>4 DEF NoChunk
      <4>. QED  BY <2>1, <2>5, <3>2, <3>3, <3>4, <4>1 DEF Agrees
    <3>5. CASE k \notin Evicted(d)
      <4>1. chunk'[k] = chunk[k]
        BY <1>3, <2>5, <3>5
      <4>2. <<k, chunk[k].generation>> \in Range(dormant) =>
                <<k, chunk[k].generation>> \in Range(dormant')
        BY <1>5, <3>1, <3>5
      <4>. QED  BY <2>1, <2>5, <3>2, <3>3, <4>1, <4>2 DEF Agrees
    <3>. QED  BY <3>4, <3>5
  <2>. QED  BY <1>8, <2>2, <2>3, <2>4, <2>5
<1>12. RecordsAgree'
  <2>1. (RecordsAgree <=> \A k \in Keys : Agrees(k))'
    BY DEF RecordsAgree, Agrees, Recorded, Expected
  <2>. QED  BY <1>11, <2>1
<1>13. TouchedPast' /\ EditsReachChunks'
  <2>1. TouchedPast'
    BY <1>2 DEF TouchedPast
  <2>2. ASSUME NEW k \in Keys, d.roles[k] # {} PROVE chunk'[k].world >= touched[k]
    <3>1. touched[k] <= world /\ touched[k] \in Nat /\ world \in Nat
      BY DEF TouchedPast, Typed
    <3>2. CASE k \in Renewed(d)
      BY <1>3, <3>1, <3>2
    <3>3. CASE k \in Reusable(d)
      <4>1. chunk'[k].world = world
        BY <1>3, <3>3 DEF Reusable
      <4>. QED  BY <3>1, <4>1
    <3>4. CASE desired[k] # {} /\ k \notin Remeshed(d)
      <4>1. chunk'[k].world = chunk[k].world /\ chunk[k].world >= touched[k]
        BY <1>3, <2>2, <3>4 DEF EditsReachChunks
      <4>. QED  BY <4>1
    <3>. QED  BY <1>8, <2>2, <3>2, <3>3, <3>4
  <2>. QED  BY <1>2, <2>1, <2>2 DEF EditsReachChunks
<1>. QED  BY <1>4, <1>7, <1>12, <1>13

-----------------------------------------------------------------------------
(* The other steps.                                                        *)

ShapesKept == \A k \in Keys : app'[k].shape \in {NoShape, app[k].shape}

\* New versions at the committed revision, or at a newer one for what is edited.
LEMMA RegenerateStep ==
    ASSUME Tables, NEW K \in SUBSET Keys, \A k \in K : desired[k] # {},
           NEW revision \in Nat, NEW staged, Regenerate(K, revision, staged),
           UNCHANGED <<desired, dormant>>, remeshes' \subseteq remeshes,
           world' \in Nat, world <= world', touched' \in [Keys -> Nat],
           \A k \in Keys : touched'[k] <= world',
           \A k \in K : touched'[k] <= revision,
           \A k \in Keys : desired[k] # {} /\ k \notin K => touched'[k] = touched[k]
    PROVE  Tables' /\ ShapesKept
<1>. USE DEF Tables
<1>1. /\ issued' \in Nat
      /\ chunk' \in [Keys -> ChunkType] /\ app' \in [Keys -> ApplicationType]
      /\ RecordsAgree'
      /\ \A k \in Keys :
            /\ chunk'[k].world = IF k \in K THEN revision ELSE chunk[k].world
            /\ app'[k].shape \in {NoShape, app[k].shape}
  BY Regenerated
<1>2. Typed'
  BY <1>1 DEF Typed
<1>3. ASSUME NEW k \in Keys, desired[k] # {} PROVE chunk'[k].world >= touched'[k]
  <2>1. CASE k \in K
    <3>1. chunk'[k].world = revision /\ touched'[k] <= revision /\ touched'[k] \in Nat
      BY <1>1, <2>1
    <3>. QED  BY <3>1
  <2>2. CASE k \notin K
    <3>1. chunk'[k].world = chunk[k].world /\ touched'[k] = touched[k]
      BY <1>1, <1>3, <2>2
    <3>. QED  BY <1>3, <3>1 DEF EditsReachChunks
  <2>. QED  BY <2>1, <2>2
<1>. QED  BY <1>1, <1>2, <1>3 DEF TouchedPast, EditsReachChunks, ShapesKept

\* A step that requests no version and edits nothing.
LEMMA QuietStep ==
    ASSUME Tables, UNCHANGED <<desired, dormant, issued, world, touched>>,
           remeshes' \subseteq Keys,
           chunk' \in [Keys -> ChunkType], app' \in [Keys -> ApplicationType],
           \A k \in Keys :
              /\ chunk'[k].status = "Absent" <=> chunk[k].status = "Absent"
              /\ desired[k] = {} => chunk'[k].status = chunk[k].status
              /\ chunk'[k].generation = chunk[k].generation
              /\ chunk'[k].world = chunk[k].world
              /\ app'[k].generation = app[k].generation
              /\ app'[k].world = app[k].world /\ app'[k].roles = app[k].roles
    PROVE  Tables'
<1>1. RecordsAgree'
  BY SameVersions DEF Tables
<1>. QED  BY <1>1 DEF Tables, Typed, TouchedPast, EditsReachChunks

\* A chunk that is sampled or meshed is one the viewers want.
LEMMA WorkIsWanted ==
    ASSUME RecordsAgree, NEW k \in Keys, NEW stage, NEW status \in {"Sampling", "Meshing"},
           AtWork(k, status, stage)
    PROVE  desired[k] # {} /\ chunk[k].status # "Absent"
<1>1. Agrees(k)
  BY AgreesAll
<1>2. chunk[k].status = status
  BY DEF AtWork
<1>. QED  BY <1>1, <1>2 DEF Agrees

\* Setting the status of a record at work, and what that leaves alone.
LEMMA StatusStep ==
    ASSUME Tables, NEW k \in Keys, desired[k] # {}, chunk[k].status # "Absent",
           NEW status \in {"Sampling", "Meshing", "Ready", "Failed"},
           chunk' = [chunk EXCEPT ![k].status = status],
           UNCHANGED <<desired, dormant, issued, world, touched, app, remeshes>>
    PROVE  Tables' /\ ShapesKept
<1>1. /\ chunk' \in [Keys -> ChunkType]
      /\ \A q \in Keys : q # k => chunk'[q] = chunk[q]
      /\ chunk'[k].status = status /\ chunk'[k].generation = chunk[k].generation
      /\ chunk'[k].world = chunk[k].world
  BY DEF Tables, Typed, ChunkType, Statuses
<1>2. app' \in [Keys -> ApplicationType] /\ remeshes' \subseteq Keys
  BY DEF Tables, Typed
<1>3. \A q \in Keys :
          /\ chunk'[q].status = "Absent" <=> chunk[q].status = "Absent"
          /\ desired[q] = {} => chunk'[q].status = chunk[q].status
          /\ chunk'[q].generation = chunk[q].generation
          /\ chunk'[q].world = chunk[q].world
  BY <1>1
<1>4. Tables'
  BY <1>1, <1>2, <1>3, QuietStep
<1>. QED  BY <1>4 DEF ShapesKept

\* What was sent to physics keeps its type.
LEMMA SentStep ==
    ASSUME IInv, [Next]_vars
    PROVE  SentType'
<1> DEFINE PayloadType == [generation : Nat, world : Nat]
<1>1. NoPayload \in PayloadType /\ \A k \in Keys : Payload(chunk[k]) \in PayloadType
  BY DEF IInv, Tables, Typed, ChunkType, NoPayload, Payload
<1>2. sent \in [Keys -> PayloadType]
  BY DEF IInv, SentType
<1>. HIDE DEF PayloadType
<1>3. ASSUME NEW k \in Keys, NEW condition, Publish(k, condition)
      PROVE  sent' \in [Keys -> PayloadType]
  BY <1>1, <1>2, <1>3 DEF Publish
<1>4. ASSUME NEW d \in Deltas, ViewerEvent(d) PROVE sent' \in [Keys -> PayloadType]
  <2>1. PICK S : sent' = [k \in Keys |-> IF k \in S THEN Payload(chunk[k]) ELSE sent[k]]
    BY <1>4 DEF ViewerEvent, Applied
  <2>. QED  BY <1>1, <1>2, <2>1
<1>5. ASSUME NEW d \in Deltas, ViewerEventFails(d) PROVE sent' \in [Keys -> PayloadType]
  BY <1>2, <1>5 DEF ViewerEventFails
<1>6. CASE RemeshPass
  BY <1>2, <1>6 DEF RemeshPass, PayloadType, SentType
<1>7. ASSUME NEW T \in SUBSET Keys, Edit(T) PROVE sent' \in [Keys -> PayloadType]
  BY <1>2, <1>7 DEF Edit
<1>8. ASSUME NEW j \in jobs, PopJob(j) PROVE sent' \in [Keys -> PayloadType]
  BY <1>2, <1>8 DEF PopJob
<1>9. ASSUME NEW k \in Keys, SampleDone(k) PROVE sent' \in [Keys -> PayloadType]
  BY <1>2, <1>9 DEF SampleDone
<1>10. ASSUME NEW k \in Keys, MeshAccepted(k) PROVE sent' \in [Keys -> PayloadType]
  BY <1>3, <1>10 DEF MeshAccepted
<1>11. ASSUME NEW k \in Keys, MeshConsumed(k) PROVE sent' \in [Keys -> PayloadType]
  BY <1>2, <1>3, <1>11 DEF MeshConsumed
<1>12. ASSUME NEW k \in Keys, NEW resource \in Evictable, EvictCached(k, resource)
       PROVE  sent' \in [Keys -> PayloadType]
  BY <1>2, <1>12 DEF EvictCached
<1>13. ASSUME NEW lapsed, CollisionRepairs(lapsed) PROVE sent' \in [Keys -> PayloadType]
  <2>1. \/ sent' = sent
        \/ \E S : sent' = [k \in Keys |-> IF k \in S THEN Payload(chunk[k]) ELSE sent[k]]
    BY <1>13 DEF CollisionRepairs
  <2>. QED  BY <1>1, <1>2, <2>1
<1>14. CASE VisualRepairs
  BY <1>2, <1>14 DEF VisualRepairs, PayloadType, SentType
<1>15. ASSUME NEW k \in Keys, Install(k) PROVE sent' \in [Keys -> PayloadType]
  BY <1>1, <1>2, <1>15 DEF Install
<1>16. ASSUME NEW k \in Keys, Drop(k) PROVE sent' \in [Keys -> PayloadType]
  BY <1>1, <1>2, <1>16 DEF Drop
<1>17. CASE UNCHANGED vars
  BY <1>2, <1>17 DEF vars, PayloadType, SentType
<1>. QED
  BY <1>4, <1>5, <1>6, <1>7, <1>8, <1>9, <1>10, <1>11, <1>12, <1>13, <1>14, <1>15, <1>16, <1>17
     DEF Next, SentType, PayloadType

\* Every step but an answer of physics keeps the shapes or takes them away, and
\* an answer installs the revision the payload was sent for.
LEMMA EveryStep ==
    ASSUME IInv, [Next]_vars
    PROVE  /\ IInv'
           /\ \A k \in Keys : app'[k].shape \notin {NoShape, app[k].shape} =>
                 app'[k].shape = sent[k].world /\ sent'[k] = NoPayload
<1>. USE DEF IInv, Tables
<1>16. SentType'
  BY SentStep
<1>1. ASSUME NEW d \in Deltas, ViewerEvent(d) PROVE Tables' /\ ShapesKept
  BY <1>1, ViewerEventStep DEF ShapesKept
<1>2. ASSUME NEW d \in Deltas, ViewerEventFails(d) PROVE Tables' /\ ShapesKept
  <2>1. UNCHANGED <<desired, chunk, app, dormant, issued, world, touched, remeshes>>
    BY <1>2 DEF ViewerEventFails
  <2>2. chunk' \in [Keys -> ChunkType] /\ app' \in [Keys -> ApplicationType]
        /\ remeshes' \subseteq Keys
    BY <2>1 DEF Typed
  <2>. QED  BY <2>1, <2>2, QuietStep DEF ShapesKept
<1>3. CASE RemeshPass
  <2> DEFINE lost == {k \in remeshes : desired[k] = {}}
             busy == {k \in remeshes : chunk[k].status \in {"Sampling", "Meshing"}}
             due == remeshes \ (lost \cup busy)
  <2>1. PICK K \in kSubset(Min({Cardinality(due), Room(jobs)}), due), unseen \in SUBSET lost :
            Regenerate(K, world, K) /\ remeshes' = remeshes \ (K \cup (lost \ unseen))
    BY <1>3 DEF RemeshPass
  <2>2. K \in SUBSET Keys /\ \A k \in K : desired[k] # {}
    BY DEF kSubset, Typed
  <2>3. UNCHANGED <<desired, dormant, world, touched>> /\ remeshes' \subseteq remeshes
    BY <1>3, <2>1 DEF RemeshPass
  <2>4. /\ world \in Nat /\ world' \in Nat /\ world <= world' /\ touched' \in [Keys -> Nat]
        /\ \A k \in Keys : touched'[k] <= world' /\ touched'[k] <= world
        /\ touched' = touched
    BY <2>3 DEF Typed, TouchedPast
  <2>5. /\ \A k \in K : touched'[k] <= world
        /\ \A k \in Keys : desired[k] # {} /\ k \notin K => touched'[k] = touched[k]
    BY <2>2, <2>4
  <2>6. Regenerate(K, world, K)
    BY <2>1
  <2>. HIDE DEF due, lost, busy
  <2>7. Tables' /\ ShapesKept
    BY <2>2, <2>3, <2>4, <2>5, <2>6, RegenerateStep
  <2>. QED  BY <1>16, <2>7 DEF ShapesKept
<1>4. ASSUME NEW T \in SUBSET Keys, Edit(T) PROVE Tables' /\ ShapesKept
  <2>1. /\ world' = world + 1
        /\ touched' = [k \in Keys |-> IF k \in T THEN world + 1 ELSE touched[k]]
        /\ Regenerate(EditTargets(T), world + 1, EditTargets(T))
        /\ UNCHANGED <<desired, dormant, remeshes>>
    BY <1>4 DEF Edit
  <2>2. /\ EditTargets(T) \in SUBSET Keys /\ \A k \in EditTargets(T) : desired[k] # {}
        /\ \A k \in Keys : desired[k] # {} /\ k \notin EditTargets(T) => k \notin T
    BY DEF EditTargets
  <2>3. /\ world + 1 \in Nat /\ world' \in Nat /\ world <= world'
        /\ \A k \in Keys : touched[k] \in Nat /\ touched[k] <= world
    BY <2>1 DEF Typed, TouchedPast
  <2>4. /\ touched' \in [Keys -> Nat]
        /\ \A k \in Keys : touched'[k] <= world' /\ touched'[k] <= world + 1
        /\ \A k \in Keys : k \notin T => touched'[k] = touched[k]
    <3>1. \A k \in Keys : touched'[k] = IF k \in T THEN world + 1 ELSE touched[k]
      BY <2>1
    <3>2. \A k \in Keys :
              /\ touched'[k] \in Nat /\ touched'[k] <= world'
              /\ touched'[k] <= world + 1
      <4>1. ASSUME NEW k \in Keys
            PROVE  /\ touched'[k] \in Nat /\ touched'[k] <= world + 1
        <5>1. CASE k \in T
          BY <2>3, <3>1, <5>1
        <5>2. CASE k \notin T
          <6>1. touched'[k] = touched[k] /\ touched[k] \in Nat /\ touched[k] <= world
            BY <2>3, <3>1, <5>2
          <6>. QED  BY <6>1 DEF Typed
        <5>. QED  BY <5>1, <5>2
      <4>. QED  BY <2>1, <4>1
    <3>. QED  BY <2>1, <3>1, <3>2
  <2>5. remeshes' \subseteq remeshes
    BY <2>1
  <2>6. PICK revision \in Nat : revision = world + 1
    BY <2>3
  <2>7. /\ Regenerate(EditTargets(T), revision, EditTargets(T))
        /\ \A k \in EditTargets(T) : touched'[k] <= revision
        /\ \A k \in Keys : desired[k] # {} /\ k \notin EditTargets(T) => touched'[k] = touched[k]
    BY <2>1, <2>2, <2>4, <2>6
  <2>. QED  BY <2>1, <2>2, <2>3, <2>4, <2>5, <2>7, RegenerateStep
<1>5. ASSUME NEW j \in jobs, PopJob(j) PROVE Tables' /\ ShapesKept
  <2>1. UNCHANGED <<desired, chunk, app, dormant, issued, world, touched, remeshes>>
    BY <1>5 DEF PopJob
  <2>2. chunk' \in [Keys -> ChunkType] /\ app' \in [Keys -> ApplicationType]
        /\ remeshes' \subseteq Keys
    BY <2>1 DEF Typed
  <2>. QED  BY <2>1, <2>2, QuietStep DEF ShapesKept
<1>6. ASSUME NEW k \in Keys, SampleDone(k) PROVE Tables' /\ ShapesKept
  <2>1. desired[k] # {} /\ chunk[k].status # "Absent"
    BY <1>6, WorkIsWanted DEF SampleDone
  <2>2. UNCHANGED <<desired, dormant, issued, world, touched, app, remeshes>>
    BY <1>6 DEF SampleDone
  <2>3. PICK status \in {"Sampling", "Meshing", "Ready", "Failed"} :
            chunk' = [chunk EXCEPT ![k].status = status]
    BY <1>6 DEF SampleDone
  <2>. QED  BY <2>1, <2>2, <2>3, StatusStep
<1>7. ASSUME NEW k \in Keys, MeshAccepted(k) PROVE Tables' /\ ShapesKept
  <2>1. desired[k] # {} /\ chunk[k].status # "Absent"
    BY <1>7, WorkIsWanted DEF MeshAccepted
  <2>2. /\ UNCHANGED <<desired, dormant, issued, world, touched, app, remeshes>>
        /\ chunk' = [chunk EXCEPT ![k].status = "Ready"]
    BY <1>7 DEF MeshAccepted
  <2>. QED  BY <2>1, <2>2, StatusStep
<1>8. ASSUME NEW k \in Keys, MeshConsumed(k) PROVE Tables' /\ ShapesKept
  <2>1. /\ UNCHANGED <<desired, chunk, dormant, issued, world, touched, remeshes>>
        /\ app' = [app EXCEPT ![k].refresh = FALSE]
    BY <1>8 DEF MeshConsumed
  <2>2. /\ app' \in [Keys -> ApplicationType]
        /\ \A q \in Keys :
              /\ app'[q].generation = app[q].generation /\ app'[q].world = app[q].world
              /\ app'[q].roles = app[q].roles /\ app'[q].shape = app[q].shape
    <3>1. PICK e : e = [app[k] EXCEPT !.refresh = FALSE]
      OBVIOUS
    <3>2. /\ e \in ApplicationType /\ e.generation = app[k].generation
          /\ e.world = app[k].world /\ e.roles = app[k].roles /\ e.shape = app[k].shape
      BY <3>1 DEF Typed, ApplicationType
    <3>3. app' = [app EXCEPT ![k] = e]
      BY <2>1, <3>1 DEF Typed
    <3>. QED  BY <3>2, <3>3 DEF Typed
  <2>3. chunk' \in [Keys -> ChunkType] /\ remeshes' \subseteq Keys
    BY <2>1 DEF Typed
  <2>. QED  BY <2>1, <2>2, <2>3, QuietStep DEF ShapesKept
<1>9. ASSUME NEW k \in Keys, NEW resource \in Evictable, EvictCached(k, resource)
      PROVE  Tables' /\ ShapesKept
  <2>1. UNCHANGED <<desired, chunk, app, dormant, issued, world, touched, remeshes>>
    BY <1>9 DEF EvictCached
  <2>2. chunk' \in [Keys -> ChunkType] /\ app' \in [Keys -> ApplicationType]
        /\ remeshes' \subseteq Keys
    BY <2>1 DEF Typed
  <2>. QED  BY <2>1, <2>2, QuietStep DEF ShapesKept
<1>10. ASSUME NEW lapsed, CollisionRepairs(lapsed) PROVE Tables' /\ ShapesKept
  <2> DEFINE served == {k \in Indebted(lapsed) : cached[k] \cap {"mesh", "collision"} # {}}
             resampled == {k \in Indebted(lapsed) \ served : app[k].refresh}
             replaced == Indebted(lapsed) \ (served \cup resampled)
  <2>1. UNCHANGED <<desired, dormant, issued, world, touched>>
    BY <1>10 DEF CollisionRepairs
  <2>2. \/ UNCHANGED <<app, chunk, remeshes>>
        \/ /\ app' = [k \in Keys |-> [app[k] EXCEPT !.refresh = @ /\ k \notin served]]
           /\ chunk' = [k \in Keys |->
                 IF k \in resampled THEN [chunk[k] EXCEPT !.status = "Sampling"] ELSE chunk[k]]
           /\ remeshes' = remeshes \cup replaced
    BY <1>10 DEF CollisionRepairs
  <2>3. /\ Indebted(lapsed) \subseteq Keys
        /\ \A k \in Indebted(lapsed) : desired[k] # {} /\ chunk[k].status = "Ready"
    BY DEF Indebted
  <2>4. CASE UNCHANGED <<app, chunk, remeshes>>
    <3>1. chunk' \in [Keys -> ChunkType] /\ app' \in [Keys -> ApplicationType]
          /\ remeshes' \subseteq Keys
      BY <2>4 DEF Typed
    <3>. QED  BY <2>1, <2>4, <3>1, QuietStep DEF ShapesKept
  <2>5. CASE /\ app' = [k \in Keys |-> [app[k] EXCEPT !.refresh = @ /\ k \notin served]]
             /\ chunk' = [k \in Keys |->
                   IF k \in resampled THEN [chunk[k] EXCEPT !.status = "Sampling"] ELSE chunk[k]]
             /\ remeshes' = remeshes \cup replaced
    <3>1. \A k \in resampled : desired[k] # {} /\ chunk[k].status = "Ready"
      BY <2>3
    <3>2. remeshes' \subseteq Keys
      BY <2>3, <2>5 DEF Typed
    <3>. HIDE DEF served, resampled, replaced
    <3>3. /\ app' \in [Keys -> ApplicationType]
          /\ \A k \in Keys :
                /\ app'[k].generation = app[k].generation /\ app'[k].world = app[k].world
                /\ app'[k].roles = app[k].roles /\ app'[k].shape = app[k].shape
      BY <2>5 DEF Typed, ApplicationType
    <3>4. chunk' \in [Keys -> ChunkType]
      BY <2>5 DEF Typed, ChunkType, Statuses
    <3>5. \A k \in Keys :
              /\ chunk'[k].generation = chunk[k].generation
              /\ chunk'[k].world = chunk[k].world
              /\ k \notin resampled => chunk'[k] = chunk[k]
              /\ k \in resampled => chunk'[k].status = "Sampling"
      BY <2>5 DEF Typed, ChunkType
    <3>6. \A k \in Keys :
              /\ chunk'[k].status = "Absent" <=> chunk[k].status = "Absent"
              /\ desired[k] = {} => chunk'[k].status = chunk[k].status
      BY <3>1, <3>5
    <3>. QED  BY <2>1, <3>2, <3>3, <3>4, <3>5, <3>6, QuietStep DEF ShapesKept
  <2>. QED  BY <2>2, <2>4, <2>5
<1>11. CASE VisualRepairs
  <2>1. /\ Regenerate(Unseen, world, {k \in Unseen : app[k].staged})
        /\ UNCHANGED <<desired, dormant, world, touched, remeshes>>
    BY <1>11 DEF VisualRepairs
  <2>2. Unseen \in SUBSET Keys /\ \A k \in Unseen : desired[k] # {}
    BY DEF Unseen
  <2>3. /\ world \in Nat /\ world' \in Nat /\ world <= world' /\ touched' \in [Keys -> Nat]
        /\ \A k \in Keys : touched'[k] <= world' /\ touched'[k] <= world
        /\ touched' = touched /\ remeshes' \subseteq remeshes
    BY <2>1 DEF Typed, TouchedPast
  <2>4. PICK staged : staged = {k \in Unseen : app[k].staged}
    OBVIOUS
  <2>5. Regenerate(Unseen, world, staged)
    BY <2>1, <2>4
  <2>6. /\ \A k \in Unseen : touched'[k] <= world
        /\ \A k \in Keys : desired[k] # {} /\ k \notin Unseen => touched'[k] = touched[k]
    BY <2>2, <2>3
  <2>7. PICK K : K = Unseen
    OBVIOUS
  <2>8. /\ Regenerate(K, world, staged) /\ K \in SUBSET Keys /\ \A k \in K : desired[k] # {}
        /\ \A k \in K : touched'[k] <= world
        /\ \A k \in Keys : desired[k] # {} /\ k \notin K => touched'[k] = touched[k]
    BY <2>2, <2>5, <2>6, <2>7
  <2>9. UNCHANGED <<desired, dormant>>
    BY <2>1
  <2>10. Tables' /\ ShapesKept
    BY <2>3, <2>8, <2>9, RegenerateStep
  <2>. QED  BY <1>16, <2>10 DEF ShapesKept
<1>12. ASSUME NEW k \in Keys, Install(k)
       PROVE  /\ Tables'
              /\ \A q \in Keys : app'[q].shape \notin {NoShape, app[q].shape} =>
                    app'[q].shape = sent[q].world /\ sent'[q] = NoPayload
  <2>1. /\ UNCHANGED <<desired, chunk, dormant, issued, world, touched, remeshes>>
        /\ app' = IF Matches(k) THEN [app EXCEPT ![k].shape = app[k].world] ELSE app
        /\ sent' = [sent EXCEPT ![k] = NoPayload]
    BY <1>12 DEF Install
  <2>2. /\ app' \in [Keys -> ApplicationType]
        /\ \A q \in Keys :
              /\ app'[q].generation = app[q].generation /\ app'[q].world = app[q].world
              /\ app'[q].roles = app[q].roles
              /\ \/ app'[q].shape = app[q].shape
                 \/ q = k /\ Matches(k) /\ app'[q].shape = app[k].world
    <3>1. CASE Matches(k)
      <4>1. app' = [app EXCEPT ![k].shape = app[k].world]
        BY <2>1, <3>1
      <4>. QED  BY <3>1, <4>1 DEF Typed, ApplicationType
    <3>2. CASE ~Matches(k)
      <4>1. app' = app
        BY <2>1, <3>2
      <4>. QED  BY <4>1 DEF Typed
    <3>. QED  BY <3>1, <3>2
  <2>3. chunk' \in [Keys -> ChunkType] /\ remeshes' \subseteq Keys
    BY <2>1 DEF Typed
  <2>4. Tables'
    BY <2>1, <2>2, <2>3, QuietStep
  <2>5. Matches(k) => sent[k].world = app[k].world
    BY DEF Matches
  <2>6. sent'[k] = NoPayload
    BY <2>1 DEF SentType
  <2>. QED  BY <2>2, <2>4, <2>5, <2>6
<1>13. ASSUME NEW k \in Keys, Drop(k) PROVE Tables' /\ ShapesKept
  <2>1. UNCHANGED <<desired, chunk, app, dormant, issued, world, touched, remeshes>>
    BY <1>13 DEF Drop
  <2>2. chunk' \in [Keys -> ChunkType] /\ app' \in [Keys -> ApplicationType]
        /\ remeshes' \subseteq Keys
    BY <2>1 DEF Typed
  <2>. QED  BY <2>1, <2>2, QuietStep DEF ShapesKept
<1>14. CASE UNCHANGED vars
  BY <1>14, <1>16
     DEF vars, Typed, RecordsAgree, TouchedPast, EditsReachChunks, Recorded, Expected, DormantKeys
<1>15. ShapesKept =>
           \A k \in Keys : app'[k].shape \notin {NoShape, app[k].shape} =>
              app'[k].shape = sent[k].world /\ sent'[k] = NoPayload
  BY DEF ShapesKept
<1>. QED
  BY <1>1, <1>2, <1>3, <1>4, <1>5, <1>6, <1>7, <1>8, <1>9, <1>10, <1>11, <1>12, <1>13, <1>14,
     <1>15, <1>16 DEF Next

-----------------------------------------------------------------------------
(* The theorems.                                                           *)

\* The tables agree, and every version is at least as new as its last edit,
\* in every state, for any keys and capacities.
THEOREM Inductive == SafetySpec => []IInv
<1>1. Init => IInv
  <2>. SUFFICES ASSUME Init PROVE IInv
    OBVIOUS
  <2>1. Typed
    BY DesiredSetsAssumption
       DEF Init, Typed, NoChunk, NoApplication, ChunkType, ApplicationType, Statuses
  <2>2. RecordsAgree
    BY DEF Init, RecordsAgree, Recorded, Expected, DormantKeys, NoChunk, NoApplication
  <2>3. TouchedPast /\ EditsReachChunks
    BY DesiredSetsAssumption DEF Init, TouchedPast, EditsReachChunks, NoChunk
  <2>4. SentType
    BY DEF Init, SentType, NoPayload
  <2>. QED  BY <2>1, <2>2, <2>3, <2>4 DEF IInv, Tables
<1>2. IInv /\ [Next]_vars => IInv'
  BY EveryStep
<1>. QED  BY <1>1, <1>2, PTL DEF SafetySpec

\* Whatever the viewers want and withdraw, and however edits, repairs, late
\* answers and full tables interleave with it, the runtime's tables name the
\* same versions of the same chunks.
THEOREM TablesAgree == SafetySpec => []RecordsAgree
<1>1. IInv => RecordsAgree
  BY DEF IInv, Tables
<1>. QED  BY <1>1, Inductive, PTL

\* No chunk the viewers see was built before the last edit that touched it.
THEOREM EditsArrive == SafetySpec => []EditsReachChunks
<1>1. IInv => EditsReachChunks
  BY DEF IInv, Tables
<1>. QED  BY <1>1, Inductive, PTL

\* No step but physics' answer to a revision's payload makes a collision shape
\* current for that revision.
THEOREM ShapesAnswered == SafetySpec => ShapesAreAnswered
<1>1. IInv /\ [Next]_vars =>
          [\A k \in Keys : app'[k].shape \notin {NoShape, app[k].shape} =>
              app'[k].shape = sent[k].world /\ sent'[k] = NoPayload]_vars
  BY EveryStep
<1>. QED  BY <1>1, Inductive, PTL DEF SafetySpec, ShapesAreAnswered

-----------------------------------------------------------------------------
(* Capacities: what the tables hold is what they have room for.            *)

\* A record's version has a number, and the viewers want no more chunks than
\* the expectations have room for.
Numbered == \A k \in Keys : chunk[k].status # "Absent" => chunk[k].generation # 0

Wanted == {k \in Keys : desired[k] # {}}

WantedFit == Cardinality(Wanted) <= ActiveCapacity

TypedInv == IInv /\ TypeOK /\ Numbered /\ WantedFit

\* The least of three numbers, and the greater of two.
LEMMA LeastOfThree ==
    ASSUME NEW a \in Int, NEW b \in Int, NEW c \in Int
    PROVE  /\ Min({a, b, c}) \in Int
           /\ Min({a, b, c}) <= a /\ Min({a, b, c}) <= b /\ Min({a, b, c}) <= c
<1>1. \E x \in {a, b, c} : \A y \in {a, b, c} : x <= y
  OBVIOUS
<1>. QED  BY <1>1 DEF Min

LEMMA LeastOfTwo ==
    ASSUME NEW a \in Int, NEW b \in Int
    PROVE  Min({a, b}) \in Int /\ Min({a, b}) <= a /\ Min({a, b}) <= b
<1>1. \E x \in {a, b} : \A y \in {a, b} : x <= y
  OBVIOUS
<1>. QED  BY <1>1 DEF Min

LEMMA GreaterOfTwo ==
    ASSUME NEW a \in Int, NEW b \in Int
    PROVE  Max({a, b}) = IF a < b THEN b ELSE a
<1>1. \E x \in {a, b} : \A y \in {a, b} : x >= y
  OBVIOUS
<1>. QED  BY <1>1 DEF Max

\* Sets of keys are finite, and so is what is made of one value per key.
LEMMA KeySets ==
    ASSUME NEW S \in SUBSET Keys
    PROVE  IsFiniteSet(S) /\ Cardinality(S) \in Nat
BY DesiredSetsAssumption, FS_Subset, FS_CardinalityType

LEMMA ImagesOfKeys ==
    ASSUME NEW S \in SUBSET Keys, NEW f, NEW T, T = {f[k] : k \in S}
    PROVE  IsFiniteSet(T) /\ Cardinality(T) \in Nat /\ Cardinality(T) <= Cardinality(S)
<1>1. [k \in S |-> f[k]] \in Surjection(S, T)
  BY DEF Surjection
<1>2. IsFiniteSet(S)
  BY KeySets
<1>. QED  BY <1>1, <1>2, FS_Surjection, FS_CardinalityType

\* The sizes of a union and of what is left without a part.
LEMMA UnionSize ==
    ASSUME NEW S, NEW T, IsFiniteSet(S), IsFiniteSet(T)
    PROVE  /\ IsFiniteSet(S \cup T)
           /\ Cardinality(S \cup T) \in Nat
           /\ Cardinality(S \cup T) <= Cardinality(S) + Cardinality(T)
           /\ S \cap T = {} => Cardinality(S \cup T) = Cardinality(S) + Cardinality(T)
<1>1. /\ IsFiniteSet(S \cup T)
      /\ Cardinality(S \cup T) = Cardinality(S) + Cardinality(T) - Cardinality(S \cap T)
  BY FS_Union
<1>2. IsFiniteSet(S \cap T)
  BY FS_Subset
<1>3. /\ Cardinality(S) \in Nat /\ Cardinality(T) \in Nat
      /\ Cardinality(S \cup T) \in Nat /\ Cardinality(S \cap T) \in Nat
  BY <1>1, <1>2, FS_CardinalityType
<1>4. S \cap T = {} => Cardinality(S \cap T) = 0
  BY FS_EmptySet
<1>. QED  BY <1>1, <1>3, <1>4

LEMMA RestSize ==
    ASSUME NEW S, IsFiniteSet(S), NEW T \in SUBSET S
    PROVE  /\ IsFiniteSet(T) /\ IsFiniteSet(S \ T)
           /\ Cardinality(S) \in Nat /\ Cardinality(T) \in Nat /\ Cardinality(S \ T) \in Nat
           /\ Cardinality(S \ T) = Cardinality(S) - Cardinality(T)
<1>1. S \cap T = T
  OBVIOUS
<1>2. IsFiniteSet(T) /\ IsFiniteSet(S \ T)
  BY FS_Subset
<1>. QED  BY <1>1, <1>2, FS_Difference, FS_CardinalityType

\* Every delta is told apart into keys.
LEMMA DeltaKeys ==
    ASSUME NEW d \in Deltas
    PROVE  /\ Added(d) \subseteq Keys /\ Removed(d) \subseteq Keys /\ Updated(d) \subseteq Keys
           /\ Fresh(d) \subseteq Keys /\ Reusable(d) \subseteq Keys /\ Remeshed(d) \subseteq Keys
           /\ CollisionOnly(d) \subseteq Updated(d) /\ Reopenable(d) \subseteq Keys
           /\ Submitted(d) \subseteq Updated(d)
           /\ Recorded \subseteq Keys /\ Renewed(d) \subseteq Keys
BY DEF Added, Removed, Updated, Fresh, Reusable, Remeshed, Gains, CollisionOnly, Reopenable,
       Submitted, Recorded, Renewed

\* What room a delta leaves bounds how many chunks it retains.
LEMMA RetainedFit ==
    ASSUME TypedInv, NEW d \in Deltas, NEW retained \in Retainable(d)
    PROVE  /\ retained \subseteq Removed(d)
           /\ Cardinality(retained) <=
                 RecordCapacity - Cardinality(Recorded) + Cardinality(Evicted(d))
                    + Cardinality(Removed(d)) - Cardinality(Fresh(d))
           /\ LET slots == DormantCapacity - Len(dormant) + Cardinality(Reusable(d))
                             + Cardinality(Evicted(d))
              IN  Cardinality(retained) <= IF 0 < slots THEN slots ELSE 0
<1> DEFINE ready == {k \in Removed(d) : chunk[k].status = "Ready"}
           slots == DormantCapacity - Len(dormant) + Cardinality(Reusable(d))
                       + Cardinality(Evicted(d))
           free == FreeRecords + Cardinality(Evicted(d)) + Cardinality(Removed(d))
                      - Cardinality(Fresh(d))
<1>1. Evicted(d) \subseteq Keys
  BY DeltaParts DEF TypedInv, IInv, Tables, Typed, DormantKeys
<1>2. /\ Cardinality(ready) \in Int /\ Cardinality(Removed(d)) \in Int
      /\ Cardinality(Fresh(d)) \in Int /\ Cardinality(Reusable(d)) \in Int
      /\ Cardinality(Evicted(d)) \in Int /\ Cardinality(Recorded) \in Int
  <2>1. ready \subseteq Keys
    BY DeltaKeys
  <2>. QED  BY <1>1, <2>1, DeltaKeys, KeySets
<1>3. Len(dormant) \in Int /\ DormantCapacity \in Int /\ RecordCapacity \in Int
  BY DesiredSetsAssumption DEF TypedInv, TypeOK
<1>4. slots \in Int /\ free \in Int
  BY <1>2, <1>3 DEF FreeRecords
<1>5. /\ retained \subseteq ready
      /\ Cardinality(retained) = Min({Cardinality(ready), Max({0, slots}), free})
  BY DEF Retainable, kSubset
<1>6. free = RecordCapacity - Cardinality(Recorded) + Cardinality(Evicted(d))
                + Cardinality(Removed(d)) - Cardinality(Fresh(d))
  BY DEF FreeRecords
<1>. HIDE DEF slots, free, ready
<1>7. Max({0, slots}) = (IF 0 < slots THEN slots ELSE 0) /\ Max({0, slots}) \in Int
  BY <1>4, GreaterOfTwo
<1>8. Cardinality(retained) <= Max({0, slots}) /\ Cardinality(retained) <= free
  <2>1. PICK a, b, c : a = Cardinality(ready) /\ b = Max({0, slots}) /\ c = free
    OBVIOUS
  <2>2. Min({a, b, c}) <= b /\ Min({a, b, c}) <= c
    BY <1>2, <1>4, <1>7, <2>1, LeastOfThree
  <2>. QED  BY <1>5, <2>1, <2>2
<1>9. retained \subseteq Removed(d)
  BY <1>5 DEF ready
<1>. QED  BY <1>6, <1>7, <1>8, <1>9 DEF slots


\* The records a delta leaves fit their table.
LEMMA RecordsFitAfter ==
    ASSUME TypedInv, NEW d \in Deltas, NEW retained \in Retainable(d),
           NEW number \in Numberings(Renewed(d)), NEW reopened \in SUBSET Reopenable(d),
           Outcome(d, retained, number, reopened)
    PROVE  Cardinality(Recorded') <= RecordCapacity
<1> DEFINE E == Evicted(d)
           R == Removed(d)
           F == Fresh(d)
           stay == (Recorded \ E) \ (R \ retained)
<1>1. Typed /\ RecordsAgree
  BY DEF TypedInv, IInv, Tables
<1>2. /\ retained \subseteq R
      /\ Cardinality(retained) <=
            RecordCapacity - Cardinality(Recorded) + Cardinality(E) + Cardinality(R)
               - Cardinality(F)
  BY RetainedFit
<1>3. \A k \in Keys : Agrees(k)
  BY <1>1, AgreesAll
<1>4. E \subseteq Recorded /\ R \subseteq Recorded \ E
  <2>1. E \subseteq DormantKeys /\ \A k \in E : desired[k] = {}
    BY <1>1, DeltaParts
  <2>2. DormantKeys \subseteq Keys
    BY <1>1 DEF DormantKeys, Typed
  <2>. QED  BY <1>3, <2>1, <2>2 DEF Agrees, Recorded, Removed
<1>5. Recorded' \subseteq F \cup stay
  <2>1. SUFFICES ASSUME NEW k \in Keys, chunk'[k].status # "Absent" PROVE k \in F \cup stay
    BY DEF Recorded
  <2>2. chunk'[k] = IF k \in Renewed(d) THEN Version(number[k], world)
                    ELSE IF k \in reopened THEN [chunk[k] EXCEPT !.status = "Sampling"]
                    ELSE IF k \in Gone(d, retained) THEN NoChunk
                    ELSE chunk[k]
    BY DEF Outcome, VersionsAfter
  <2>3. k \in Remeshed(d) \/ k \in reopened => k \in Updated(d)
    BY <1>1, DeltaParts
  <2>4. k \in Updated(d) => k \in Recorded /\ k \notin E /\ k \notin R
    <3>1. k \in Updated(d) => desired[k] # {} /\ d.roles[k] # {}
      BY DEF Updated
    <3>2. k \in E => desired[k] = {}
      BY <1>1, DeltaParts
    <3>. QED  BY <1>3, <3>1, <3>2 DEF Agrees, Recorded, Removed
  <2>5. CASE k \in F
    BY <2>5
  <2>6. CASE k \in Updated(d)
    BY <2>4, <2>6
  <2>7. CASE k \notin F /\ k \notin Updated(d)
    <3>1. chunk'[k] = IF k \in Gone(d, retained) THEN NoChunk ELSE chunk[k]
      BY <2>2, <2>3, <2>7 DEF Renewed
    <3>2. k \notin Gone(d, retained) /\ chunk[k].status # "Absent"
      BY <2>1, <3>1 DEF NoChunk
    <3>. QED  BY <3>2 DEF Recorded, Gone
  <2>. QED  BY <2>5, <2>6, <2>7
<1>6. /\ IsFiniteSet(Recorded) /\ IsFiniteSet(F) /\ IsFiniteSet(R)
      /\ Cardinality(F) \in Nat
  BY DeltaKeys, KeySets
<1>7. /\ IsFiniteSet(Recorded \ E) /\ Cardinality(Recorded) \in Nat /\ Cardinality(E) \in Nat
      /\ Cardinality(Recorded \ E) = Cardinality(Recorded) - Cardinality(E)
  BY <1>4, <1>6, RestSize
<1>8. /\ Cardinality(R) \in Nat /\ Cardinality(retained) \in Nat
      /\ Cardinality(R \ retained) = Cardinality(R) - Cardinality(retained)
  BY <1>2, <1>6, RestSize
<1>9. /\ IsFiniteSet(stay) /\ Cardinality(stay) \in Nat
      /\ Cardinality(stay) = Cardinality(Recorded \ E) - Cardinality(R \ retained)
  <2>1. R \ retained \subseteq Recorded \ E
    BY <1>4
  <2>. QED  BY <1>7, <2>1, RestSize
<1>10. /\ IsFiniteSet(F \cup stay) /\ Cardinality(F \cup stay) \in Nat
       /\ Cardinality(F \cup stay) <= Cardinality(F) + Cardinality(stay)
  BY <1>6, <1>9, UnionSize
<1>11. Cardinality(Recorded') <= Cardinality(F \cup stay) /\ Cardinality(Recorded') \in Nat
  BY <1>5, <1>10, FS_Subset, FS_CardinalityType
<1>12. RecordCapacity \in Nat
  BY DesiredSetsAssumption
<1>. HIDE DEF E, R, F, stay
<1>. QED  BY <1>2, <1>6, <1>7, <1>8, <1>9, <1>10, <1>11, <1>12

\* So does the dormant list: what comes back and what is evicted leaves places.
LEMMA DormantFitAfter ==
    ASSUME TypedInv, NEW d \in Deltas, NEW retained \in Retainable(d), Rested(d, retained)
    PROVE  /\ dormant' \in Seq(Keys \X (1..MaxGeneration))
           /\ Len(dormant') <= DormantCapacity
<1> DEFINE resting == {<<k, chunk[k].generation>> : k \in retained}
           U == Reusable(d)
           E == Evicted(d)
           places == DOMAIN dormant
           leaving == places \ Staying(d)
           slots == DormantCapacity - Len(dormant) + Cardinality(U) + Cardinality(E)
<1>1. /\ Typed /\ RecordsAgree
      /\ dormant \in Seq(Keys \X (1..MaxGeneration)) /\ Len(dormant) <= DormantCapacity
  BY DEF TypedInv, TypeOK, IInv, Tables
<1>2. PICK place \in Ascending(Staying(d)), order \in SetToSeqs(resting) :
          dormant' = [i \in 1..Cardinality(Staying(d)) |-> dormant[place[i]]] \o order
  BY DEF Rested
<1>3. /\ retained \subseteq Removed(d)
      /\ Cardinality(retained) <= IF 0 < slots THEN slots ELSE 0
  BY RetainedFit
<1>4. /\ retained \subseteq Keys /\ IsFiniteSet(retained) /\ Cardinality(retained) \in Nat
  BY <1>3, DeltaKeys, KeySets
<1>5. /\ IsFiniteSet(resting) /\ Cardinality(resting) \in Nat
      /\ Cardinality(resting) <= Cardinality(retained)
  <2>1. resting = {[j \in Keys |-> <<j, chunk[j].generation>>][k] : k \in retained}
    BY <1>4
  <2>. QED  BY <1>4, <2>1, ImagesOfKeys
<1>6. /\ places = 1..Len(dormant) /\ IsFiniteSet(places) /\ Cardinality(places) = Len(dormant)
      /\ Len(dormant) \in Nat
  <2>1. places = 1..Len(dormant) /\ Len(dormant) \in Nat
    BY <1>1
  <2>2. /\ IsFiniteSet(1..Len(dormant))
        /\ Cardinality(1..Len(dormant)) = IF 1 > Len(dormant) THEN 0 ELSE Len(dormant) - 1 + 1
    <3>1. PICK n \in Nat : n = Len(dormant)
      BY <2>1
    <3>2. n \in Int /\ 1 \in Int
      OBVIOUS
    <3>3. IsFiniteSet(1..n) /\ Cardinality(1..n) = IF 1 > n THEN 0 ELSE n - 1 + 1
      BY <3>2, FS_Interval
    <3>. QED  BY <3>1, <3>3
  <2>. QED  BY <2>1, <2>2
<1>7. Staying(d) \subseteq places
  BY DEF Staying
<1>8. /\ IsFiniteSet(leaving) /\ Cardinality(leaving) \in Nat /\ Cardinality(Staying(d)) \in Nat
      /\ Cardinality(Staying(d)) = Len(dormant) - Cardinality(leaving)
  <2>1. /\ IsFiniteSet(leaving)
        /\ Cardinality(leaving) \in Nat /\ Cardinality(Staying(d)) \in Nat
        /\ Cardinality(leaving) = Cardinality(places) - Cardinality(Staying(d))
    BY <1>6, <1>7, RestSize
  <2>. QED  BY <1>6, <2>1
<1>9. /\ Cardinality(U) \in Nat /\ Cardinality(E) \in Nat
      /\ Cardinality(U) + Cardinality(E) <= Cardinality(leaving)
  <2> DEFINE left == {dormant[i][1] : i \in leaving}
  <2>1. U \subseteq left /\ E \subseteq left
    <3>1. U \subseteq Added(d) \cap DormantKeys /\ E \subseteq DormantKeys
      BY <1>1, DeltaParts DEF Reusable
    <3>2. ASSUME NEW k \in DormantKeys, k \in Added(d) \cup E PROVE k \in left
      <4>1. PICK i \in DOMAIN dormant : dormant[i][1] = k
        BY DEF DormantKeys
      <4>2. i \in leaving
        BY <3>2, <4>1 DEF Staying
      <4>. QED  BY <4>1, <4>2
    <3>. QED  BY <3>1, <3>2
  <2>2. U \cap E = {}
    BY <1>1, DeltaParts
  <2>3. IsFiniteSet(left) /\ Cardinality(left) <= Cardinality(leaving)
    <3>1. [i \in leaving |-> dormant[i][1]] \in Surjection(leaving, left)
      BY DEF Surjection
    <3>. QED  BY <1>8, <3>1, FS_Surjection
  <2>. HIDE DEF left, leaving, U, E
  <2>4. /\ IsFiniteSet(U) /\ IsFiniteSet(E) /\ Cardinality(left) \in Nat
        /\ Cardinality(U \cup E) <= Cardinality(left)
    <3>1. U \cup E \subseteq left
      BY <2>1
    <3>. QED  BY <2>1, <2>3, <3>1, FS_Subset, FS_CardinalityType
  <2>5. Cardinality(U) \in Nat /\ Cardinality(E) \in Nat
    BY <2>4, FS_CardinalityType
  <2>6. Cardinality(U \cup E) = Cardinality(U) + Cardinality(E)
    BY <2>2, <2>4, UnionSize
  <2>. QED  BY <1>8, <2>3, <2>4, <2>5, <2>6
<1>10. order \in Seq(resting) /\ Len(order) = Cardinality(resting)
  <2>1. PICK c \in Nat : c = Cardinality(resting)
    BY <1>5
  <2>2. order \in [1..c -> resting]
    BY <1>2, <2>1 DEF SetToSeqs
  <2>. HIDE DEF resting
  <2>. QED  BY <2>1, <2>2
<1>11. Len(dormant') = Cardinality(Staying(d)) + Cardinality(resting)
  <2>1. PICK n \in Nat : n = Cardinality(Staying(d))
    BY <1>8
  <2>2. PICK kept : kept = [i \in 1..n |-> dormant[place[i]]]
    OBVIOUS
  <2>3. \A i \in 1..n : place[i] \in DOMAIN dormant
    BY <1>7, <2>1 DEF Ascending
  <2>4. \A i \in DOMAIN dormant : dormant[i] \in Keys \X (1..MaxGeneration)
    BY <1>1
  <2>5. kept \in Seq(Keys \X (1..MaxGeneration)) /\ Len(kept) = n
    <3>1. kept \in [1..n -> Keys \X (1..MaxGeneration)]
      BY <2>2, <2>3, <2>4
    <3>. QED  BY <3>1
  <2>6. dormant' = kept \o order
    BY <1>2, <2>1, <2>2
  <2>7. PICK T : kept \in Seq(T) /\ order \in Seq(T)
    <3>1. order \in Seq(resting \cup Keys \X (1..MaxGeneration))
      BY <1>10
    <3>2. kept \in Seq(resting \cup Keys \X (1..MaxGeneration))
      BY <2>5
    <3>. QED  BY <3>1, <3>2
  <2>8. Len(kept \o order) = Len(kept) + Len(order)
    BY <2>7, ConcatProperties
  <2>. QED  BY <1>10, <2>1, <2>5, <2>6, <2>8
<1>12. Len(dormant') <= DormantCapacity
  <2>1. DormantCapacity \in Nat
    BY DesiredSetsAssumption
  <2>2. slots = DormantCapacity - Len(dormant) + Cardinality(U) + Cardinality(E)
    OBVIOUS
  <2>. HIDE DEF slots, resting, U, E, places, leaving
  <2>3. Cardinality(resting) <= IF 0 < slots THEN slots ELSE 0
    <3>1. slots \in Int
      BY <1>6, <1>9, <2>1, <2>2
    <3>. QED  BY <1>3, <1>4, <1>5, <3>1
  <2>4. Cardinality(Staying(d)) <= Len(dormant) - Cardinality(U) - Cardinality(E)
    BY <1>6, <1>8, <1>9
  <2>5. Len(dormant) \in Nat /\ Len(dormant) <= DormantCapacity
    BY <1>1, <1>6
  <2>. QED  BY <1>5, <1>8, <1>9, <1>11, <2>1, <2>2, <2>3, <2>4, <2>5
<1>13. dormant' \in Seq(Keys \X (1..MaxGeneration))
  <2>1. /\ dormant' \in Seq(Keys \X Nat)
        /\ \A e \in Range(dormant') :
              \/ \E k \in retained : e = <<k, chunk[k].generation>>
              \/ e \in Range(dormant) /\ e[1] \notin Added(d) \cup Evicted(d)
    BY <1>1, <1>3, DormantAfter
  <2>2. \A k \in retained : chunk[k].generation \in 1..MaxGeneration
    <3>1. \A k \in retained : desired[k] # {} /\ k \in Keys
      BY <1>3 DEF Removed
    <3>2. \A k \in retained : chunk[k].status # "Absent"
      BY <1>1, <3>1, AgreesAll DEF Agrees
    <3>. QED  BY <1>4, <3>2 DEF TypedInv, TypeOK, Versions, Numbered
  <2>3. \A e \in Range(dormant) : e \in Keys \X (1..MaxGeneration)
    BY <1>1 DEF Range
  <2>4. \A i \in 1..Len(dormant') : dormant'[i] \in Keys \X (1..MaxGeneration)
    <3>1. \A i \in 1..Len(dormant') : dormant'[i] \in Range(dormant')
      BY <2>1 DEF Range
    <3>2. \A e \in Range(dormant') : e \in Keys \X (1..MaxGeneration)
      <4>1. \A k \in retained : <<k, chunk[k].generation>> \in Keys \X (1..MaxGeneration)
        BY <1>4, <2>2
      <4>. QED  BY <2>1, <2>3, <4>1
    <3>. QED  BY <3>1, <3>2
  <2>. QED  BY <2>1, <2>4
<1>. QED  BY <1>12, <1>13


-----------------------------------------------------------------------------
(* The parts of the type invariant, by the tables they are about.          *)

DemandsFit == desired \in [Keys -> Demands \cup {{}}] /\ WantedFit

ChunksFit ==
    chunk \in [Keys -> Versions] /\ Numbered /\ Cardinality(Recorded) <= RecordCapacity

QueueFits ==
    /\ jobs \subseteq Keys \X (1..MaxGeneration) \X {"Sample", "Mesh"}
    /\ Cardinality(jobs) <= ActiveCapacity

ExpectationType ==
    [generation : 0..MaxGeneration, world : 0..MaxWorld, roles : SUBSET Roles,
     shape : (0..MaxWorld) \cup {NoShape}, staged : BOOLEAN, refresh : BOOLEAN]

ExpectationsFit == app \in [Keys -> ExpectationType]

DormantFit == dormant \in Seq(Keys \X (1..MaxGeneration)) /\ Len(dormant) <= DormantCapacity

AppliesFit ==
    /\ renders \in 0..ActiveCapacity
    /\ shapes \subseteq Keys \X (1..MaxGeneration) /\ Cardinality(shapes) <= ActiveCapacity

AnswersFit ==
    /\ sent \in [Keys -> [generation : 0..MaxGeneration, world : 0..MaxWorld]]
    /\ attempts \in [Keys -> Waits]

WorkFits ==
    /\ cached \in [Keys -> SUBSET Resources]
    /\ early \subseteq Keys /\ meshed \subseteq Keys /\ remeshes \subseteq Keys

CountersFit ==
    /\ issued \in 0..MaxGeneration /\ world \in 0..MaxWorld
    /\ touched \in [Keys -> 0..MaxWorld] /\ owed \in BOOLEAN /\ failure \in Failures

Fits ==
    /\ DemandsFit /\ ChunksFit /\ QueueFits /\ ExpectationsFit /\ DormantFit
    /\ AppliesFit /\ AnswersFit /\ WorkFits /\ CountersFit

\* The chunks expected are those the viewers want.
LEMMA TypedInvIsFits == TypedInv <=> IInv /\ Fits
<1>1. IInv /\ TypeOK /\ Numbered /\ WantedFit => Fits
  BY DEF TypeOK, Fits, DemandsFit, ChunksFit, QueueFits, ExpectationsFit, ExpectationType,
         DormantFit, AppliesFit, AnswersFit, WorkFits, CountersFit
<1>2. ASSUME IInv, Fits PROVE TypeOK
  <2>1. Expected \subseteq Wanted
    <3>1. \A k \in Keys : Agrees(k)
      BY <1>2, AgreesAll DEF IInv, Tables
    <3>. QED  BY <3>1 DEF Agrees, Expected, Wanted
  <2>2. IsFiniteSet(Wanted) /\ Cardinality(Wanted) \in Nat
    BY KeySets DEF Wanted
  <2>3. Cardinality(Expected) <= Cardinality(Wanted) /\ Cardinality(Expected) \in Nat
    BY <2>1, <2>2, FS_Subset, FS_CardinalityType
  <2>4. Cardinality(Expected) <= ActiveCapacity
    <3>1. Cardinality(Wanted) <= ActiveCapacity
      BY <1>2 DEF Fits, DemandsFit, WantedFit
    <3>. QED  BY <2>2, <2>3, <3>1, DesiredSetsAssumption
  <2>. QED
    BY <1>2, <2>4
       DEF TypeOK, Fits, DemandsFit, ChunksFit, QueueFits, ExpectationsFit, ExpectationType,
           DormantFit, AppliesFit, AnswersFit, WorkFits, CountersFit
<1>3. Fits => Numbered /\ WantedFit
  BY DEF Fits, DemandsFit, ChunksFit
<1>. QED  BY <1>1, <1>2, <1>3 DEF TypedInv


-----------------------------------------------------------------------------
(* Capacities over a viewer event.                                         *)

\* New versions have numbers within the bound.
LEMMA NumbersBound ==
    ASSUME issued \in Nat, NEW S \in SUBSET Keys, NEW number \in Numberings(S),
           issued + Cardinality(S) <= MaxGeneration
    PROVE  /\ \A k \in S : number[k] \in 1..MaxGeneration
           /\ issued + Cardinality(S) \in 0..MaxGeneration
<1>1. PICK c \in Nat : c = Cardinality(S)
  BY KeySets
<1>2. number \in [S -> (issued + 1)..(issued + c)]
  BY <1>1 DEF Numberings, Bijection, Injection
<1>3. MaxGeneration \in Nat /\ issued + c <= MaxGeneration
  BY <1>1, DesiredSetsAssumption
<1>4. \A k \in S : number[k] \in (issued + 1)..(issued + c)
  BY <1>2
<1>. QED  BY <1>1, <1>3, <1>4

\* A new record within the bounds.
LEMMA VersionBound ==
    ASSUME NEW generation \in 1..MaxGeneration, NEW revision \in 0..MaxWorld
    PROVE  /\ Version(generation, revision) \in Versions
           /\ Version(generation, revision).status = "Sampling"
           /\ Version(generation, revision).generation = generation
BY DesiredSetsAssumption DEF Version, Versions

\* Chunks with a record have a version with a number, and what physics is sent
\* of any chunk is within the bounds.
LEMMA RecordBounds ==
    ASSUME TypedInv, NEW k \in Keys
    PROVE  /\ chunk[k].status # "Absent" => chunk[k].generation \in 1..MaxGeneration
           /\ desired[k] # {} => chunk[k].generation \in 1..MaxGeneration
           /\ Payload(chunk[k]) \in [generation : 0..MaxGeneration, world : 0..MaxWorld]
           /\ NoPayload \in [generation : 0..MaxGeneration, world : 0..MaxWorld]
<1>1. chunk[k] \in Versions /\ (chunk[k].status # "Absent" => chunk[k].generation # 0)
  BY DEF TypedInv, TypeOK, Numbered
<1>2. desired[k] # {} => chunk[k].status # "Absent"
  BY AgreesAll DEF TypedInv, IInv, Tables, Agrees
<1>3. MaxGeneration \in Nat /\ MaxWorld \in Nat
  BY DesiredSetsAssumption
<1>. QED  BY <1>1, <1>2, <1>3 DEF Versions, Payload, NoPayload

\* The records after a delta are within the bounds.
LEMMA ChunksFitAfter ==
    ASSUME TypedInv, NEW d \in Deltas, NEW retained \in Retainable(d),
           NEW number \in Numberings(Renewed(d)), NEW reopened \in SUBSET Reopenable(d),
           Outcome(d, retained, number, reopened),
           issued + Cardinality(Renewed(d)) <= MaxGeneration
    PROVE  /\ ChunksFit'
           /\ \A k \in Renewed(d) \cup reopened : chunk'[k].generation \in 1..MaxGeneration
<1>1. chunk' = VersionsAfter(d, Gone(d, retained), number, reopened)
  BY DEF Outcome
<1>2. \A k \in Renewed(d) : number[k] \in 1..MaxGeneration
  BY NumbersBound, DeltaKeys DEF TypedInv, IInv, Tables, Typed
<1>3. ASSUME NEW k \in Keys
      PROVE  /\ chunk'[k] \in Versions
             /\ chunk'[k].status # "Absent" => chunk'[k].generation # 0
             /\ k \in Renewed(d) \cup reopened => chunk'[k].generation \in 1..MaxGeneration
  <2>1. chunk'[k] = IF k \in Renewed(d) THEN Version(number[k], world)
                    ELSE IF k \in reopened THEN [chunk[k] EXCEPT !.status = "Sampling"]
                    ELSE IF k \in Gone(d, retained) THEN NoChunk
                    ELSE chunk[k]
    BY <1>1 DEF VersionsAfter
  <2>2. chunk[k] \in Versions /\ (chunk[k].status # "Absent" => chunk[k].generation # 0)
    BY DEF TypedInv, TypeOK, Numbered
  <2>3. CASE k \in Renewed(d)
    <3>1. PICK n \in 1..MaxGeneration : n = number[k]
      BY <1>2, <2>3
    <3>2. world \in 0..MaxWorld
      BY DEF TypedInv, TypeOK
    <3>3. chunk'[k] = Version(n, world)
      BY <2>1, <2>3, <3>1
    <3>4. chunk'[k] \in Versions /\ chunk'[k].generation = n
      BY <3>2, <3>3, VersionBound
    <3>. QED  BY <3>1, <3>4
  <2>4. CASE k \notin Renewed(d) /\ k \in reopened
    <3>1. chunk'[k] = [chunk[k] EXCEPT !.status = "Sampling"]
      BY <2>1, <2>4
    <3>2. chunk[k].status = "Ready"
      BY <2>4 DEF Reopenable
    <3>3. chunk[k].generation \in 1..MaxGeneration
      BY <3>2, RecordBounds
    <3>. QED  BY <2>2, <3>1, <3>3 DEF Versions
  <2>5. CASE k \notin Renewed(d) \cup reopened
    <3>1. chunk'[k] = NoChunk \/ chunk'[k] = chunk[k]
      BY <2>1, <2>5
    <3>2. NoChunk \in Versions /\ NoChunk.status = "Absent"
      BY DesiredSetsAssumption DEF NoChunk, Versions
    <3>. QED  BY <2>2, <2>5, <3>1, <3>2
  <2>. QED  BY <2>3, <2>4, <2>5
<1>4. chunk' = [k \in Keys |-> chunk'[k]]
  BY <1>1 DEF VersionsAfter
<1>5. chunk' \in [Keys -> Versions]
  BY <1>3, <1>4
<1>6. Renewed(d) \cup reopened \subseteq Keys
  BY DeltaKeys
<1>7. Cardinality(Recorded') <= RecordCapacity
  BY RecordsFitAfter
<1>. QED  BY <1>3, <1>5, <1>6, <1>7 DEF ChunksFit, Numbered

\* So are the expectations.
LEMMA ExpectationsFitAfter ==
    ASSUME TypedInv, NEW d \in Deltas, NEW retained \in SUBSET Removed(d),
           NEW number \in Numberings(Renewed(d)), NEW reopened \in SUBSET Reopenable(d),
           Outcome(d, retained, number, reopened), ChunksFit'
    PROVE  ExpectationsFit'
<1>1. Typed /\ RecordsAgree
  BY DEF TypedInv, IInv, Tables
<1>2. ASSUME NEW k \in Keys PROVE app'[k] \in ExpectationType
  <2>1. /\ app'[k] \in ApplicationType /\ app'[k].shape \in {NoShape, app[k].shape}
        /\ k \in Added(d) \cup Remeshed(d) =>
              /\ app'[k].generation = chunk'[k].generation
              /\ app'[k].world = chunk'[k].world
        /\ k \in Updated(d) \ Remeshed(d) =>
              /\ app'[k].generation = app[k].generation /\ app'[k].world = app[k].world
        /\ k \notin Added(d) \cup Removed(d) \cup Updated(d) => app'[k] = app[k]
    BY <1>1, ExpectationsAfter
  <2>2. app[k] \in ExpectationType /\ chunk'[k] \in Versions
    BY DEF TypedInv, TypeOK, ExpectationType, ChunksFit
  <2>3. app'[k].generation \in 0..MaxGeneration /\ app'[k].world \in 0..MaxWorld
    <3>1. CASE k \in Removed(d)
      <4>1. app'[k] = NoApplication
        <5>1. app'[k] = ApplicationOf(d, k, chunk'[k])
          BY DEF Outcome, ApplicationAfter
        <5>2. k \notin Added(d) \cup Updated(d) /\ k \notin Remeshed(d) \cup CollisionOnly(d)
          BY <3>1 DEF Removed, Added, Updated, Remeshed, CollisionOnly, Gains
        <5>. QED  BY <3>1, <5>1, <5>2 DEF ApplicationOf
      <4>. QED  BY <4>1, DesiredSetsAssumption DEF NoApplication
    <3>2. CASE k \in Added(d) \cup Remeshed(d)
      BY <2>1, <2>2, <3>2 DEF Versions
    <3>3. CASE k \in Updated(d) \ Remeshed(d)
      BY <2>1, <2>2, <3>3 DEF ExpectationType
    <3>4. CASE k \notin Added(d) \cup Removed(d) \cup Updated(d)
      BY <2>1, <2>2, <3>4 DEF ExpectationType
    <3>. QED  BY <3>1, <3>2, <3>3, <3>4
  <2>4. app'[k].shape \in (0..MaxWorld) \cup {NoShape}
    BY <2>1, <2>2 DEF ExpectationType
  <2>. QED  BY <2>1, <2>3, <2>4 DEF ApplicationType, ExpectationType
<1>3. app' = [k \in Keys |-> app'[k]]
  BY DEF Outcome, ApplicationAfter
<1>. QED  BY <1>2, <1>3 DEF ExpectationsFit


\* The queue is a finite set.
LEMMA JobsFinite ==
    ASSUME TypedInv
    PROVE  IsFiniteSet(jobs) /\ Cardinality(jobs) \in Nat
<1>1. PICK m \in Nat : m = MaxGeneration
  BY DesiredSetsAssumption
<1>2. IsFiniteSet(1..m)
  <2>1. m \in Int /\ 1 \in Int
    OBVIOUS
  <2>. QED  BY <2>1, FS_Interval
<1>3. IsFiniteSet({"Sample", "Mesh"})
  <2>1. IsFiniteSet({"Sample"})
    BY FS_Singleton
  <2>2. IsFiniteSet({"Sample"} \cup {"Mesh"})
    BY <2>1, FS_AddElement
  <2>3. {"Sample"} \cup {"Mesh"} = {"Sample", "Mesh"}
    OBVIOUS
  <2>. QED  BY <2>2, <2>3
<1>4. IsFiniteSet(Keys \X ((1..m) \X {"Sample", "Mesh"}))
  BY <1>2, <1>3, FS_Product, DesiredSetsAssumption
<1> DEFINE flat == {<<j[1], <<j[2], j[3]>>>> : j \in jobs}
<1>5. jobs \subseteq Keys \X (1..m) \X {"Sample", "Mesh"}
  BY <1>1 DEF TypedInv, TypeOK
<1>6. flat \subseteq Keys \X ((1..m) \X {"Sample", "Mesh"})
  BY <1>5
<1>7. IsFiniteSet(flat)
  BY <1>4, <1>6, FS_Subset
<1>8. [j \in jobs |-> <<j[1], <<j[2], j[3]>>>>] \in Injection(jobs, flat)
  <2>1. \A i, j \in jobs : <<i[1], <<i[2], i[3]>>>> = <<j[1], <<j[2], j[3]>>>> => i = j
    BY <1>5
  <2>. QED  BY <2>1 DEF Injection, IsInjective
<1>. HIDE DEF flat
<1>. QED  BY <1>7, <1>8, FS_Injection, FS_CardinalityType

\* The jobs of the new versions and reopened chunks find the slots counted.
LEMMA QueueFitsAfter ==
    ASSUME TypedInv, NEW d \in Deltas, NEW retained \in Retainable(d), NEW lent,
           NEW number \in Numberings(Renewed(d)), NEW reopened \in SUBSET Reopenable(d),
           Applied(d, retained, lent, number, reopened),
           \A k \in Renewed(d) \cup reopened : chunk'[k].generation \in 1..MaxGeneration
    PROVE  QueueFits'
<1> DEFINE gone == Gone(d, retained)
           kept == {j \in jobs : j[1] \notin gone}
           S == Renewed(d) \cup reopened
           more == {<<k, chunk'[k].generation, "Sample">> : k \in S}
<1>1. /\ jobs \subseteq Keys \X (1..MaxGeneration) \X {"Sample", "Mesh"}
      /\ ActiveCapacity \in Nat
  BY DesiredSetsAssumption DEF TypedInv, TypeOK
<1>2. /\ jobs' = kept \cup more
      /\ Cardinality(S) <= ActiveCapacity - Cardinality(kept)
  <2>1. reopened \cup Renewed(d) = S
    OBVIOUS
  <2>2. /\ chunk' = VersionsAfter(d, gone, number, reopened)
        /\ jobs' = kept \cup
              {<<k, VersionsAfter(d, gone, number, reopened)[k].generation, "Sample">> : k \in S}
        /\ Cardinality(reopened \cup Renewed(d)) <= ActiveCapacity - Cardinality(kept)
    BY DEF Applied, SlotsAfter, Room
  <2>. QED  BY <2>1, <2>2
<1>3. S \subseteq Keys
  BY DeltaKeys
<1>4. IsFiniteSet(more) /\ Cardinality(more) \in Nat /\ Cardinality(more) <= Cardinality(S)
  <2>1. PICK f : f = [k \in Keys |-> <<k, chunk'[k].generation, "Sample">>]
    OBVIOUS
  <2>2. more = {f[k] : k \in S}
    BY <1>3, <2>1
  <2>. HIDE DEF more, S
  <2>. QED  BY <1>3, <2>2, ImagesOfKeys
<1>5. IsFiniteSet(kept) /\ Cardinality(kept) \in Nat
  <2>1. kept \subseteq jobs
    OBVIOUS
  <2>. QED  BY <2>1, JobsFinite, FS_Subset, FS_CardinalityType
<1>6. jobs' \subseteq Keys \X (1..MaxGeneration) \X {"Sample", "Mesh"}
  BY <1>1, <1>2, <1>3
<1>7. Cardinality(S) \in Nat
  BY <1>3, KeySets
<1>. HIDE DEF kept, more, S
<1>8. Cardinality(kept \cup more) \in Nat
      /\ Cardinality(kept \cup more) <= Cardinality(kept) + Cardinality(more)
  BY <1>4, <1>5, UnionSize
<1>9. Cardinality(jobs') <= ActiveCapacity
  BY <1>1, <1>2, <1>4, <1>5, <1>7, <1>8
<1>. QED  BY <1>6, <1>9 DEF QueueFits

\* What is left of the other tables has its type.
LEMMA OthersFitAfter ==
    ASSUME TypedInv, NEW d \in Deltas, ViewerEvent(d), NEW retained \in Retainable(d),
           NEW lent \in {{}, Outgoing(d)}, NEW number \in Numberings(Renewed(d)),
           NEW reopened \in SUBSET Reopenable(d),
           Applied(d, retained, lent, number, reopened)
    PROVE  AppliesFit' /\ AnswersFit' /\ WorkFits' /\ CountersFit'
<1>. USE DEF TypedInv, TypeOK
<1>1. AppliesFit'
  <2>1. /\ renders + Cardinality(RenderSubmissions(d)) <= ActiveCapacity
        /\ Cardinality(shapes \cup ShapeSubmissions(d)) <= ActiveCapacity
    BY DEF ViewerEvent, QueuesFit
  <2>2. /\ renders' = renders + Cardinality(RenderSubmissions(d))
        /\ shapes' = shapes \cup ShapeSubmissions(d)
    BY DEF Applied
  <2>3. Cardinality(RenderSubmissions(d)) \in Nat
    <3>1. RenderSubmissions(d) \subseteq Keys
      BY DeltaKeys DEF RenderSubmissions, Gains
    <3>. QED  BY <3>1, KeySets
  <2>4. renders' \in 0..ActiveCapacity
    BY <2>1, <2>2, <2>3, DesiredSetsAssumption
  <2>5. ShapeSubmissions(d) \subseteq Keys \X (1..MaxGeneration)
    <3>1. SUFFICES ASSUME NEW k \in Submitted(d) \cup Reusable(d)
                   PROVE  k \in Keys /\ chunk[k].generation \in 1..MaxGeneration
      BY DEF ShapeSubmissions
    <3>2. k \in Keys
      BY DeltaKeys
    <3>3. desired[k] # {} \/ chunk[k].status # "Absent"
      BY DeltaKeys DEF Updated, Reusable
    <3>. QED  BY <3>2, <3>3, RecordBounds
  <2>. QED  BY <2>1, <2>2, <2>4, <2>5 DEF AppliesFit
<1>2. AnswersFit'
  <2>1. PICK S : sent' = [k \in Keys |-> IF k \in S THEN Payload(chunk[k]) ELSE sent[k]]
    BY DEF Applied
  <2>2. attempts' = [k \in Keys |-> IF k \in Offered(d) \cup OfferedAgain(d) THEN "Answer"
                                    ELSE IF k \in Removed(d) \cup Renewed(d) THEN "None"
                                    ELSE attempts[k]]
    BY DEF Applied
  <2>3. \A k \in Keys :
            Payload(chunk[k]) \in [generation : 0..MaxGeneration, world : 0..MaxWorld]
    BY RecordBounds
  <2>4. \A k \in Keys :
            /\ sent[k] \in [generation : 0..MaxGeneration, world : 0..MaxWorld]
            /\ attempts[k] \in Waits
    OBVIOUS
  <2>. QED  BY <2>1, <2>2, <2>3, <2>4 DEF AnswersFit, Waits
<1>3. WorkFits'
  <2>1. PICK gone : cached' = CachedAfter(d, gone, lent)
    BY DEF Applied
  <2>2. cached' \in [Keys -> SUBSET Resources]
    <3>1. \A k \in Keys : cached[k] \in SUBSET Resources
      OBVIOUS
    <3>. QED  BY <2>1, <3>1 DEF CachedAfter, Resources
  <2>3. early' \subseteq early /\ meshed' \subseteq meshed
        /\ remeshes' \subseteq remeshes \cup Reopenable(d)
    BY DEF Applied
  <2>. QED  BY <2>2, <2>3, DeltaKeys DEF WorkFits
<1>4. CountersFit'
  <2>1. /\ issued + Cardinality(Renewed(d)) <= EventGenerations
        /\ issued' = issued + Cardinality(Renewed(d)) /\ owed' = TRUE
    BY DEF Applied
  <2>2. Cardinality(Renewed(d)) \in Nat
    BY DeltaKeys, KeySets
  <2>3. issued' \in 0..MaxGeneration
    BY <2>1, <2>2, DesiredSetsAssumption
  <2>4. UNCHANGED <<world, touched, failure>>
    BY DEF ViewerEvent
  <2>. QED  BY <2>1, <2>3, <2>4 DEF CountersFit
<1>. QED  BY <1>1, <1>2, <1>3, <1>4

\* A viewer event that passed its preflight overfills no table.
LEMMA ViewerEventFits ==
    ASSUME TypedInv, NEW d \in Deltas, ViewerEvent(d)
    PROVE  Fits'
<1>1. PICK retained \in Retainable(d), lent \in {{}, Outgoing(d)},
           number \in Numberings(Renewed(d)), reopened \in SUBSET Reopenable(d) :
           /\ Applied(d, retained, lent, number, reopened)
           /\ Outcome(d, retained, number, reopened)
  BY ViewerEventParts
<1>2. issued + Cardinality(Renewed(d)) <= MaxGeneration
  <2>1. issued + Cardinality(Renewed(d)) <= EventGenerations
    BY <1>1 DEF Applied
  <2>2. Cardinality(Renewed(d)) \in Nat /\ issued \in Nat
    BY DeltaKeys, KeySets DEF TypedInv, IInv, Tables, Typed
  <2>. QED  BY <2>1, <2>2, DesiredSetsAssumption
<1>3. DemandsFit'
  <2>1. desired' = d.roles
    BY <1>1 DEF Outcome
  <2>2. d.roles \in [Keys -> Demands \cup {{}}]
    BY DEF Deltas
  <2>3. Cardinality({k \in Keys : d.roles[k] # {}}) <= ActiveCapacity
    BY DEF ViewerEvent, Accepted
  <2>. QED  BY <2>1, <2>2, <2>3 DEF DemandsFit, WantedFit, Wanted
<1>4. ChunksFit' /\ \A k \in Renewed(d) \cup reopened : chunk'[k].generation \in 1..MaxGeneration
  BY <1>1, <1>2, ChunksFitAfter
<1>5. QueueFits'
  BY <1>1, <1>4, QueueFitsAfter
<1>6. ExpectationsFit'
  <2>1. retained \in SUBSET Removed(d)
    BY DEF Retainable, kSubset
  <2>. QED  BY <1>1, <1>4, <2>1, ExpectationsFitAfter
<1>7. DormantFit'
  <2>1. Rested(d, retained)
    BY <1>1 DEF Outcome
  <2>. QED  BY <2>1, DormantFitAfter DEF DormantFit
<1>8. AppliesFit' /\ AnswersFit' /\ WorkFits' /\ CountersFit'
  BY <1>1, OthersFitAfter
<1>. QED  BY <1>3, <1>4, <1>5, <1>6, <1>7, <1>8 DEF Fits


-----------------------------------------------------------------------------
(* Capacities over the other steps.                                        *)

\* New jobs that find room in the queue do not overfill it.
LEMMA QueueGrows ==
    ASSUME TypedInv, NEW more, more \subseteq Keys \X (1..MaxGeneration) \X {"Sample", "Mesh"},
           IsFiniteSet(more), Cardinality(more) <= Room(jobs), jobs' = jobs \cup more
    PROVE  QueueFits'
<1>1. IsFiniteSet(jobs) /\ Cardinality(jobs) \in Nat
  BY JobsFinite
<1>2. /\ Cardinality(jobs \cup more) <= Cardinality(jobs) + Cardinality(more)
      /\ Cardinality(jobs \cup more) \in Nat
  BY <1>1, UnionSize
<1>3. Cardinality(more) \in Nat /\ Cardinality(more) <= ActiveCapacity - Cardinality(jobs)
  BY FS_CardinalityType DEF Room
<1>4. Cardinality(jobs') <= ActiveCapacity
  BY <1>1, <1>2, <1>3, DesiredSetsAssumption
<1>5. jobs' \subseteq Keys \X (1..MaxGeneration) \X {"Sample", "Mesh"}
  BY DEF TypedInv, TypeOK
<1>. QED  BY <1>4, <1>5 DEF QueueFits

LEMMA QueueShrinks ==
    ASSUME TypedInv, jobs' \subseteq jobs
    PROVE  QueueFits'
<1>1. Cardinality(jobs') <= Cardinality(jobs) /\ Cardinality(jobs') \in Nat
  BY JobsFinite, FS_Subset, FS_CardinalityType
<1>2. Cardinality(jobs) \in Nat
  BY JobsFinite
<1>. QED  BY <1>1, <1>2, DesiredSetsAssumption DEF QueueFits, TypedInv, TypeOK

\* Records that change no more than their status keep their bounds.
LEMMA StatusFits ==
    ASSUME TypedInv, chunk' \in [Keys -> Versions],
           \A k \in Keys : /\ chunk'[k].status = "Absent" <=> chunk[k].status = "Absent"
                           /\ chunk'[k].generation = chunk[k].generation
    PROVE  ChunksFit'
<1>1. Recorded' = Recorded
  BY DEF Recorded
<1>. QED  BY <1>1 DEF ChunksFit, Numbered, TypedInv, TypeOK

\* Parts whose tables a step leaves alone.
LEMMA UntouchedFits ==
    ASSUME TypedInv
    PROVE  /\ UNCHANGED desired => DemandsFit'
           /\ UNCHANGED chunk => ChunksFit'
           /\ UNCHANGED app => ExpectationsFit'
           /\ UNCHANGED dormant => DormantFit'
           /\ UNCHANGED <<renders, shapes>> => AppliesFit'
<1>. USE DEF TypedInv, TypeOK
<1>1. UNCHANGED desired => DemandsFit'
  BY DEF DemandsFit, WantedFit, Wanted
<1>2. UNCHANGED chunk => ChunksFit'
  BY DEF ChunksFit, Numbered, Recorded
<1>3. UNCHANGED app => ExpectationsFit'
  BY DEF ExpectationsFit, ExpectationType
<1>4. UNCHANGED dormant => DormantFit'
  BY DEF DormantFit
<1>5. UNCHANGED <<renders, shapes>> => AppliesFit'
  BY DEF AppliesFit
<1>. QED  BY <1>1, <1>2, <1>3, <1>4, <1>5

\* New versions for chunks whose jobs find room.
LEMMA RegenerateFits ==
    ASSUME TypedInv, NEW K \in SUBSET Keys, \A k \in K : desired[k] # {},
           Cardinality(K) <= Room(jobs), issued + Cardinality(K) <= MaxGeneration,
           NEW revision \in 0..MaxWorld, NEW staged, Regenerate(K, revision, staged),
           UNCHANGED <<desired, dormant, renders, shapes, sent, failure>>,
           remeshes' \subseteq remeshes, owed' \in BOOLEAN,
           world' \in 0..MaxWorld, touched' \in [Keys -> 0..MaxWorld]
    PROVE  Fits'
<1>1. PICK number \in Numberings(K) :
          /\ issued' = issued + Cardinality(K)
          /\ chunk' = [k \in Keys |-> IF k \in K THEN Version(number[k], revision) ELSE chunk[k]]
          /\ jobs' = jobs \cup {<<k, number[k], "Sample">> : k \in K}
          /\ app' = [k \in Keys |->
                IF k \in K THEN Expectation(k, Version(number[k], revision), desired[k],
                                             k \in staged, k \in staged)
                ELSE app[k]]
          /\ cached' = [k \in Keys |-> IF k \in K THEN {} ELSE cached[k]]
          /\ attempts' = [k \in Keys |-> IF k \in K THEN "None" ELSE attempts[k]]
          /\ early' = early \ K /\ meshed' = meshed \ K
  BY DEF Regenerate
<1>2. /\ \A k \in K : number[k] \in 1..MaxGeneration
      /\ issued + Cardinality(K) \in 0..MaxGeneration
  BY NumbersBound DEF TypedInv, IInv, Tables, Typed
<1>3. \A k \in Keys : chunk[k] \in Versions /\ app[k] \in ExpectationType
  BY DEF TypedInv, TypeOK, ExpectationType
<1>4. ASSUME NEW k \in K
      PROVE  /\ chunk'[k] \in Versions /\ chunk'[k].status = "Sampling"
             /\ chunk'[k].generation \in 1..MaxGeneration
             /\ app'[k] \in ExpectationType
  <2>1. PICK n \in 1..MaxGeneration : n = number[k]
    BY <1>2
  <2>2. PICK version : version = Version(n, revision)
    OBVIOUS
  <2>3. version \in Versions /\ version.status = "Sampling" /\ version.generation = n
    BY <2>2, VersionBound
  <2>4. chunk'[k] = version
    BY <1>1, <2>1, <2>2
  <2>5. PICK e : e = app'[k]
    OBVIOUS
  <2>6. e = Expectation(k, version, desired[k], k \in staged, k \in staged)
    BY <1>1, <2>1, <2>2, <2>5
  <2>7. desired[k] \in SUBSET Roles /\ app[k].shape \in (0..MaxWorld) \cup {NoShape}
    BY <1>3 DEF TypedInv, IInv, Tables, Typed, ExpectationType
  <2>8. version.generation \in 0..MaxGeneration /\ version.world \in 0..MaxWorld
    BY <2>3 DEF Versions
  <2>9. e \in ExpectationType
    BY <2>6, <2>7, <2>8 DEF Expectation, ExpectationType
  <2>. QED  BY <2>3, <2>4, <2>5, <2>9
<1>5. \A k \in Keys : k \notin K => chunk'[k] = chunk[k] /\ app'[k] = app[k]
  BY <1>1
<1>6. ChunksFit'
  <2>1. chunk' \in [Keys -> Versions]
    BY <1>1, <1>3, <1>4, <1>5
  <2>2. \A k \in Keys : chunk'[k].status # "Absent" => chunk'[k].generation # 0
    BY <1>4, <1>5, DesiredSetsAssumption DEF TypedInv, Numbered
  <2>3. Recorded' = Recorded
    <3>1. \A k \in K : chunk[k].status # "Absent"
      BY AgreesAll DEF TypedInv, IInv, Tables, Agrees
    <3>. QED  BY <1>4, <1>5, <3>1 DEF Recorded
  <2>. QED  BY <2>1, <2>2, <2>3 DEF ChunksFit, Numbered, TypedInv, TypeOK
<1>7. ExpectationsFit'
  <2>1. \A k \in Keys : app'[k] \in ExpectationType
    BY <1>3, <1>4, <1>5
  <2>2. app' = [k \in Keys |-> app'[k]]
    BY <1>1
  <2>. QED  BY <2>1, <2>2 DEF ExpectationsFit
<1>8. QueueFits'
  <2> DEFINE more == {<<k, number[k], "Sample">> : k \in K}
  <2>1. more \subseteq Keys \X (1..MaxGeneration) \X {"Sample", "Mesh"}
    BY <1>2
  <2>2. IsFiniteSet(more) /\ Cardinality(more) \in Nat /\ Cardinality(more) <= Cardinality(K)
    <3>1. PICK f : f = [k \in Keys |-> <<k, number[k], "Sample">>]
      OBVIOUS
    <3>2. more = {f[k] : k \in K}
      BY <3>1
    <3>. HIDE DEF more
    <3>. QED  BY <3>2, ImagesOfKeys
  <2>3. Cardinality(K) \in Nat /\ Room(jobs) \in Int
    BY KeySets, JobsFinite, DesiredSetsAssumption DEF Room
  <2>4. jobs' = jobs \cup more
    BY <1>1
  <2>. HIDE DEF more
  <2>5. Cardinality(more) <= Room(jobs)
    BY <2>2, <2>3
  <2>. QED  BY <2>1, <2>2, <2>4, <2>5, QueueGrows
<1>9. AnswersFit' /\ WorkFits' /\ CountersFit'
  BY <1>1, <1>2
     DEF AnswersFit, WorkFits, CountersFit, TypedInv, TypeOK, Waits, Resources
<1>10. DemandsFit' /\ DormantFit' /\ AppliesFit'
  BY UntouchedFits
<1>. QED  BY <1>6, <1>7, <1>8, <1>9, <1>10 DEF Fits


\* The three steps that ask for new versions.
LEMMA RemeshPassFits ==
    ASSUME TypedInv, RemeshPass
    PROVE  Fits'
<1> DEFINE lost == {k \in remeshes : desired[k] = {}}
           busy == {k \in remeshes : chunk[k].status \in {"Sampling", "Meshing"}}
           due == remeshes \ (lost \cup busy)
<1>1. PICK K \in kSubset(Min({Cardinality(due), Room(jobs)}), due), unseen \in SUBSET lost :
          /\ issued + Cardinality(K) <= MaxGeneration
          /\ Regenerate(K, world, K)
          /\ remeshes' = remeshes \ (K \cup (lost \ unseen))
  BY DEF RemeshPass
<1>2. /\ UNCHANGED <<desired, dormant, renders, shapes, sent, world, touched, failure>>
      /\ owed' = FALSE
  BY DEF RemeshPass
<1>3. K \in SUBSET Keys /\ \A k \in K : desired[k] # {}
  BY DEF kSubset, TypedInv, TypeOK
<1>4. Cardinality(K) <= Room(jobs)
  <2>1. PICK a, b : a = Cardinality(due) /\ b = Room(jobs)
    OBVIOUS
  <2>2. a \in Int
    <3>1. due \subseteq Keys
      BY DEF TypedInv, TypeOK
    <3>. QED  BY <2>1, <3>1, KeySets
  <2>3. b \in Int
    BY <2>1, JobsFinite, DesiredSetsAssumption DEF Room
  <2>4. Min({a, b}) <= b
    BY <2>2, <2>3, LeastOfTwo
  <2>5. Cardinality(K) = Min({a, b})
    BY <2>1 DEF kSubset
  <2>. QED  BY <2>1, <2>4, <2>5
<1>5. /\ world \in 0..MaxWorld /\ world' \in 0..MaxWorld
      /\ touched' \in [Keys -> 0..MaxWorld] /\ owed' \in BOOLEAN
  BY <1>2 DEF TypedInv, TypeOK
<1>6. remeshes' \subseteq remeshes /\ Regenerate(K, world, K)
      /\ issued + Cardinality(K) <= MaxGeneration
  BY <1>1
<1>. HIDE DEF lost, busy, due
<1>. QED  BY <1>2, <1>3, <1>4, <1>5, <1>6, RegenerateFits

LEMMA EditFits ==
    ASSUME TypedInv, NEW T \in SUBSET Keys, Edit(T)
    PROVE  Fits'
<1>1. PICK K : K = EditTargets(T)
  OBVIOUS
<1>2. K \in SUBSET Keys /\ \A k \in K : desired[k] # {}
  BY <1>1 DEF EditTargets
<1>3. /\ world < MaxWorld /\ world' = world + 1
      /\ Cardinality(K) <= Room(jobs) /\ issued + Cardinality(K) <= EventGenerations
      /\ touched' = [k \in Keys |-> IF k \in T THEN world + 1 ELSE touched[k]]
      /\ Regenerate(K, world + 1, K)
      /\ UNCHANGED <<desired, dormant, renders, shapes, sent, remeshes, owed, failure>>
  BY <1>1 DEF Edit
<1>4. PICK revision \in 0..MaxWorld : revision = world + 1
  BY <1>3, DesiredSetsAssumption DEF TypedInv, TypeOK
<1>5. issued + Cardinality(K) <= MaxGeneration
  <2>1. Cardinality(K) \in Nat /\ issued \in Nat
    BY <1>2, KeySets DEF TypedInv, IInv, Tables, Typed
  <2>. QED  BY <1>3, <2>1, DesiredSetsAssumption
<1>6. touched' \in [Keys -> 0..MaxWorld] /\ world' \in 0..MaxWorld
  BY <1>3, <1>4 DEF TypedInv, TypeOK
<1>7. remeshes' \subseteq remeshes /\ owed' \in BOOLEAN
  BY <1>3 DEF TypedInv, TypeOK
<1>8. Regenerate(K, revision, K)
  BY <1>3, <1>4
<1>. QED  BY <1>2, <1>3, <1>5, <1>6, <1>7, <1>8, RegenerateFits

LEMMA VisualRepairsFits ==
    ASSUME TypedInv, VisualRepairs
    PROVE  Fits'
<1>1. PICK K, staged : K = Unseen /\ staged = {k \in Unseen : app[k].staged}
  OBVIOUS
<1>2. /\ jobs = {} /\ issued + Cardinality(K) <= MaxGeneration
      /\ Regenerate(K, world, staged)
      /\ UNCHANGED <<desired, dormant, renders, shapes, sent, remeshes, owed, world, touched,
                     failure>>
  BY <1>1 DEF VisualRepairs
<1>3. K \in SUBSET Keys /\ K \subseteq Wanted /\ \A k \in K : desired[k] # {}
  BY <1>1 DEF Unseen, Wanted
<1>4. Cardinality(K) <= Room(jobs)
  <2>1. IsFiniteSet(Wanted) /\ Cardinality(Wanted) \in Nat /\ Cardinality(K) \in Nat
    BY <1>3, KeySets DEF Wanted
  <2>2. Cardinality(K) <= Cardinality(Wanted)
    BY <1>3, <2>1, FS_Subset
  <2>3. Cardinality(Wanted) <= ActiveCapacity
    BY DEF TypedInv, WantedFit
  <2>4. Cardinality({}) = 0
    BY FS_EmptySet
  <2>. QED  BY <1>2, <2>1, <2>2, <2>3, <2>4, DesiredSetsAssumption DEF Room
<1>5. /\ world \in 0..MaxWorld /\ world' \in 0..MaxWorld
      /\ touched' \in [Keys -> 0..MaxWorld] /\ owed' \in BOOLEAN /\ remeshes' \subseteq remeshes
  BY <1>2 DEF TypedInv, TypeOK
<1>. QED  BY <1>2, <1>3, <1>4, <1>5, RegenerateFits

\* A delta that is refused, and a popped job.
LEMMA RefusalFits ==
    ASSUME TypedInv, NEW d \in Deltas, ViewerEventFails(d)
    PROVE  Fits'
<1>1. UNCHANGED <<desired, chunk, jobs, issued, early, meshed, app, cached, dormant, renders,
                  shapes, sent, attempts, remeshes, owed, world, touched>>
  BY DEF ViewerEventFails
<1>2. failure' \in Failures
  BY DEF ViewerEventFails, Refusal, Failures
<1>3. QueueFits'
  BY <1>1, QueueShrinks
<1>4. AnswersFit' /\ WorkFits' /\ CountersFit'
  BY <1>1, <1>2 DEF AnswersFit, WorkFits, CountersFit, TypedInv, TypeOK
<1>. QED  BY <1>1, <1>3, <1>4, UntouchedFits DEF Fits

LEMMA PopJobFits ==
    ASSUME TypedInv, NEW j \in jobs, PopJob(j)
    PROVE  Fits'
<1>1. /\ jobs' \subseteq jobs /\ (early' = early \/ early' = early \cup {j[1]})
      /\ UNCHANGED <<desired, chunk, issued, meshed, app, cached, dormant, renders, shapes,
                     sent, attempts, remeshes, owed, world, touched, failure>>
  BY DEF PopJob
<1>2. j[1] \in Keys
  BY DEF TypedInv, TypeOK
<1>3. QueueFits'
  BY <1>1, QueueShrinks
<1>4. AnswersFit' /\ WorkFits' /\ CountersFit'
  BY <1>1, <1>2 DEF AnswersFit, WorkFits, CountersFit, TypedInv, TypeOK
<1>. QED  BY <1>1, <1>3, <1>4, UntouchedFits DEF Fits

\* Setting the status of a record that is there.
LEMMA RecordStatusFits ==
    ASSUME TypedInv, NEW k \in Keys, chunk[k].status # "Absent",
           NEW status \in {"Sampling", "Meshing", "Ready", "Failed"},
           chunk' = [chunk EXCEPT ![k].status = status]
    PROVE  ChunksFit'
<1>1. \A q \in Keys : chunk[q] \in Versions
  BY DEF TypedInv, TypeOK
<1>2. /\ chunk' \in [Keys -> Versions]
      /\ \A q \in Keys : q # k => chunk'[q] = chunk[q]
      /\ chunk'[k].status = status /\ chunk'[k].generation = chunk[k].generation
  BY <1>1 DEF Versions, TypedInv, TypeOK
<1>3. \A q \in Keys : /\ chunk'[q].status = "Absent" <=> chunk[q].status = "Absent"
                      /\ chunk'[q].generation = chunk[q].generation
  BY <1>2
<1>. QED  BY <1>2, <1>3, StatusFits

LEMMA SampleDoneFits ==
    ASSUME TypedInv, NEW k \in Keys, SampleDone(k)
    PROVE  Fits'
<1>1. UNCHANGED <<desired, issued, early, meshed, app, cached, dormant, renders, shapes, sent,
                  attempts, remeshes, owed, world, touched, failure>>
  BY DEF SampleDone
<1>2. chunk[k].status # "Absent"
  BY DEF SampleDone, AtWork
<1>3. ChunksFit'
  <2>1. PICK status \in {"Sampling", "Meshing", "Ready", "Failed"} :
            chunk' = [chunk EXCEPT ![k].status = status]
    BY DEF SampleDone
  <2>. QED  BY <1>2, <2>1, RecordStatusFits
<1>4. QueueFits'
  <2>1. CASE UNCHANGED jobs
    BY <2>1, QueueShrinks
  <2>2. CASE Room(jobs) > 0 /\ jobs' = jobs \cup {<<k, chunk[k].generation, "Mesh">>}
    <3>1. PICK more : more = {<<k, chunk[k].generation, "Mesh">>}
      OBVIOUS
    <3>2. IsFiniteSet(more) /\ Cardinality(more) = 1
      BY <3>1, FS_Singleton
    <3>3. chunk[k].generation \in 1..MaxGeneration
      BY <1>2, RecordBounds
    <3>4. Cardinality(more) <= Room(jobs)
      BY <2>2, <3>2, JobsFinite, DesiredSetsAssumption DEF Room
    <3>5. more \subseteq Keys \X (1..MaxGeneration) \X {"Sample", "Mesh"}
      BY <3>1, <3>3
    <3>. QED  BY <2>2, <3>1, <3>2, <3>4, <3>5, QueueGrows
  <2>. QED  BY <2>1, <2>2 DEF SampleDone
<1>5. AnswersFit' /\ WorkFits' /\ CountersFit'
  BY <1>1 DEF AnswersFit, WorkFits, CountersFit, TypedInv, TypeOK
<1>. QED  BY <1>1, <1>3, <1>4, <1>5, UntouchedFits DEF Fits

\* A payload that is published, or is not.
LEMMA PublishFits ==
    ASSUME TypedInv, NEW k \in Keys, NEW condition, Publish(k, condition)
    PROVE  AnswersFit'
<1>1. Payload(chunk[k]) \in [generation : 0..MaxGeneration, world : 0..MaxWorld]
  BY RecordBounds
<1>2. PICK payload \in [generation : 0..MaxGeneration, world : 0..MaxWorld] :
          payload = Payload(chunk[k])
  BY <1>1
<1>3. /\ sent' = sent \/ sent' = [sent EXCEPT ![k] = payload]
      /\ attempts' = attempts \/ attempts' = [attempts EXCEPT ![k] = "Answer"]
  BY <1>2 DEF Publish
<1>4. PICK P : P = [generation : 0..MaxGeneration, world : 0..MaxWorld]
  OBVIOUS
<1>5. payload \in P /\ sent \in [Keys -> P] /\ attempts \in [Keys -> Waits]
  BY <1>4 DEF TypedInv, TypeOK
<1>6. sent' \in [Keys -> P]
  BY <1>3, <1>5
<1>7. attempts' \in [Keys -> Waits]
  BY <1>3, <1>5 DEF Waits
<1>. QED  BY <1>4, <1>6, <1>7 DEF AnswersFit

LEMMA MeshAcceptedFits ==
    ASSUME TypedInv, NEW k \in Keys, MeshAccepted(k)
    PROVE  Fits'
<1>1. /\ UNCHANGED <<desired, jobs, issued, early, app, dormant, renders, shapes, remeshes,
                     owed, world, touched, failure>>
      /\ chunk' = [chunk EXCEPT ![k].status = "Ready"] /\ meshed' = meshed \cup {k}
      /\ Publish(k, k \in early /\ "collision" \in app[k].roles)
  BY DEF MeshAccepted
<1>2. ChunksFit'
  <2>1. chunk[k].status # "Absent"
    BY DEF MeshAccepted, AtWork
  <2>. QED  BY <1>1, <2>1, RecordStatusFits
<1>3. cached' \in [Keys -> SUBSET Resources]
  <2>1. \/ cached' = cached
        \/ cached' = [cached EXCEPT ![k] = @ \cup {"collision"}]
        \/ cached' = [cached EXCEPT ![k] = @ \cup {"mesh", "collision"}]
    BY DEF MeshAccepted
  <2>2. cached \in [Keys -> SUBSET Resources]
    BY DEF TypedInv, TypeOK
  <2>3. {"collision"} \in SUBSET Resources /\ {"mesh", "collision"} \in SUBSET Resources
    BY DEF Resources
  <2>4. \/ cached' = cached
        \/ \E S \in SUBSET Resources : cached' = [cached EXCEPT ![k] = cached[k] \cup S]
    BY <2>1, <2>3
  <2>. QED  BY <2>2, <2>4
<1>4. WorkFits' /\ CountersFit'
  BY <1>1, <1>3 DEF WorkFits, CountersFit, TypedInv, TypeOK
<1>5. QueueFits' /\ AnswersFit'
  BY <1>1, QueueShrinks, PublishFits
<1>. QED  BY <1>1, <1>2, <1>4, <1>5, UntouchedFits DEF Fits

LEMMA MeshConsumedFits ==
    ASSUME TypedInv, NEW k \in Keys, MeshConsumed(k)
    PROVE  Fits'
<1>1. /\ UNCHANGED <<desired, chunk, jobs, issued, dormant, renders, shapes, remeshes,
                     owed, world, touched, failure>>
      /\ meshed' = meshed \ {k} /\ early' = early \ {k}
      /\ app' = [app EXCEPT ![k].refresh = FALSE]
      /\ \/ Publish(k, TRUE)
         \/ attempts' = StopWaiting(k) /\ UNCHANGED sent
  BY DEF MeshConsumed
<1>2. PICK S \in SUBSET Resources : cached' = [cached EXCEPT ![k] = @ \cup S]
  <2> DEFINE whole == "visual" \in app[k].roles /\ ~app[k].refresh
             late == whole /\ app[k].staged /\ "collision" \in app[k].roles /\ k \notin early
             S == (IF whole THEN {"mesh", "render"} ELSE {})
                     \cup (IF late THEN {"collision"} ELSE {})
  <2>1. cached' = [cached EXCEPT ![k] = @ \cup (IF whole THEN {"mesh", "render"} ELSE {})
                                          \cup (IF late THEN {"collision"} ELSE {})]
    BY DEF MeshConsumed
  <2>. HIDE DEF whole, late
  <2>2. S \in SUBSET Resources /\ cached' = [cached EXCEPT ![k] = @ \cup S]
    <3>1. S \in SUBSET Resources
      BY DEF Resources
    <3>2. cached' = [cached EXCEPT ![k] = cached[k] \cup S]
      BY <2>1
    <3>. QED  BY <3>1, <3>2
  <2>. HIDE DEF S
  <2>. QED  BY <2>2
<1>3. ExpectationsFit'
  <2>1. \A q \in Keys : app[q] \in ExpectationType
    BY DEF TypedInv, TypeOK, ExpectationType
  <2>. QED  BY <1>1, <2>1 DEF ExpectationsFit, ExpectationType, TypedInv, TypeOK
<1>4. WorkFits' /\ CountersFit'
  BY <1>1, <1>2 DEF WorkFits, CountersFit, TypedInv, TypeOK
<1>5. AnswersFit'
  <2>1. CASE Publish(k, TRUE)
    BY <2>1, PublishFits
  <2>2. CASE attempts' = StopWaiting(k) /\ UNCHANGED sent
    BY <2>2 DEF AnswersFit, StopWaiting, Waits, TypedInv, TypeOK
  <2>. QED  BY <1>1, <2>1, <2>2
<1>6. QueueFits'
  BY <1>1, QueueShrinks
<1>. QED  BY <1>1, <1>3, <1>4, <1>5, <1>6, UntouchedFits DEF Fits

LEMMA EvictCachedFits ==
    ASSUME TypedInv, NEW k \in Keys, NEW resource \in Evictable, EvictCached(k, resource)
    PROVE  Fits'
<1>1. /\ UNCHANGED <<desired, chunk, jobs, issued, early, meshed, app, dormant, renders, shapes,
                     sent, attempts, remeshes, owed, world, touched, failure>>
      /\ cached' = [cached EXCEPT ![k] = @ \ {resource}]
  BY DEF EvictCached
<1>2. AnswersFit' /\ WorkFits' /\ CountersFit'
  BY <1>1 DEF AnswersFit, WorkFits, CountersFit, TypedInv, TypeOK
<1>3. QueueFits'
  BY <1>1, QueueShrinks
<1>. QED  BY <1>1, <1>2, <1>3, UntouchedFits DEF Fits


LEMMA CollisionRepairsFits ==
    ASSUME TypedInv, NEW lapsed, CollisionRepairs(lapsed)
    PROVE  Fits'
<1> DEFINE served == {k \in Indebted(lapsed) : cached[k] \cap {"mesh", "collision"} # {}}
           resampled == {k \in Indebted(lapsed) \ served : app[k].refresh}
           replaced == Indebted(lapsed) \ (served \cup resampled)
           more == {<<k, chunk[k].generation, "Sample">> : k \in resampled}
<1>1. UNCHANGED <<desired, issued, meshed, dormant, renders, shapes, owed, world, touched>>
  BY DEF CollisionRepairs
<1>2. CASE /\ failure' = "CollisionRepair"
           /\ UNCHANGED <<app, cached, sent, chunk, jobs, attempts, early, remeshes>>
  <2>1. QueueFits'
    BY <1>2, QueueShrinks
  <2>2. AnswersFit' /\ WorkFits' /\ CountersFit'
    BY <1>1, <1>2 DEF AnswersFit, WorkFits, CountersFit, TypedInv, TypeOK, Failures
  <2>. QED  BY <1>1, <1>2, <2>1, <2>2, UntouchedFits DEF Fits
<1>3. CASE /\ Cardinality(resampled) <= Room(jobs)
           /\ app' = [k \in Keys |-> [app[k] EXCEPT !.refresh = @ /\ k \notin served]]
           /\ cached' = [k \in Keys |-> IF k \in served THEN cached[k] \cup {"collision"}
                                        ELSE cached[k]]
           /\ sent' = [k \in Keys |-> IF k \in served THEN Payload(chunk[k]) ELSE sent[k]]
           /\ chunk' = [k \in Keys |->
                 IF k \in resampled THEN [chunk[k] EXCEPT !.status = "Sampling"] ELSE chunk[k]]
           /\ jobs' = jobs \cup more
           /\ early' = early \ resampled
           /\ remeshes' = remeshes \cup replaced
           /\ attempts' = [k \in Keys |->
                 IF k \in served THEN "Answer"
                 ELSE IF k \in resampled \cup replaced THEN "Mesh"
                 ELSE IF k \in lapsed THEN "None"
                 ELSE attempts[k]]
           /\ UNCHANGED failure
  <2>1. /\ served \subseteq Keys /\ resampled \subseteq Keys /\ replaced \subseteq Keys
        /\ \A k \in resampled : chunk[k].status = "Ready"
    BY DEF Indebted
  <2>2. /\ more \subseteq Keys \X (1..MaxGeneration) \X {"Sample", "Mesh"}
        /\ IsFiniteSet(more) /\ Cardinality(more) \in Nat
        /\ Cardinality(more) <= Cardinality(resampled)
    <3>1. \A k \in resampled : chunk[k].generation \in 1..MaxGeneration
      BY <2>1, RecordBounds
    <3>2. PICK f : f = [k \in Keys |-> <<k, chunk[k].generation, "Sample">>]
      OBVIOUS
    <3>3. more = {f[k] : k \in resampled}
      BY <2>1, <3>2
    <3>4. more \subseteq Keys \X (1..MaxGeneration) \X {"Sample", "Mesh"}
      BY <2>1, <3>1
    <3>. HIDE DEF more, resampled
    <3>. QED  BY <2>1, <3>3, <3>4, ImagesOfKeys
  <2>. HIDE DEF served, resampled, replaced, more
  <2>3. QueueFits'
    <3>1. Cardinality(resampled) \in Nat /\ Room(jobs) \in Int
      BY <2>1, KeySets, JobsFinite, DesiredSetsAssumption DEF Room
    <3>2. Cardinality(more) <= Room(jobs)
      BY <1>3, <2>2, <3>1
    <3>. QED  BY <1>3, <2>2, <3>2, QueueGrows
  <2>4. ChunksFit'
    <3>1. \A k \in Keys : chunk[k] \in Versions
      BY DEF TypedInv, TypeOK
    <3>2. chunk' \in [Keys -> Versions]
      BY <1>3, <3>1 DEF Versions
    <3>3. \A k \in Keys : /\ chunk'[k].status = "Absent" <=> chunk[k].status = "Absent"
                          /\ chunk'[k].generation = chunk[k].generation
      BY <1>3, <2>1, <3>1 DEF Versions
    <3>. QED  BY <3>2, <3>3, StatusFits
  <2>5. ExpectationsFit'
    <3>1. \A k \in Keys : app[k] \in ExpectationType
      BY DEF TypedInv, TypeOK, ExpectationType
    <3>. QED  BY <1>3, <3>1 DEF ExpectationsFit, ExpectationType
  <2>6. AnswersFit'
    <3>1. PICK P : P = [generation : 0..MaxGeneration, world : 0..MaxWorld]
      OBVIOUS
    <3>2. \A k \in Keys : Payload(chunk[k]) \in P /\ sent[k] \in P /\ attempts[k] \in Waits
      BY <3>1, RecordBounds DEF TypedInv, TypeOK
    <3>3. sent' \in [Keys -> P] /\ attempts' \in [Keys -> Waits]
      BY <1>3, <3>2 DEF Waits
    <3>. QED  BY <3>1, <3>3 DEF AnswersFit
  <2>7. WorkFits' /\ CountersFit'
    BY <1>1, <1>3, <2>1 DEF WorkFits, CountersFit, TypedInv, TypeOK, Resources
  <2>. QED  BY <1>1, <2>3, <2>4, <2>5, <2>6, <2>7, UntouchedFits DEF Fits
<1>. QED  BY <1>2, <1>3 DEF CollisionRepairs

\* The answers of the frame thread.
LEMMA AnswerFits ==
    ASSUME TypedInv, NEW k \in Keys, Install(k) \/ Drop(k)
    PROVE  Fits'
<1>1. /\ UNCHANGED <<desired, chunk, jobs, issued, early, meshed, cached, dormant, renders,
                     shapes, remeshes, owed, world, touched, failure>>
      /\ sent' = [sent EXCEPT ![k] = NoPayload]
      /\ attempts' \in {attempts, [attempts EXCEPT ![k] = "None"]}
      /\ app' = app \/ app' = [app EXCEPT ![k].shape = app[k].world]
  BY DEF Install, Drop, Answered
<1>2. ExpectationsFit'
  <2>1. app[k].world \in 0..MaxWorld
    BY DEF TypedInv, TypeOK
  <2>2. app \in [Keys -> ExpectationType]
    BY DEF TypedInv, TypeOK, ExpectationType
  <2>3. [app EXCEPT ![k].shape = app[k].world] \in [Keys -> ExpectationType]
    BY <2>1, <2>2 DEF ExpectationType
  <2>. QED  BY <1>1, <2>2, <2>3 DEF ExpectationsFit
<1>3. AnswersFit'
  <2>1. NoPayload \in [generation : 0..MaxGeneration, world : 0..MaxWorld]
    BY RecordBounds
  <2>. QED  BY <1>1, <2>1 DEF AnswersFit, TypedInv, TypeOK, Waits
<1>4. WorkFits' /\ CountersFit'
  BY <1>1 DEF WorkFits, CountersFit, TypedInv, TypeOK
<1>5. QueueFits'
  BY <1>1, QueueShrinks
<1>. QED  BY <1>1, <1>2, <1>3, <1>4, <1>5, UntouchedFits DEF Fits

\* No step overfills a table.
LEMMA EveryStepFits ==
    ASSUME TypedInv, [Next]_vars
    PROVE  Fits'
<1>1. CASE UNCHANGED vars
  <2>1. UNCHANGED <<desired, chunk, jobs, issued, early, meshed, app, cached, dormant, renders,
                    shapes, sent, attempts, remeshes, owed, world, touched, failure>>
    BY <1>1 DEF vars
  <2>2. QueueFits'
    BY <2>1, QueueShrinks
  <2>3. AnswersFit' /\ WorkFits' /\ CountersFit'
    BY <2>1 DEF AnswersFit, WorkFits, CountersFit, TypedInv, TypeOK
  <2>. QED  BY <2>1, <2>2, <2>3, UntouchedFits DEF Fits
<1>2. CASE \E d \in Deltas : ViewerEvent(d) \/ ViewerEventFails(d)
  BY <1>2, ViewerEventFits, RefusalFits
<1>3. CASE RemeshPass \/ VisualRepairs
  BY <1>3, RemeshPassFits, VisualRepairsFits
<1>4. CASE \E T \in SUBSET Keys : Edit(T)
  BY <1>4, EditFits
<1>5. CASE \E j \in jobs : PopJob(j)
  BY <1>5, PopJobFits
<1>6. CASE \E k \in Keys : SampleDone(k) \/ MeshAccepted(k) \/ MeshConsumed(k)
  BY <1>6, SampleDoneFits, MeshAcceptedFits, MeshConsumedFits
<1>7. CASE \E k \in Keys, resource \in Evictable : EvictCached(k, resource)
  BY <1>7, EvictCachedFits
<1>8. CASE \E lapsed : CollisionRepairs(lapsed)
  BY <1>8, CollisionRepairsFits
<1>9. CASE \E k \in Keys : Install(k) \/ Drop(k)
  BY <1>9, AnswerFits
<1>. QED  BY <1>1, <1>2, <1>3, <1>4, <1>5, <1>6, <1>7, <1>8, <1>9 DEF Next

\* Whatever the viewers want, and however deltas, edits, repairs and answers
\* interleave, no table holds more than it has room for and everything in it is
\* what it is meant to be: a delta that passes the preflight fits into all of
\* them, and so does what the repairs and edits ask for.
THEOREM TablesNeverOverflow == SafetySpec => []TypeOK
<1>1. Init => Fits
  <2>. SUFFICES ASSUME Init PROVE Fits
    OBVIOUS
  <2>1. Cardinality({}) = 0
    BY FS_EmptySet
  <2>2. DemandsFit /\ ChunksFit /\ QueueFits /\ AppliesFit /\ CountersFit
    <3>1. Wanted = {} /\ Recorded = {}
      BY DEF Init, Wanted, Recorded, NoChunk
    <3>2. DemandsFit
      BY <2>1, <3>1, DesiredSetsAssumption DEF Init, DemandsFit, WantedFit
    <3>3. ChunksFit
      BY <2>1, <3>1, DesiredSetsAssumption DEF Init, ChunksFit, Numbered, NoChunk, Versions
    <3>4. QueueFits /\ AppliesFit
      BY <2>1, DesiredSetsAssumption DEF Init, QueueFits, AppliesFit
    <3>5. CountersFit
      <4>1. issued \in 0..MaxGeneration /\ world \in 0..MaxWorld
        BY DesiredSetsAssumption DEF Init
      <4>2. touched \in [Keys -> 0..MaxWorld]
        BY DesiredSetsAssumption DEF Init
      <4>3. owed \in BOOLEAN /\ failure \in Failures
        BY Zenon DEF Init, Failures
      <4>. QED  BY <4>1, <4>2, <4>3 DEF CountersFit
    <3>. QED  BY <3>2, <3>3, <3>4, <3>5
  <2>3. ExpectationsFit /\ AnswersFit /\ WorkFits
    BY DesiredSetsAssumption
       DEF Init, ExpectationsFit, ExpectationType, NoApplication, AnswersFit, NoPayload, Waits,
           WorkFits
  <2>4. DormantFit
    BY DesiredSetsAssumption DEF Init, DormantFit
  <2>. QED  BY <2>2, <2>3, <2>4 DEF Fits
<1>2. IInv /\ Fits /\ [Next]_vars => Fits'
  BY EveryStepFits, TypedInvIsFits
<1>3. IInv /\ Fits => TypeOK
  BY TypedInvIsFits DEF TypedInv
<1>. QED  BY <1>1, <1>2, <1>3, Inductive, PTL DEF SafetySpec
=============================================================================
