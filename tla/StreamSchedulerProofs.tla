------------------------ MODULE StreamSchedulerProofs ------------------------
(***************************************************************************)
(* Theorems about StreamScheduler, for every value of its constants.       *)
(***************************************************************************)
EXTENDS StreamScheduler, SequenceTheorems, FiniteSetTheorems, TLAPS

\* The image of a finite set under a function is finite and no larger.
LEMMA ImageBound ==
    ASSUME NEW S, IsFiniteSet(S), NEW f, f = [x \in S |-> f[x]]
    PROVE  /\ IsFiniteSet({f[x] : x \in S})
           /\ Cardinality({f[x] : x \in S}) <= Cardinality(S)
<1> DEFINE T == {f[x] : x \in S}
<1>1. f \in Surjection(S, T)
  BY DEF Surjection
<1>2. IsFiniteSet(T) /\ Cardinality(T) <= Cardinality(S)
  BY <1>1, FS_Surjection
<1>. QED  BY <1>2

\* A set that grows by one element within its capacity stays finite and bounded.
LEMMA AddBound ==
    ASSUME NEW S, IsFiniteSet(S), NEW x, NEW n \in Nat, Cardinality(S) < n
    PROVE  IsFiniteSet(S \cup {x}) /\ Cardinality(S \cup {x}) <= n
<1>1. IsFiniteSet(S \cup {x})
      /\ Cardinality(S \cup {x}) = IF x \in S THEN Cardinality(S) ELSE Cardinality(S) + 1
  BY FS_AddElement
<1>2. Cardinality(S) \in Nat
  BY FS_CardinalityType
<1>. QED  BY <1>1, <1>2

-----------------------------------------------------------------------------
\* The type invariant with the finiteness its cardinalities need.
Typed ==
    /\ TypeOK
    /\ IsFiniteSet(jobs)
    /\ IsFiniteSet(PresentKeys)

\* A record that replaces or adds one chunk, within the record capacity.
LEMMA RecordBound ==
    ASSUME Typed, NEW k \in Keys, RecordRoom(k), NEW r,
           NEW table, table = [records EXCEPT ![k] = r]
    PROVE  LET P == {q \in Keys : table[q].lifecycle # "Absent"}
           IN  IsFiniteSet(P) /\ Cardinality(P) <= RecordCapacity
<1> DEFINE P == {q \in Keys : table[q].lifecycle # "Absent"}
<1>1. P \subseteq PresentKeys \cup {k}
  BY DEF Typed, TypeOK, PresentKeys, Present
<1>2. IsFiniteSet(PresentKeys \cup {k}) /\ Cardinality(PresentKeys \cup {k}) <= RecordCapacity
  <2>1. CASE k \in PresentKeys
    <3>1. PresentKeys \cup {k} = PresentKeys
      BY <2>1
    <3>. QED  BY <3>1 DEF Typed, TypeOK
  <2>2. CASE k \notin PresentKeys
    BY <2>2, AddBound, SchedulerAssumption DEF Typed, RecordRoom, PresentKeys
  <2>. QED  BY <2>1, <2>2
<1>. QED
  BY <1>1, <1>2, FS_Subset, FS_CardinalityType, SchedulerAssumption

\* A record of a chunk that keeps its place in the table changes no count.
LEMMA SameRecords ==
    ASSUME NEW table, \A q \in Keys : (table[q].lifecycle # "Absent") <=> Present(q)
    PROVE  {q \in Keys : table[q].lifecycle # "Absent"} = PresentKeys
BY DEF PresentKeys

LEMMA TypedRequest ==
    ASSUME Typed, NEW k \in Keys, NEW world \in Revisions, NEW priority \in Priorities,
           NEW force, NEW edit \in Revisions \cup {NoEdit},
           RequestInternal(k, world, priority, force, edit)
    PROVE  Typed'
<1> DEFINE r == [lifecycle |-> "Sampling", generation |-> generationCounter + 1,
                 world |-> world, priority |-> priority, edit |-> edit]
           j == MakeJob(k, r, "Sample")
<1>1. r \in ChunkRecord
  BY DEF Typed, TypeOK, ChunkRecord, Lifecycles
<1>2. j \in ChunkJob
  BY DEF Typed, TypeOK, MakeJob, ChunkJob, Stages
<1>3. CASE JobRoom /\ jobs' = jobs \cup {j} /\ records' = [records EXCEPT ![k] = r]
  <2>1. IsFiniteSet(jobs') /\ Cardinality(jobs') <= JobCapacity
    BY <1>3, AddBound, SchedulerAssumption DEF Typed, JobRoom
  <2>2. IsFiniteSet(PresentKeys') /\ Cardinality(PresentKeys') <= RecordCapacity
    <3>1. RecordRoom(k)
      BY DEF RequestInternal
    <3>. QED  BY <1>3, <3>1, RecordBound DEF PresentKeys, Present
  <2>. QED
    BY <1>1, <1>2, <1>3, <2>1, <2>2 DEF Typed, TypeOK, RequestInternal
<1>4. CASE UNCHANGED <<jobs, records>>
  BY <1>4 DEF Typed, TypeOK, RequestInternal, PresentKeys, Present
<1>. QED
  BY <1>3, <1>4 DEF RequestInternal

LEMMA TypedRefresh ==
    ASSUME Typed, NEW k \in Keys, NEW priority \in Priorities,
           RequestSameGenerationRefresh(k, priority)
    PROVE  Typed'
<1> DEFINE r == [records[k] EXCEPT !.priority = priority, !.lifecycle = "Sampling"]
           j == MakeJob(k, r, "Sample")
<1>1. r \in ChunkRecord
  BY DEF Typed, TypeOK, ChunkRecord, Lifecycles
<1>2. j \in ChunkJob
  BY <1>1 DEF Typed, TypeOK, MakeJob, ChunkJob, ChunkRecord, Stages
<1>3. CASE JobRoom /\ jobs' = jobs \cup {j} /\ records' = [records EXCEPT ![k] = r]
  <2>1. IsFiniteSet(jobs') /\ Cardinality(jobs') <= JobCapacity
    BY <1>3, AddBound, SchedulerAssumption DEF Typed, JobRoom
  <2>2. PresentKeys' = PresentKeys
    BY <1>3 DEF Typed, TypeOK, RequestSameGenerationRefresh, PresentKeys, Present, ChunkRecord
  <2>. QED
    BY <1>1, <1>2, <1>3, <2>1, <2>2 DEF Typed, TypeOK, RequestSameGenerationRefresh
<1>4. CASE UNCHANGED <<jobs, records>>
  BY <1>4 DEF Typed, TypeOK, RequestSameGenerationRefresh, PresentKeys, Present
<1>. QED
  BY <1>3, <1>4 DEF RequestSameGenerationRefresh

LEMMA TypedCancel ==
    ASSUME Typed, NEW k \in Keys, CancelChunk(k)
    PROVE  Typed'
<1>1. PresentKeys' = PresentKeys
  BY DEF Typed, TypeOK, CancelChunk, PresentKeys, Present, ChunkRecord
<1>2. records' \in [Keys -> ChunkRecord]
  <2> DEFINE r == [records[k] EXCEPT !.generation = generationCounter + 1,
                                     !.lifecycle = "Cancelled"]
  <2>0. records[k] \in ChunkRecord /\ generationCounter + 1 \in Nat
    BY DEF Typed, TypeOK
  <2>1. r \in ChunkRecord
    BY <2>0 DEF ChunkRecord, Lifecycles
  <2>2. records' = [records EXCEPT ![k] = r]
    BY DEF Typed, TypeOK, CancelChunk, ChunkRecord
  <2>. QED  BY <2>1, <2>2 DEF Typed, TypeOK
<1>. QED
  BY <1>1, <1>2 DEF Typed, TypeOK, CancelChunk

LEMMA TypedForget ==
    ASSUME Typed, NEW k \in Keys, ForgetChunk(k)
    PROVE  Typed'
<1> DEFINE n == Cardinality(Retained(k))
<1>1. PICK f \in Ascending(Retained(k)) : completions' = [i \in 1..n |-> completions[f[i]]]
  BY DEF ForgetChunk
<1>2. n \in Nat /\ n <= Len(completions)
  <2>1. Retained(k) \subseteq 1..Len(completions)
    BY DEF Typed, TypeOK, Retained
  <2>2. Len(completions) \in Nat
    BY DEF Typed, TypeOK
  <2>3. IsFiniteSet(1..Len(completions)) /\ Cardinality(1..Len(completions)) = Len(completions)
    <3>1. 1 \in Int /\ Len(completions) \in Int
      BY <2>2
    <3>2. IsFiniteSet(1..Len(completions))
      BY <3>1, FS_Interval
    <3>3. Cardinality(1..Len(completions)) =
              IF 1 > Len(completions) THEN 0 ELSE Len(completions) - 1 + 1
      BY <3>1, FS_Interval
    <3>. QED  BY <2>2, <3>2, <3>3
  <2>. QED  BY <2>1, <2>3, FS_Subset, FS_CardinalityType
<1>3. \A i \in 1..n : completions[f[i]] \in JobResult
  BY <1>1 DEF Typed, TypeOK, Ascending, Retained
<1>4. completions' \in Seq(JobResult) /\ Len(completions') = n
  BY <1>1, <1>2, <1>3, IsASeq
<1>5. IsFiniteSet(jobs') /\ Cardinality(jobs') <= JobCapacity
  <2>1. jobs' \subseteq jobs
    BY DEF ForgetChunk
  <2>. QED  BY <2>1, FS_Subset, FS_CardinalityType, SchedulerAssumption DEF Typed, TypeOK
<1>6. IsFiniteSet(PresentKeys') /\ Cardinality(PresentKeys') <= RecordCapacity
  <2>1. PresentKeys' \subseteq PresentKeys
    BY DEF Typed, TypeOK, ForgetChunk, PresentKeys, Present, NoRecord
  <2>. QED  BY <2>1, FS_Subset, FS_CardinalityType, SchedulerAssumption DEF Typed, TypeOK
<1>7. NoRecord \in ChunkRecord
  BY DEF NoRecord, ChunkRecord, Lifecycles
<1>8. records' \in [Keys -> ChunkRecord] /\ jobs' \subseteq ChunkJob
  BY <1>7 DEF Typed, TypeOK, ForgetChunk
<1>9. Len(completions') <= CompletionCapacity
  BY <1>2, <1>4, SchedulerAssumption DEF Typed, TypeOK
<1>. QED
  BY <1>4, <1>5, <1>6, <1>8, <1>9 DEF Typed, TypeOK, ForgetChunk

LEMMA TypedReprioritize ==
    ASSUME Typed, NEW k \in Keys, NEW priority \in Priorities, ReprioritizeChunk(k, priority)
    PROVE  Typed'
<1> DEFINE f == [j \in jobs |-> IF j.key = k /\ j.generation = records[k].generation
                                 THEN [j EXCEPT !.priority = priority] ELSE j]
           r == [records[k] EXCEPT !.priority = priority]
<1>1. jobs' = {f[j] : j \in jobs}
  BY DEF ReprioritizeChunk, Requeued
<1>2. IsFiniteSet(jobs') /\ Cardinality(jobs') <= Cardinality(jobs)
  <2>1. f = [j \in jobs |-> f[j]]
    OBVIOUS
  <2>. HIDE DEF f
  <2>. QED  BY <1>1, <2>1, ImageBound DEF Typed
<1>3. Cardinality(jobs') <= JobCapacity
  BY <1>2, FS_CardinalityType, SchedulerAssumption DEF Typed, TypeOK
<1>4. jobs' \subseteq ChunkJob
  BY <1>1 DEF Typed, TypeOK, ChunkJob
<1>5. r \in ChunkRecord /\ records' = [records EXCEPT ![k] = r]
  BY DEF Typed, TypeOK, ReprioritizeChunk, ChunkRecord
<1>6. PresentKeys' = PresentKeys
  BY DEF Typed, TypeOK, ReprioritizeChunk, PresentKeys, Present, ChunkRecord
<1>. QED
  BY <1>2, <1>3, <1>4, <1>5, <1>6 DEF Typed, TypeOK, ReprioritizeChunk

LEMMA TypedReprioritizeBatch ==
    ASSUME Typed, NEW K \in SUBSET Keys, NEW update \in [K -> Priorities],
           ReprioritizeChunks(update)
    PROVE  Typed'
<1> DEFINE f == [j \in jobs |->
                    IF j.key \in DOMAIN update /\ j.generation = records[j.key].generation
                    THEN [j EXCEPT !.priority = update[j.key]] ELSE j]
<1>1. jobs' = {f[j] : j \in jobs}
  BY DEF ReprioritizeChunks
<1>2. IsFiniteSet(jobs') /\ Cardinality(jobs') <= Cardinality(jobs)
  <2>1. f = [j \in jobs |-> f[j]]
    OBVIOUS
  <2>. HIDE DEF f
  <2>. QED  BY <1>1, <2>1, ImageBound DEF Typed
<1>3. Cardinality(jobs') <= JobCapacity
  BY <1>2, FS_CardinalityType, SchedulerAssumption DEF Typed, TypeOK
<1>4. jobs' \subseteq ChunkJob
  <2>1. ASSUME NEW j \in jobs PROVE f[j] \in ChunkJob
    <3>1. j \in ChunkJob
      BY DEF Typed, TypeOK
    <3>2. CASE j.key \in DOMAIN update
      <4>1. update[j.key] \in Priorities
        BY <3>2
      <4>2. [j EXCEPT !.priority = update[j.key]] \in ChunkJob
        BY <3>1, <4>1 DEF ChunkJob
      <4>. QED  BY <3>1, <4>2
    <3>3. CASE j.key \notin DOMAIN update
      BY <3>1, <3>3
    <3>. QED  BY <3>2, <3>3
  <2>. QED  BY <1>1, <2>1
<1>5. \A q \in Keys : records[q] \in ChunkRecord
  BY DEF Typed, TypeOK
<1>6. records' \in [Keys -> ChunkRecord]
  BY <1>5 DEF ReprioritizeChunks, ChunkRecord
<1>7. PresentKeys' = PresentKeys
  BY <1>5 DEF ReprioritizeChunks, PresentKeys, Present, ChunkRecord
<1>. QED
  BY <1>2, <1>3, <1>4, <1>6, <1>7 DEF Typed, TypeOK, ReprioritizeChunks

LEMMA TypedPop ==
    ASSUME Typed, NEW admitted \in SUBSET jobs, PopJob(admitted)
    PROVE  Typed'
<1>1. PICK j \in admitted : jobs' = jobs \ {j} /\ workers' = workers \cup {j}
  BY DEF PopJob
<1>2. IsFiniteSet(jobs') /\ Cardinality(jobs') <= JobCapacity
  BY <1>1, FS_Subset, FS_CardinalityType, SchedulerAssumption DEF Typed, TypeOK
<1>3. PresentKeys' = PresentKeys
  BY DEF PopJob, PresentKeys, Present
<1>. QED
  BY <1>1, <1>2, <1>3 DEF Typed, TypeOK, PopJob

LEMMA TypedSubmit ==
    ASSUME Typed, NEW j \in workers, NEW success \in BOOLEAN, SubmitCompletion(j, success)
    PROVE  Typed'
<1> DEFINE result == [key |-> j.key, generation |-> j.generation,
                      stage |-> j.stage, success |-> success]
<1>1. j \in ChunkJob
  BY DEF Typed, TypeOK
<1>2. result \in JobResult
  BY <1>1 DEF ChunkJob, JobResult
<1>3. completions' = Append(completions, result)
  BY DEF SubmitCompletion
<1>4. completions' \in Seq(JobResult) /\ Len(completions') <= CompletionCapacity
  BY <1>2, <1>3, AppendProperties, SchedulerAssumption DEF Typed, TypeOK, SubmitCompletion
<1>5. meshed' \subseteq Keys \X Nat \X (Revisions \cup {0})
  BY <1>1 DEF Typed, TypeOK, SubmitCompletion, ChunkJob
<1>6. PresentKeys' = PresentKeys
  BY DEF SubmitCompletion, PresentKeys, Present
<1>. QED
  BY <1>4, <1>5, <1>6 DEF Typed, TypeOK, SubmitCompletion

LEMMA TypedApply ==
    ASSUME Typed, ApplyCompletion
    PROVE  Typed'
<1> DEFINE result == Head(completions)
           k == result.key
<1>1. completions # <<>> /\ completions' = Tail(completions)
  BY DEF ApplyCompletion, ApplyStaleCompletion, ApplyFailure, ApplySample, ApplyMesh
<1>2. /\ result \in JobResult
      /\ completions' \in Seq(JobResult)
      /\ Len(completions') <= CompletionCapacity
  BY <1>1, HeadTailProperties, SchedulerAssumption DEF Typed, TypeOK
<1>3. k \in Keys
  BY <1>2 DEF JobResult
<1>4. \A l \in Lifecycles : [records[k] EXCEPT !.lifecycle = l] \in ChunkRecord
  BY <1>3 DEF Typed, TypeOK, ChunkRecord
<1>5. \A l \in Lifecycles \ {"Absent"} :
          Present(k) /\ records' = [records EXCEPT ![k].lifecycle = l] =>
              records' \in [Keys -> ChunkRecord] /\ PresentKeys' = PresentKeys
  <2> SUFFICES ASSUME NEW l \in Lifecycles \ {"Absent"}, Present(k),
                      records' = [records EXCEPT ![k].lifecycle = l]
               PROVE  records' \in [Keys -> ChunkRecord] /\ PresentKeys' = PresentKeys
    OBVIOUS
  <2>1. records' = [records EXCEPT ![k] = [records[k] EXCEPT !.lifecycle = l]]
    OBVIOUS
  <2>2. records' \in [Keys -> ChunkRecord]
    BY <1>3, <1>4, <2>1 DEF Typed, TypeOK
  <2>3. PresentKeys' = PresentKeys
    BY <1>3 DEF Typed, TypeOK, PresentKeys, Present, ChunkRecord
  <2>. QED  BY <2>2, <2>3
<1>6. CASE ApplyStaleCompletion
  BY <1>2, <1>6 DEF Typed, TypeOK, ApplyStaleCompletion, PresentKeys, Present
<1>7. CASE ApplyFailure
  <2>1. records' \in [Keys -> ChunkRecord] /\ PresentKeys' = PresentKeys
    <3>1. "Failed" \in Lifecycles \ {"Absent"}
      BY DEF Lifecycles
    <3>2. Present(k) /\ records' = [records EXCEPT ![k].lifecycle = "Failed"]
      BY <1>7 DEF ApplyFailure, Expected
    <3>. QED  BY <1>5, <3>1, <3>2
  <2>. QED  BY <1>2, <1>7, <2>1 DEF Typed, TypeOK, ApplyFailure
<1>8. CASE ApplyMesh
  <2>1. records' \in [Keys -> ChunkRecord] /\ PresentKeys' = PresentKeys
    <3>1. "Ready" \in Lifecycles \ {"Absent"}
      BY DEF Lifecycles
    <3>2. Present(k) /\ records' = [records EXCEPT ![k].lifecycle = "Ready"]
      BY <1>8 DEF ApplyMesh, Expected
    <3>. QED  BY <1>5, <3>1, <3>2
  <2>. QED  BY <1>2, <1>8, <2>1 DEF Typed, TypeOK, ApplyMesh
<1>9. CASE ApplySample
  <2> DEFINE j == MakeJob(k, records[k], "Mesh")
  <2>1. Present(k) /\ sequenceCounter' = sequenceCounter + 1
    BY <1>9 DEF ApplySample, Expected
  <2>2. j \in ChunkJob
    BY <1>3 DEF Typed, TypeOK, MakeJob, ChunkJob, ChunkRecord, Stages
  <2>3. CASE JobRoom /\ jobs' = jobs \cup {j}
             /\ records' = [records EXCEPT ![k].lifecycle = "Meshing"]
    <3>1. IsFiniteSet(jobs') /\ Cardinality(jobs') <= JobCapacity
      BY <2>3, AddBound, SchedulerAssumption DEF Typed, JobRoom
    <3>2. records' \in [Keys -> ChunkRecord] /\ PresentKeys' = PresentKeys
      <4>1. "Meshing" \in Lifecycles \ {"Absent"}
        BY DEF Lifecycles
      <4>2. Present(k) /\ records' = [records EXCEPT ![k].lifecycle = "Meshing"]
        BY <2>1, <2>3
      <4>. QED  BY <1>5, <4>1, <4>2
    <3>. QED  BY <1>2, <1>9, <2>1, <2>2, <2>3, <3>1, <3>2 DEF Typed, TypeOK, ApplySample
  <2>4. CASE jobs' = jobs /\ records' = [records EXCEPT ![k].lifecycle = "Failed"]
    <3>1. records' \in [Keys -> ChunkRecord] /\ PresentKeys' = PresentKeys
      <4>1. "Failed" \in Lifecycles \ {"Absent"}
        BY DEF Lifecycles
      <4>2. Present(k) /\ records' = [records EXCEPT ![k].lifecycle = "Failed"]
        BY <2>1, <2>4
      <4>. QED  BY <1>5, <4>1, <4>2
    <3>. QED  BY <1>2, <1>9, <2>1, <2>4, <3>1 DEF Typed, TypeOK, ApplySample
  <2>. QED  BY <1>9, <2>3, <2>4 DEF ApplySample
<1>. QED
  BY <1>6, <1>7, <1>8, <1>9 DEF ApplyCompletion

LEMMA RetainedDeltaType ==
    ASSUME Typed, NEW k \in Keys, NEW world, NEW force
    PROVE  RetainedDelta(k, world, force) \in Revisions \cup {NoEdit}
BY DEF RetainedDelta, Typed, TypeOK, ChunkRecord

LEMMA TypedInit == Init => Typed
<1> SUFFICES ASSUME Init PROVE Typed
  OBVIOUS
<1>1. NoRecord \in ChunkRecord
  BY DEF NoRecord, ChunkRecord, Lifecycles
<1>2. PresentKeys = {}
  BY DEF Init, PresentKeys, Present, NoRecord
<1>3. Len(completions) = 0 /\ completions \in Seq(JobResult)
  BY DEF Init
<1>4. IsFiniteSet({}) /\ Cardinality({}) = 0
  BY FS_EmptySet
<1>. QED
  BY <1>1, <1>2, <1>3, <1>4, SchedulerAssumption DEF Init, Typed, TypeOK

LEMMA TypedNext == Typed /\ [Next]_vars => Typed'
<1> SUFFICES ASSUME Typed, [Next]_vars PROVE Typed'
  OBVIOUS
<1>1. ASSUME NEW k \in Keys, NEW world \in Revisions, NEW priority \in Priorities,
             NEW force \in BOOLEAN, RequestChunkVersion(k, world, priority, force)
      PROVE  Typed'
  BY <1>1, RetainedDeltaType, TypedRequest DEF RequestChunkVersion
<1>2. ASSUME NEW k \in Keys, NEW world \in Revisions, NEW priority \in Priorities,
             RequestEditedChunkVersion(k, world, priority)
      PROVE  Typed'
  BY <1>2, TypedRequest DEF RequestEditedChunkVersion
<1>3. ASSUME NEW j \in workers, AbandonStaleJob(j) PROVE Typed'
  BY <1>3 DEF Typed, TypeOK, AbandonStaleJob, PresentKeys, Present
<1>4. CASE UNCHANGED vars
  BY <1>4 DEF vars, Typed, TypeOK, PresentKeys, Present
<1>. QED
  BY <1>1, <1>2, <1>3, <1>4, TypedRefresh, TypedCancel, TypedForget, TypedReprioritize,
     TypedReprioritizeBatch, TypedPop, TypedSubmit, TypedApply DEF Next, Request

\* Types, and the record, job and completion capacities, in every reachable state.
THEOREM TypeCorrect == SafetySpec => []TypeOK
<1>1. Typed => TypeOK
  BY DEF Typed
<1>. QED
  BY <1>1, TypedInit, TypedNext, PTL DEF SafetySpec

-----------------------------------------------------------------------------
\* Generations and sequence numbers in use have been handed out, a forgotten
\* chunk holds none, and no job is queued and with a worker at once.
Issued ==
    /\ \A k \in Keys : /\ records[k].generation <= generationCounter
                       /\ Present(k) <=> records[k].generation # 0
    /\ \A j \in jobs \cup workers : /\ 0 < j.generation /\ j.generation <= generationCounter
                                   /\ j.sequence <= sequenceCounter
    /\ \A i \in DOMAIN completions : /\ 0 < completions[i].generation
                                    /\ completions[i].generation <= generationCounter
    /\ \A j, o \in jobs : j.sequence = o.sequence => j = o
    /\ \A j \in jobs, w \in workers : j.sequence # w.sequence

\* The fields the proofs below compare.
LEMMA Fields ==
    ASSUME Typed
    PROVE  /\ \A j \in jobs \cup workers :
                  /\ j \in ChunkJob /\ j.key \in Keys
                  /\ j.generation \in Nat /\ j.sequence \in Nat
           /\ \A i \in DOMAIN completions :
                  /\ completions[i] \in JobResult /\ completions[i].key \in Keys
                  /\ completions[i].generation \in Nat
           /\ \A q \in Keys : records[q] \in ChunkRecord /\ records[q].generation \in Nat
           /\ generationCounter \in Nat /\ sequenceCounter \in Nat
<1>1. \A j \in jobs \cup workers : j \in ChunkJob
  BY DEF Typed, TypeOK
<1>2. \A i \in DOMAIN completions : completions[i] \in JobResult
  BY ElementOfSeq DEF Typed, TypeOK
<1>3. \A q \in Keys : records[q] \in ChunkRecord
  BY DEF Typed, TypeOK
<1>. QED
  BY <1>1, <1>2, <1>3 DEF Typed, TypeOK, ChunkJob, JobResult, ChunkRecord

\* ForgetChunk keeps every result of another chunk, once and in its order.
LEMMA ForgottenResults ==
    ASSUME Typed, NEW k \in Keys, ForgetChunk(k)
    PROVE  /\ completions' \in Seq(JobResult)
           /\ \E f \in [DOMAIN completions' -> DOMAIN completions] :
                  /\ \A i \in DOMAIN completions' :
                         completions'[i] = completions[f[i]] /\ completions[f[i]].key # k
                  /\ \A i, m \in DOMAIN completions' : f[i] = f[m] => i = m
                  /\ \A m \in DOMAIN completions :
                         completions[m].key # k => \E i \in DOMAIN completions' : f[i] = m
<1> DEFINE n == Cardinality(Retained(k))
<1>1. PICK f \in Ascending(Retained(k)) : completions' = [i \in 1..n |-> completions[f[i]]]
  BY DEF ForgetChunk
<1>2. completions' \in Seq(JobResult)
  BY TypedForget DEF Typed, TypeOK
<1>3. IsFiniteSet(Retained(k)) /\ n \in Nat
  <2>1. Retained(k) \subseteq 1..Len(completions) /\ Len(completions) \in Int /\ 1 \in Int
    BY DEF Typed, TypeOK, Retained
  <2>2. IsFiniteSet(1..Len(completions))
    BY <2>1, FS_Interval
  <2>. QED  BY <2>1, <2>2, FS_Subset, FS_CardinalityType
<1>4. f \in [1..n -> Retained(k)] /\ \A m, o \in 1..n : m < o => f[m] < f[o]
  BY <1>1 DEF Ascending
<1>5. Retained(k) \subseteq Nat
  BY DEF Retained, Typed, TypeOK
<1>6. \A i, m \in 1..n : f[i] = f[m] => i = m
  BY <1>3, <1>4, <1>5
<1>7. f \in Injection(1..n, Retained(k))
  BY <1>4, <1>6 DEF Injection, IsInjective
<1>8. Cardinality(1..n) = n
  <2>1. n \in Int /\ 1 \in Int
    BY <1>3
  <2>2. Cardinality(1..n) = IF 1 > n THEN 0 ELSE n - 1 + 1
    BY <2>1, FS_Interval
  <2>. QED  BY <1>3, <2>2
<1>9. f \in Surjection(1..n, Retained(k))
  BY <1>3, <1>7, <1>8, FS_Injection
<1>10. \A m \in Retained(k) : \E i \in 1..n : f[i] = m
  BY <1>9 DEF Surjection
<1>11. DOMAIN completions' = 1..n
  BY <1>1
<1>12. f \in [DOMAIN completions' -> DOMAIN completions]
  BY <1>4, <1>11 DEF Retained
<1>. QED
  BY <1>1, <1>2, <1>4, <1>6, <1>10, <1>11, <1>12 DEF Retained

\* The result at the head, and the ones that remain when it is taken.
LEMMA PoppedResult ==
    ASSUME Typed, ApplyCompletion
    PROVE  /\ completions # <<>> /\ 1 \in DOMAIN completions
           /\ Head(completions) = completions[1]
           /\ completions' \in Seq(JobResult)
           /\ Len(completions') = Len(completions) - 1
           /\ \A i \in DOMAIN completions' :
                  i + 1 \in DOMAIN completions /\ completions'[i] = completions[i + 1]
<1>1. completions # <<>> /\ completions' = Tail(completions)
  BY DEF ApplyCompletion, ApplyStaleCompletion, ApplyFailure, ApplySample, ApplyMesh
<1>2. completions \in Seq(JobResult)
  BY DEF Typed, TypeOK
<1>. QED
  BY <1>1, <1>2, HeadTailProperties

\* Applying a result changes at most the lifecycle of the chunk it names.
LEMMA AppliedRecords ==
    ASSUME Typed, ApplyCompletion
    PROVE  \A q \in Keys :
               /\ records'[q].generation = records[q].generation
               /\ records'[q].world = records[q].world
               /\ records'[q].priority = records[q].priority
               /\ records'[q].edit = records[q].edit
               /\ Present(q)' <=> Present(q)
               /\ q # Head(completions).key => records'[q] = records[q]
<1> DEFINE k == Head(completions).key
<1>1. k \in Keys
  BY Fields, PoppedResult
<1>2. \/ records' = records
      \/ Present(k) /\ \E l \in {"Failed", "Meshing", "Ready"} :
             records' = [records EXCEPT ![k].lifecycle = l]
  BY DEF ApplyCompletion, ApplyStaleCompletion, ApplyFailure, ApplySample, ApplyMesh, Expected
<1>3. CASE records' = records
  BY <1>3 DEF Present
<1>4. ASSUME NEW l \in {"Failed", "Meshing", "Ready"}, Present(k),
             records' = [records EXCEPT ![k].lifecycle = l]
      PROVE  \A q \in Keys :
               /\ records'[q].generation = records[q].generation
               /\ records'[q].world = records[q].world
               /\ records'[q].priority = records[q].priority
               /\ records'[q].edit = records[q].edit
               /\ Present(q)' <=> Present(q)
               /\ q # k => records'[q] = records[q]
  <2>1. records \in [Keys -> ChunkRecord]
    BY DEF Typed, TypeOK
  <2>2. records'[k] = [records[k] EXCEPT !.lifecycle = l]
    BY <1>1, <1>4, <2>1
  <2>3. \A q \in Keys \ {k} : records'[q] = records[q]
    BY <1>4, <2>1
  <2>4. records[k] \in ChunkRecord
    BY <1>1, <2>1
  <2>5. /\ records'[k].generation = records[k].generation
        /\ records'[k].world = records[k].world
        /\ records'[k].priority = records[k].priority
        /\ records'[k].edit = records[k].edit
        /\ records'[k].lifecycle = l
    BY <2>2, <2>4 DEF ChunkRecord
  <2>. QED  BY <1>4, <2>3, <2>5 DEF Present
<1>. QED
  BY <1>2, <1>3, <1>4

LEMMA IssuedRequest ==
    ASSUME Typed, Issued, NEW k \in Keys, NEW world \in Revisions,
           NEW priority \in Priorities, NEW force,
           NEW edit \in Revisions \cup {NoEdit},
           RequestInternal(k, world, priority, force, edit)
    PROVE  Issued'
<1> DEFINE r == [lifecycle |-> "Sampling", generation |-> generationCounter + 1,
                 world |-> world, priority |-> priority, edit |-> edit]
           j == MakeJob(k, r, "Sample")
<1>1. /\ generationCounter' = generationCounter + 1
      /\ sequenceCounter' = sequenceCounter + 1
      /\ workers' = workers /\ completions' = completions
  BY DEF RequestInternal
<1>2. /\ \A w \in jobs \cup workers : w.generation \in Nat /\ w.sequence \in Nat
      /\ \A i \in DOMAIN completions : completions[i].generation \in Nat
      /\ \A q \in Keys : records[q].generation \in Nat
      /\ generationCounter \in Nat /\ sequenceCounter \in Nat
  BY Fields
<1>3. CASE jobs' = jobs \cup {j} /\ records' = [records EXCEPT ![k] = r]
  <2>1. j.generation = generationCounter + 1 /\ j.sequence = sequenceCounter + 1
    BY DEF MakeJob
  <2>2. \A q \in Keys : records'[q] = IF q = k THEN r ELSE records[q]
    BY <1>3 DEF Typed, TypeOK
  <2>. QED
    BY <1>1, <1>2, <1>3, <2>1, <2>2 DEF Issued, Present
<1>4. CASE UNCHANGED <<jobs, records>>
  BY <1>1, <1>2, <1>4 DEF Issued, Present
<1>. QED
  BY <1>3, <1>4 DEF RequestInternal

LEMMA IssuedRefresh ==
    ASSUME Typed, Issued, NEW k \in Keys, NEW priority \in Priorities,
           RequestSameGenerationRefresh(k, priority)
    PROVE  Issued'
<1> DEFINE r == [records[k] EXCEPT !.priority = priority, !.lifecycle = "Sampling"]
           j == MakeJob(k, r, "Sample")
<1>1. /\ generationCounter' = generationCounter
      /\ sequenceCounter' = sequenceCounter + 1
      /\ workers' = workers /\ completions' = completions
      /\ records[k].lifecycle = "Ready"
  BY DEF RequestSameGenerationRefresh
<1>2. r.generation = records[k].generation /\ r.lifecycle = "Sampling"
  BY Fields DEF ChunkRecord
<1>3. 0 < records[k].generation
  BY <1>1, Fields DEF Issued, Typed, TypeOK, Present
<1>4. CASE jobs' = jobs \cup {j} /\ records' = [records EXCEPT ![k] = r]
  <2>1. j.generation = records[k].generation /\ j.sequence = sequenceCounter + 1
    BY <1>2 DEF MakeJob
  <2>2. \A q \in Keys : records'[q] = IF q = k THEN r ELSE records[q]
    BY <1>4 DEF Typed, TypeOK
  <2>. QED
    BY <1>1, <1>2, <1>3, <1>4, <2>1, <2>2, Fields DEF Issued, Present
<1>5. CASE UNCHANGED <<jobs, records>>
  BY <1>1, <1>5, Fields DEF Issued, Present
<1>. QED
  BY <1>4, <1>5 DEF RequestSameGenerationRefresh

LEMMA IssuedCancel ==
    ASSUME Typed, Issued, NEW k \in Keys, CancelChunk(k)
    PROVE  Issued'
<1>1. /\ \A q \in Keys \ {k} : records'[q] = records[q]
      /\ records'[k].generation = generationCounter + 1
      /\ records'[k].lifecycle = "Cancelled"
  BY DEF CancelChunk, Typed, TypeOK, ChunkRecord
<1>. QED
  <2>1. generationCounter' = generationCounter + 1
        /\ UNCHANGED <<jobs, completions, sequenceCounter, workers>>
    BY DEF CancelChunk
  <2>2. \A q \in Keys : /\ records'[q].generation <= generationCounter'
                        /\ Present(q)' <=> records'[q].generation # 0
    BY <1>1, <2>1, Fields DEF Issued, Present
  <2>. QED  BY <2>1, <2>2, Fields DEF Issued

LEMMA IssuedForget ==
    ASSUME Typed, Issued, NEW k \in Keys, ForgetChunk(k)
    PROVE  Issued'
<1>1. /\ \A q \in Keys \ {k} : records'[q] = records[q]
      /\ records'[k].generation = 0 /\ records'[k].lifecycle = "Absent"
  BY DEF ForgetChunk, Typed, TypeOK, NoRecord
<1>2. jobs' \subseteq jobs
  BY DEF ForgetChunk
<1>. QED
  <2>1. \A q \in Keys : /\ records'[q].generation <= generationCounter
                        /\ Present(q)' <=> records'[q].generation # 0
    BY <1>1, Fields DEF Issued, Present
  <2>2. \A i \in DOMAIN completions' : /\ 0 < completions'[i].generation
                                      /\ completions'[i].generation <= generationCounter
    BY ForgottenResults DEF Issued
  <2>. QED  BY <1>2, <2>1, <2>2 DEF Issued, ForgetChunk

\* A change of priorities keeps the other fields of every job and record.
LEMMA IssuedRepriority ==
    ASSUME Typed, Issued, NEW f, jobs' = {f[j] : j \in jobs},
           \A j \in jobs : f[j].generation = j.generation /\ f[j].sequence = j.sequence,
           \A q \in Keys : /\ records'[q].generation = records[q].generation
                           /\ records'[q].lifecycle = records[q].lifecycle,
           UNCHANGED <<completions, generationCounter, sequenceCounter, workers>>
    PROVE  Issued'
<1>1. \A j \in jobs' : \E o \in jobs :
          j = f[o] /\ j.generation = o.generation /\ j.sequence = o.sequence
  OBVIOUS
<1>. QED
  BY <1>1, Fields DEF Issued, Present

LEMMA RepriorityFields ==
    ASSUME Typed, NEW j \in jobs, NEW p
    PROVE  LET u == [j EXCEPT !.priority = p]
           IN  /\ u.key = j.key /\ u.generation = j.generation /\ u.world = j.world
               /\ u.sequence = j.sequence /\ u.stage = j.stage /\ u.edit = j.edit
               /\ u.priority = p
BY Fields DEF ChunkJob

LEMMA IssuedNext == Typed /\ Issued /\ [Next]_vars => Issued'
<1> SUFFICES ASSUME Typed, Issued, [Next]_vars PROVE Issued'
  OBVIOUS
<1>1. ASSUME NEW k \in Keys, NEW world \in Revisions, NEW priority \in Priorities,
             NEW force \in BOOLEAN, RequestChunkVersion(k, world, priority, force)
      PROVE  Issued'
  BY <1>1, RetainedDeltaType, IssuedRequest DEF RequestChunkVersion
<1>2. ASSUME NEW k \in Keys, NEW world \in Revisions, NEW priority \in Priorities,
             RequestEditedChunkVersion(k, world, priority)
      PROVE  Issued'
  BY <1>2, IssuedRequest DEF RequestEditedChunkVersion
<1>3. ASSUME NEW k \in Keys, NEW priority \in Priorities, ReprioritizeChunk(k, priority)
      PROVE  Issued'
  <2> DEFINE f == [j \in jobs |-> IF j.key = k /\ j.generation = records[k].generation
                                   THEN [j EXCEPT !.priority = priority] ELSE j]
  <2>1. jobs' = {f[j] : j \in jobs}
    BY <1>3 DEF ReprioritizeChunk, Requeued
  <2>2. \A j \in jobs : f[j].generation = j.generation /\ f[j].sequence = j.sequence
    BY RepriorityFields
  <2>3. \A q \in Keys : /\ records'[q].generation = records[q].generation
                        /\ records'[q].lifecycle = records[q].lifecycle
    BY <1>3 DEF ReprioritizeChunk, Typed, TypeOK, ChunkRecord
  <2>. HIDE DEF f
  <2>. QED  BY <1>3, <2>1, <2>2, <2>3, IssuedRepriority DEF ReprioritizeChunk
<1>4. ASSUME NEW K \in SUBSET Keys, NEW update \in [K -> Priorities],
             ReprioritizeChunks(update)
      PROVE  Issued'
  <2> DEFINE f == [j \in jobs |->
                     IF j.key \in DOMAIN update /\ j.generation = records[j.key].generation
                     THEN [j EXCEPT !.priority = update[j.key]] ELSE j]
  <2>1. jobs' = {f[j] : j \in jobs}
    BY <1>4 DEF ReprioritizeChunks
  <2>2. \A j \in jobs : f[j].generation = j.generation /\ f[j].sequence = j.sequence
    BY RepriorityFields
  <2>3. \A q \in Keys : /\ records'[q].generation = records[q].generation
                        /\ records'[q].lifecycle = records[q].lifecycle
    BY <1>4, Fields DEF ReprioritizeChunks, ChunkRecord
  <2>. HIDE DEF f
  <2>. QED  BY <1>4, <2>1, <2>2, <2>3, IssuedRepriority DEF ReprioritizeChunks
<1>5. ASSUME NEW admitted \in SUBSET jobs, PopJob(admitted) PROVE Issued'
  <2>1. PICK j \in jobs : jobs' = jobs \ {j} /\ workers' = workers \cup {j}
    BY <1>5 DEF PopJob
  <2>2. UNCHANGED <<records, completions, generationCounter, sequenceCounter>>
    BY <1>5 DEF PopJob
  <2>3. \A o \in jobs \ {j} : o.sequence # j.sequence
    BY DEF Issued
  <2>. QED  BY <2>1, <2>2, <2>3 DEF Issued, Present
<1>6. ASSUME NEW j \in workers, NEW success \in BOOLEAN, SubmitCompletion(j, success)
      PROVE  Issued'
  <2> DEFINE result == [key |-> j.key, generation |-> j.generation,
                        stage |-> j.stage, success |-> success]
  <2>1. completions' = Append(completions, result) /\ workers' = workers \ {j}
        /\ UNCHANGED <<records, jobs, generationCounter, sequenceCounter>>
    BY <1>6 DEF SubmitCompletion
  <2>2. result \in JobResult /\ completions \in Seq(JobResult)
    BY Fields DEF Typed, TypeOK, ChunkJob, JobResult
  <2>3. \A i \in DOMAIN completions' :
            (i \in DOMAIN completions /\ completions'[i] = completions[i])
            \/ completions'[i] = result
    BY <2>1, <2>2, AppendProperties
  <2>4. result.generation = j.generation
    OBVIOUS
  <2>. HIDE DEF result
  <2>. QED  BY <2>1, <2>3, <2>4 DEF Issued, Present
<1>7. ASSUME NEW j \in workers, AbandonStaleJob(j) PROVE Issued'
  BY <1>7 DEF Issued, AbandonStaleJob, Present
<1>8. CASE ApplyCompletion
  <2>1. /\ \A i \in DOMAIN completions' :
              /\ 0 < completions'[i].generation
              /\ completions'[i].generation <= generationCounter
        /\ generationCounter' = generationCounter /\ workers' = workers
    BY <1>8, PoppedResult DEF Issued, ApplyCompletion, ApplyStaleCompletion, ApplyFailure,
                              ApplySample, ApplyMesh
  <2>2. \A q \in Keys : /\ records'[q].generation = records[q].generation
                        /\ Present(q)' <=> Present(q)
    BY <1>8, AppliedRecords
  <2>3. CASE jobs' = jobs /\ sequenceCounter' \in {sequenceCounter, sequenceCounter + 1}
    BY <2>1, <2>2, <2>3, Fields DEF Issued
  <2>4. ASSUME NEW j, jobs' = jobs \cup {j}, sequenceCounter' = sequenceCounter + 1,
               j.sequence = sequenceCounter + 1, 0 < j.generation,
               j.generation <= generationCounter
        PROVE  Issued'
    BY <2>1, <2>2, <2>4, Fields DEF Issued
  <2>5. CASE ApplySample /\ jobs' # jobs
    <3> DEFINE k == Head(completions).key
               j == MakeJob(k, records[k], "Mesh")
    <3>1. k \in Keys /\ Present(k)
      BY <1>8, <2>5, Fields, PoppedResult DEF ApplySample, Expected
    <3>2. j.sequence = sequenceCounter + 1 /\ j.generation = records[k].generation
      BY DEF MakeJob
    <3>3. 0 < j.generation /\ j.generation <= generationCounter
      BY <3>1, <3>2, Fields DEF Issued
    <3>4. jobs' = jobs \cup {j} /\ sequenceCounter' = sequenceCounter + 1
      BY <2>5 DEF ApplySample
    <3>. QED  BY <2>4, <3>2, <3>3, <3>4
  <2>. QED
    BY <1>8, <2>3, <2>5
       DEF ApplyCompletion, ApplyStaleCompletion, ApplyFailure, ApplySample, ApplyMesh
<1>9. CASE UNCHANGED vars
  BY <1>9 DEF vars, Issued, Present
<1>. QED
  BY <1>1, <1>2, <1>3, <1>4, <1>5, <1>6, <1>7, <1>8, <1>9, IssuedRefresh, IssuedCancel,
     IssuedForget DEF Next, Request

-----------------------------------------------------------------------------
\* The job or result w names the generation its chunk has now.
Current(w) == w.generation = records[w.key].generation

\* All current work is for the awaited stage, and a chunk that waits has one piece.
StageAwaited ==
    /\ \A j \in jobs \cup workers : Current(j) => AwaitsStage(j.key, j.stage)
    /\ \A i \in DOMAIN completions :
           Current(completions[i]) => AwaitsStage(completions[i].key, completions[i].stage)

AtMostOne ==
    /\ \A j, o \in jobs \cup workers : Current(j) /\ Current(o) /\ j.key = o.key => j = o
    /\ \A i, m \in DOMAIN completions :
           /\ Current(completions[i]) /\ Current(completions[m])
           /\ completions[i].key = completions[m].key
           => i = m
    /\ \A j \in jobs \cup workers, i \in DOMAIN completions :
           ~(Current(j) /\ Current(completions[i]) /\ j.key = completions[i].key)

Waiting(k) == records[k].lifecycle \in {"Sampling", "Meshing"}

AtLeastOne ==
    \A k \in Keys : Waiting(k) =>
        \/ \E j \in jobs \cup workers : Current(j) /\ j.key = k
        \/ \E i \in DOMAIN completions : Current(completions[i]) /\ completions[i].key = k

OneWork == StageAwaited /\ AtMostOne /\ AtLeastOne

LEMMA OneWorkInit == Init => OneWork
BY DEF Init, OneWork, StageAwaited, AtMostOne, AtLeastOne, Waiting, NoRecord

\* A chunk gets a record and its only piece of work, all older work being stale.
LEMMA OneWorkStart ==
    ASSUME Typed, OneWork, NEW k \in Keys, NEW r, NEW j,
           j.key = k, j.generation = r.generation, j.stage = "Sample",
           r.lifecycle = "Sampling",
           \A o \in jobs \cup workers : o.key = k => o.generation # r.generation,
           \A i \in DOMAIN completions :
               completions[i].key = k => completions[i].generation # r.generation,
           jobs' = jobs \cup {j}, records' = [records EXCEPT ![k] = r],
           UNCHANGED <<completions, workers>>
    PROVE  OneWork'
<1>1. \A q \in Keys : records'[q] = IF q = k THEN r ELSE records[q]
  BY DEF Typed, TypeOK
<1>2. \A o \in jobs \cup workers : Current(o)' <=> (o.key # k /\ Current(o))
  BY <1>1, Fields DEF Current
<1>3. \A i \in DOMAIN completions :
          Current(completions[i])' <=> (completions[i].key # k /\ Current(completions[i]))
  BY <1>1, Fields DEF Current
<1>4. Current(j)'
  BY <1>1 DEF Current
<1>5. \A q \in Keys, stage \in Stages : q # k => (AwaitsStage(q, stage)' <=> AwaitsStage(q, stage))
  BY <1>1 DEF AwaitsStage
<1>6. AwaitsStage(k, "Sample")'
  BY <1>1 DEF AwaitsStage
<1>7. StageAwaited'
  BY <1>2, <1>3, <1>4, <1>5, <1>6, Fields
     DEF OneWork, StageAwaited, ChunkJob, JobResult
<1>8. AtMostOne'
  BY <1>2, <1>3, <1>4, Fields DEF OneWork, AtMostOne
<1>9. AtLeastOne'
  <2>1. ASSUME NEW q \in Keys, q # k, Waiting(q)'
        PROVE  \/ \E o \in jobs \cup workers : Current(o) /\ o.key = q
               \/ \E i \in DOMAIN completions : Current(completions[i]) /\ completions[i].key = q
    BY <1>1, <2>1 DEF OneWork, AtLeastOne, Waiting
  <2>. QED  BY <1>2, <1>3, <1>4, <2>1 DEF AtLeastOne
<1>. QED
  BY <1>7, <1>8, <1>9 DEF OneWork

\* A chunk's current generation is withdrawn; its work, if kept, is stale, and the
\* work of the other chunks is kept (f gives the place a result had before).
LEMMA OneWorkStop ==
    ASSUME Typed, OneWork, NEW k \in Keys,
           ~Waiting(k)',
           \A q \in Keys : q # k => records'[q] = records[q],
           jobs' \subseteq jobs, \A j \in jobs : j.key # k => j \in jobs',
           \A o \in jobs \cup workers : o.key = k => o.generation # records'[k].generation,
           \A i \in DOMAIN completions :
               completions[i].key = k => completions[i].generation # records'[k].generation,
           workers' = workers,
           NEW f \in [DOMAIN completions' -> DOMAIN completions],
           \A i \in DOMAIN completions' : completions'[i] = completions[f[i]],
           \A i, m \in DOMAIN completions' : f[i] = f[m] => i = m,
           \A m \in DOMAIN completions :
               completions[m].key # k => \E i \in DOMAIN completions' : f[i] = m
    PROVE  OneWork'
<1>1. \A o \in jobs \cup workers : Current(o)' <=> (o.key # k /\ Current(o))
  BY Fields DEF Current
<1>2. \A i \in DOMAIN completions' :
          Current(completions[i])' <=> (completions[f[i]].key # k /\ Current(completions[f[i]]))
  BY Fields DEF Current
<1>3. \A q \in Keys, stage \in Stages : q # k => (AwaitsStage(q, stage)' <=> AwaitsStage(q, stage))
  BY DEF AwaitsStage
<1>4. StageAwaited'
  <2>1. \A j \in jobs' \cup workers' : Current(j)' => AwaitsStage(j.key, j.stage)'
    BY <1>1, <1>3, Fields DEF OneWork, StageAwaited, ChunkJob
  <2>2. \A i \in DOMAIN completions' :
            Current(completions[i])' => AwaitsStage(completions[i].key, completions[i].stage)'
    BY <1>2, <1>3, Fields DEF OneWork, StageAwaited, JobResult
  <2>. QED  BY <2>1, <2>2 DEF StageAwaited
<1>5. AtMostOne'
  <2>1. \A j, o \in jobs' \cup workers' : Current(j)' /\ Current(o)' /\ j.key = o.key => j = o
    BY <1>1 DEF OneWork, AtMostOne
  <2>2. \A i, m \in DOMAIN completions' :
            /\ Current(completions[i])' /\ Current(completions[m])'
            /\ completions'[i].key = completions'[m].key
            => i = m
    BY <1>2 DEF OneWork, AtMostOne
  <2>3. \A j \in jobs' \cup workers', i \in DOMAIN completions' :
           ~(Current(j)' /\ Current(completions[i])' /\ j.key = completions'[i].key)
    BY <1>1, <1>2 DEF OneWork, AtMostOne
  <2>. QED  BY <2>1, <2>2, <2>3 DEF AtMostOne
<1>6. AtLeastOne'
  <2>1. ASSUME NEW q \in Keys, q # k, Waiting(q)'
        PROVE  \/ \E o \in jobs \cup workers : Current(o) /\ o.key = q
               \/ \E i \in DOMAIN completions : Current(completions[i]) /\ completions[i].key = q
    BY <2>1 DEF OneWork, AtLeastOne, Waiting
  <2>2. ASSUME NEW q \in Keys, q # k, NEW o \in jobs \cup workers, Current(o), o.key = q
        PROVE  \E j \in jobs' \cup workers' : Current(j)' /\ j.key = q
    BY <1>1, <2>2
  <2>3. ASSUME NEW q \in Keys, q # k, NEW m \in DOMAIN completions,
               Current(completions[m]), completions[m].key = q
        PROVE  \E i \in DOMAIN completions' : Current(completions[i])' /\ completions'[i].key = q
    BY <1>2, <2>3
  <2>. QED  BY <2>1, <2>2, <2>3 DEF AtLeastOne
<1>. QED
  BY <1>4, <1>5, <1>6 DEF OneWork

LEMMA OneWorkRequest ==
    ASSUME Typed, Issued, OneWork, NEW k \in Keys, NEW world \in Revisions,
           NEW priority \in Priorities, NEW force, NEW edit,
           RequestInternal(k, world, priority, force, edit)
    PROVE  OneWork'
<1> DEFINE r == [lifecycle |-> "Sampling", generation |-> generationCounter + 1,
                 world |-> world, priority |-> priority, edit |-> edit]
           j == MakeJob(k, r, "Sample")
<1>1. UNCHANGED <<completions, workers>>
  BY DEF RequestInternal
<1>2. CASE jobs' = jobs \cup {j} /\ records' = [records EXCEPT ![k] = r]
  <2>1. j.key = k /\ j.generation = r.generation /\ j.stage = "Sample"
    BY DEF MakeJob
  <2>2. r.lifecycle = "Sampling" /\ r.generation = generationCounter + 1
    OBVIOUS
  <2>. HIDE DEF r, j
  <2>3. \A o \in jobs \cup workers : o.key = k => o.generation # r.generation
    BY <2>2, Fields DEF Issued
  <2>4. \A i \in DOMAIN completions :
            completions[i].key = k => completions[i].generation # r.generation
    BY <2>2, Fields DEF Issued
  <2>5. UNCHANGED <<completions, workers>> /\ r.lifecycle = "Sampling" /\ jobs' = jobs \cup {j}
        /\ records' = [records EXCEPT ![k] = r]
    BY <1>1, <1>2, <2>2
  <2>6. PICK s, o : s = r /\ o = j
    OBVIOUS
  <2>7. /\ o.key = k /\ o.generation = s.generation /\ o.stage = "Sample"
        /\ s.lifecycle = "Sampling"
        /\ jobs' = jobs \cup {o} /\ records' = [records EXCEPT ![k] = s]
        /\ UNCHANGED <<completions, workers>>
    BY <2>1, <2>5, <2>6
  <2>8. /\ \A x \in jobs \cup workers : x.key = k => x.generation # s.generation
        /\ \A i \in DOMAIN completions :
               completions[i].key = k => completions[i].generation # s.generation
    BY <2>3, <2>4, <2>6
  <2>. QED  BY <2>7, <2>8, OneWorkStart, ZenonT(30)
<1>3. CASE UNCHANGED <<jobs, records>>
  BY <1>1, <1>3
     DEF OneWork, StageAwaited, AtMostOne, AtLeastOne, Waiting, Current, AwaitsStage
<1>. QED
  BY <1>2, <1>3 DEF RequestInternal

LEMMA OneWorkRefresh ==
    ASSUME Typed, OneWork, NEW k \in Keys, NEW priority \in Priorities,
           RequestSameGenerationRefresh(k, priority)
    PROVE  OneWork'
<1> DEFINE r == [records[k] EXCEPT !.priority = priority, !.lifecycle = "Sampling"]
           j == MakeJob(k, r, "Sample")
<1>1. UNCHANGED <<completions, workers>> /\ records[k].lifecycle = "Ready"
  BY DEF RequestSameGenerationRefresh
<1>2. r.generation = records[k].generation /\ r.lifecycle = "Sampling"
  BY Fields DEF ChunkRecord
<1>3. \A stage \in Stages : ~AwaitsStage(k, stage)
  BY <1>1 DEF AwaitsStage
<1>4. CASE jobs' = jobs \cup {j} /\ records' = [records EXCEPT ![k] = r]
  <2>1. j.key = k /\ j.generation = r.generation /\ j.stage = "Sample"
    BY DEF MakeJob
  <2>. HIDE DEF r, j
  <2>2. \A o \in jobs \cup workers : o.key = k => o.generation # r.generation
    BY <1>2, <1>3, Fields DEF OneWork, StageAwaited, Current, ChunkJob
  <2>3. \A i \in DOMAIN completions :
            completions[i].key = k => completions[i].generation # r.generation
    BY <1>2, <1>3, Fields DEF OneWork, StageAwaited, Current, JobResult
  <2>. QED  BY <1>1, <1>2, <1>4, <2>1, <2>2, <2>3, OneWorkStart
<1>5. CASE UNCHANGED <<jobs, records>>
  BY <1>1, <1>5
     DEF OneWork, StageAwaited, AtMostOne, AtLeastOne, Waiting, Current, AwaitsStage
<1>. QED
  BY <1>4, <1>5 DEF RequestSameGenerationRefresh

LEMMA OneWorkCancel ==
    ASSUME Typed, Issued, OneWork, NEW k \in Keys, CancelChunk(k)
    PROVE  OneWork'
<1> DEFINE f == [i \in DOMAIN completions |-> i]
<1>1. /\ \A q \in Keys : q # k => records'[q] = records[q]
      /\ records'[k].generation = generationCounter + 1
      /\ records'[k].lifecycle = "Cancelled"
  BY DEF CancelChunk, Typed, TypeOK, ChunkRecord
<1>2. UNCHANGED <<jobs, completions, workers>>
  BY DEF CancelChunk
<1>3. \A o \in jobs \cup workers : o.generation # records'[k].generation
  BY <1>1, Fields DEF Issued
<1>4. \A i \in DOMAIN completions : completions[i].generation # records'[k].generation
  BY <1>1, Fields DEF Issued
<1>5. ~Waiting(k)'
  BY <1>1 DEF Waiting
<1>6. /\ f \in [DOMAIN completions' -> DOMAIN completions]
      /\ \A i \in DOMAIN completions' : f[i] = i /\ completions'[i] = completions[f[i]]
  BY <1>2
<1>. HIDE DEF f
<1>7. \A m \in DOMAIN completions :
          completions[m].key # k => \E i \in DOMAIN completions' : f[i] = m
  BY <1>2, <1>6
<1>8. \A i, m \in DOMAIN completions' : f[i] = f[m] => i = m
  BY <1>6
<1>. QED
  BY <1>1, <1>2, <1>3, <1>4, <1>5, <1>6, <1>7, <1>8, OneWorkStop

LEMMA OneWorkForget ==
    ASSUME Typed, Issued, OneWork, NEW k \in Keys, ForgetChunk(k)
    PROVE  OneWork'
<1>1. /\ \A q \in Keys : q # k => records'[q] = records[q]
      /\ records'[k].generation = 0 /\ records'[k].lifecycle = "Absent"
  BY DEF ForgetChunk, Typed, TypeOK, NoRecord
<1>2. /\ workers' = workers
      /\ jobs' \subseteq jobs
      /\ \A j \in jobs : j.key # k => j \in jobs'
  BY DEF ForgetChunk
<1>3. \A o \in jobs \cup workers : o.generation # records'[k].generation
  BY <1>1, Fields DEF Issued
<1>4. \A i \in DOMAIN completions : completions[i].generation # records'[k].generation
  BY <1>1, Fields DEF Issued
<1>5. ~Waiting(k)'
  BY <1>1 DEF Waiting
<1>. QED
  BY <1>1, <1>2, <1>3, <1>4, <1>5, ForgottenResults, OneWorkStop

LEMMA OneWorkRepriority ==
    ASSUME Typed, Issued, OneWork, NEW f, jobs' = {f[j] : j \in jobs},
           \A j \in jobs : /\ f[j].key = j.key /\ f[j].generation = j.generation
                          /\ f[j].stage = j.stage,
           \A q \in Keys : /\ records'[q].generation = records[q].generation
                           /\ records'[q].lifecycle = records[q].lifecycle,
           UNCHANGED <<completions, workers>>
    PROVE  OneWork'
<1>1. \A j \in jobs : Current(f[j])' <=> Current(j)
  BY Fields DEF Current
<1>2. \A w \in workers : Current(w)' <=> Current(w)
  BY Fields DEF Current
<1>3. \A i \in DOMAIN completions : Current(completions[i])' <=> Current(completions[i])
  BY Fields DEF Current
<1>4. \A q \in Keys, stage \in Stages : AwaitsStage(q, stage)' <=> AwaitsStage(q, stage)
  BY DEF AwaitsStage
<1>5. StageAwaited'
  <2>1. \A j \in jobs : Current(f[j])' => AwaitsStage(f[j].key, f[j].stage)'
    BY <1>1, <1>4, Fields DEF OneWork, StageAwaited, ChunkJob
  <2>2. \A w \in workers : Current(w)' => AwaitsStage(w.key, w.stage)'
    BY <1>2, <1>4, Fields DEF OneWork, StageAwaited, ChunkJob
  <2>3. \A i \in DOMAIN completions :
            Current(completions[i])' => AwaitsStage(completions[i].key, completions[i].stage)'
    BY <1>3, <1>4, Fields DEF OneWork, StageAwaited, JobResult
  <2>. QED  BY <2>1, <2>2, <2>3 DEF StageAwaited
<1>6. AtMostOne'
  BY <1>1, <1>2, <1>3, Fields DEF OneWork, AtMostOne, Issued
<1>7. AtLeastOne'
  <2>1. \A q \in Keys : Waiting(q)' <=> Waiting(q)
    BY DEF Waiting
  <2>. QED  BY <1>1, <1>2, <1>3, <2>1 DEF OneWork, AtLeastOne
<1>. QED
  BY <1>5, <1>6, <1>7 DEF OneWork

LEMMA OneWorkSubmit ==
    ASSUME Typed, Issued, OneWork, NEW j \in workers, NEW success \in BOOLEAN,
           SubmitCompletion(j, success)
    PROVE  OneWork'
<1> DEFINE result == [key |-> j.key, generation |-> j.generation,
                      stage |-> j.stage, success |-> success]
<1>0. PICK n \in Nat : n = Len(completions)
  BY DEF Typed, TypeOK
<1>1. completions' = Append(completions, result) /\ workers' = workers \ {j}
      /\ UNCHANGED <<records, jobs>>
  BY DEF SubmitCompletion
<1>2. result \in JobResult /\ completions \in Seq(JobResult)
  BY Fields DEF Typed, TypeOK, ChunkJob, JobResult
<1>3. /\ DOMAIN completions = 1..n /\ DOMAIN completions' = 1..n + 1
      /\ completions'[n + 1] = result
      /\ \A i \in 1..n : completions'[i] = completions[i]
  BY <1>0, <1>1, <1>2, AppendProperties
<1>4. result.key = j.key /\ result.generation = j.generation /\ result.stage = j.stage
  OBVIOUS
<1>. HIDE DEF result
<1>5. j \notin jobs
  BY Fields DEF Issued
<1>6. StageAwaited'
  BY <1>1, <1>3, <1>4 DEF OneWork, StageAwaited, Current, AwaitsStage
<1>7. AtMostOne'
  <2>1. \A o, w \in jobs' \cup workers' :
            Current(o)' /\ Current(w)' /\ o.key = w.key => o = w
    BY <1>1 DEF OneWork, AtMostOne, Current
  <2>2. \A o \in jobs' \cup workers' : o # j /\ o \in jobs \cup workers
    BY <1>1, <1>5
  <2>3. \A o \in jobs' \cup workers' : ~(Current(j) /\ Current(o) /\ j.key = o.key)
    BY <2>2 DEF OneWork, AtMostOne
  <2>4. \A i \in 1..n : ~(Current(j) /\ Current(completions[i]) /\ j.key = completions[i].key)
    BY <1>3 DEF OneWork, AtMostOne
  <2>5. \A i, m \in DOMAIN completions' :
            /\ Current(completions[i])' /\ Current(completions[m])'
            /\ completions'[i].key = completions'[m].key
            => i = m
    BY <1>1, <1>3, <1>4, <2>4 DEF OneWork, AtMostOne, Current
  <2>6. \A o \in jobs' \cup workers', i \in DOMAIN completions' :
           ~(Current(o)' /\ Current(completions[i])' /\ o.key = completions'[i].key)
    BY <1>1, <1>3, <1>4, <2>2, <2>3 DEF OneWork, AtMostOne, Current
  <2>. QED  BY <2>1, <2>5, <2>6 DEF AtMostOne
<1>8. AtLeastOne'
  <2>1. ASSUME NEW q \in Keys, NEW o \in jobs \cup workers, Current(o), o.key = q
        PROVE  \/ \E w \in jobs' \cup workers' : Current(w)' /\ w.key = q
               \/ \E i \in DOMAIN completions' : Current(completions[i])' /\ completions'[i].key = q
    <3>1. CASE o = j
      <4>1. n + 1 \in DOMAIN completions' /\ Current(completions[n + 1])'
            /\ completions'[n + 1].key = q
        BY <1>1, <1>3, <1>4, <2>1, <3>1 DEF Current
      <4>. QED  BY <4>1
    <3>2. CASE o # j
      BY <1>1, <2>1, <3>2 DEF Current
    <3>. QED  BY <3>1, <3>2
  <2>2. ASSUME NEW q \in Keys, NEW m \in DOMAIN completions,
               Current(completions[m]), completions[m].key = q
        PROVE  \E i \in DOMAIN completions' : Current(completions[i])' /\ completions'[i].key = q
    <3>1. m \in DOMAIN completions' /\ completions'[m] = completions[m] /\ records' = records
      BY <1>1, <1>3
    <3>2. Current(completions[m])'
      BY <2>2, <3>1 DEF Current
    <3>. QED  BY <2>2, <3>1, <3>2
  <2>3. \A q \in Keys : Waiting(q)' <=> Waiting(q)
    BY <1>1 DEF Waiting
  <2>. QED  BY <2>1, <2>2, <2>3 DEF OneWork, AtLeastOne
<1>. QED
  BY <1>6, <1>7, <1>8 DEF OneWork

LEMMA OneWorkAbandon ==
    ASSUME Typed, OneWork, NEW j \in workers, AbandonStaleJob(j)
    PROVE  OneWork'
<1>1. ~Current(j)
  BY DEF AbandonStaleJob, OneWork, StageAwaited, Current
<1>2. workers' = workers \ {j} /\ UNCHANGED <<records, jobs, completions>>
  BY DEF AbandonStaleJob
<1>3. StageAwaited' /\ AtMostOne'
  BY <1>2 DEF OneWork, StageAwaited, AtMostOne, Current, AwaitsStage
<1>4. AtLeastOne'
  BY <1>1, <1>2 DEF OneWork, AtLeastOne, Current, Waiting
<1>. QED
  BY <1>3, <1>4 DEF OneWork

LEMMA OneWorkApply ==
    ASSUME Typed, Issued, OneWork, ApplyCompletion
    PROVE  OneWork'
<1>0. PICK k \in Keys : k = Head(completions).key
  BY Fields, PoppedResult
<1>1. /\ completions # <<>> /\ 1 \in DOMAIN completions
      /\ Head(completions) = completions[1] /\ completions[1].key = k
      /\ \A i \in DOMAIN completions' :
             /\ i + 1 \in DOMAIN completions /\ i \in Nat /\ i + 1 # 1
             /\ completions'[i] = completions[i + 1]
      /\ \A m \in DOMAIN completions : m # 1 =>
             /\ m \in Nat /\ m - 1 \in DOMAIN completions' /\ (m - 1) + 1 = m
  BY <1>0, PoppedResult DEF Typed, TypeOK
<1>2. /\ workers' = workers
      /\ \A q \in Keys : records'[q].generation = records[q].generation
      /\ \A q \in Keys : q # k => records'[q] = records[q]
  BY <1>0, AppliedRecords
     DEF ApplyCompletion, ApplyStaleCompletion, ApplyFailure, ApplySample, ApplyMesh
<1>3. \A o \in jobs \cup workers : Current(o)' <=> Current(o)
  BY <1>2, Fields DEF Current
<1>4. \A i \in DOMAIN completions' : Current(completions[i])' <=> Current(completions[i + 1])
  BY <1>1, <1>2, Fields DEF Current
<1>5. AtMostOne' \/ jobs' # jobs
  <2>1. ASSUME jobs' = jobs PROVE AtMostOne'
    <3>1. \A o, w \in jobs' \cup workers' :
              Current(o)' /\ Current(w)' /\ o.key = w.key => o = w
      BY <1>2, <1>3, <2>1 DEF OneWork, AtMostOne
    <3>2. \A i, m \in DOMAIN completions' :
              /\ Current(completions[i])' /\ Current(completions[m])'
              /\ completions'[i].key = completions'[m].key
              => i + 1 = m + 1
      BY <1>1, <1>4 DEF OneWork, AtMostOne
    <3>3. \A o \in jobs' \cup workers', i \in DOMAIN completions' :
             ~(Current(o)' /\ Current(completions[i])' /\ o.key = completions'[i].key)
      BY <1>1, <1>2, <1>3, <1>4, <2>1 DEF OneWork, AtMostOne
    <3>4. \A i, m \in DOMAIN completions' : i + 1 = m + 1 => i = m
      BY <1>1
    <3>. QED  BY <3>1, <3>2, <3>3, <3>4 DEF AtMostOne
  <2>. QED  BY <2>1
<1>6. CASE ApplyStaleCompletion
  <2>1. UNCHANGED <<records, jobs>>
    BY <1>6 DEF ApplyStaleCompletion
  <2>2. ~Current(completions[1])
    <3>1. ASSUME Current(completions[1]) PROVE FALSE
      <4>1. AwaitsStage(k, completions[1].stage)
        BY <1>1, <3>1 DEF OneWork, StageAwaited
      <4>2. Present(k)
        BY <4>1 DEF AwaitsStage, Present
      <4>. QED  BY <1>1, <1>6, <3>1, <4>1, <4>2 DEF ApplyStaleCompletion, Expected, Current
    <3>. QED  BY <3>1
  <2>3. StageAwaited'
    BY <1>1, <1>2, <1>3, <1>4, <2>1, Fields DEF OneWork, StageAwaited, AwaitsStage
  <2>4. AtLeastOne'
    <3>1. ASSUME NEW q \in Keys, NEW m \in DOMAIN completions,
                 Current(completions[m]), completions[m].key = q
          PROVE  \E i \in DOMAIN completions' : Current(completions[i])' /\ completions'[i].key = q
      <4>1. m # 1
        BY <2>2, <3>1
      <4>2. PICK i \in DOMAIN completions' : i + 1 = m
        BY <1>1, <4>1
      <4>. QED  BY <1>1, <1>4, <3>1, <4>2
    <3>2. \A q \in Keys : Waiting(q)' <=> Waiting(q)
      BY <2>1 DEF Waiting
    <3>. QED  BY <1>2, <1>3, <2>1, <3>1, <3>2 DEF OneWork, AtLeastOne
  <2>. QED  BY <1>5, <2>1, <2>3, <2>4 DEF OneWork
<1>7. ASSUME Expected(Head(completions))
      PROVE  /\ Current(completions[1])
             /\ \A o \in jobs \cup workers : o.key = k => ~Current(o)
             /\ \A i \in DOMAIN completions' : completions'[i].key = k => ~Current(completions[i + 1])
  <2>1. Current(completions[1])
    BY <1>1, <1>7 DEF Expected, Current
  <2>2. \A o \in jobs \cup workers : o.key = k => ~Current(o)
    BY <1>1, <2>1 DEF OneWork, AtMostOne
  <2>3. \A i \in DOMAIN completions' : completions'[i].key = k => ~Current(completions[i + 1])
    BY <1>1, <2>1 DEF OneWork, AtMostOne
  <2>. QED  BY <2>1, <2>2, <2>3
<1>8. ASSUME Expected(Head(completions))
      PROVE  /\ \A i \in DOMAIN completions' :
                    Current(completions[i])' => AwaitsStage(completions[i].key, completions[i].stage)'
             /\ \A o \in jobs \cup workers : Current(o)' => AwaitsStage(o.key, o.stage)'
  <2>1. \A q \in Keys, stage \in Stages : q # k => (AwaitsStage(q, stage)' <=> AwaitsStage(q, stage))
    BY <1>2 DEF AwaitsStage
  <2>2. \A o \in jobs \cup workers : Current(o)' => AwaitsStage(o.key, o.stage)'
    BY <1>3, <1>7, <1>8, <2>1, Fields DEF OneWork, StageAwaited, ChunkJob
  <2>3. \A i \in DOMAIN completions' :
            Current(completions[i])' => AwaitsStage(completions[i].key, completions[i].stage)'
    BY <1>1, <1>4, <1>7, <1>8, <2>1, Fields DEF OneWork, StageAwaited, JobResult
  <2>. QED  BY <2>2, <2>3
<1>9. ASSUME Expected(Head(completions)), NEW q \in Keys, q # k, Waiting(q)',
             jobs \subseteq jobs'
      PROVE  \/ \E o \in jobs' \cup workers' : Current(o)' /\ o.key = q
             \/ \E i \in DOMAIN completions' : Current(completions[i])' /\ completions'[i].key = q
  <2>1. Waiting(q)
    BY <1>2, <1>9 DEF Waiting
  <2>2. ASSUME NEW m \in DOMAIN completions, Current(completions[m]), completions[m].key = q
        PROVE  \E i \in DOMAIN completions' : Current(completions[i])' /\ completions'[i].key = q
    <3>1. m # 1
      BY <1>1, <1>9, <2>2
    <3>2. PICK i \in DOMAIN completions' : i + 1 = m
      BY <1>1, <3>1
    <3>. QED  BY <1>1, <1>4, <2>2, <3>2
  <2>. QED  BY <1>2, <1>3, <1>9, <2>1, <2>2 DEF OneWork, AtLeastOne
<1>10. ASSUME Expected(Head(completions)), jobs' = jobs, ~Waiting(k)'
       PROVE  OneWork'
  <2>1. StageAwaited'
    BY <1>2, <1>8, <1>10 DEF StageAwaited
  <2>2. AtLeastOne'
    BY <1>9, <1>10 DEF AtLeastOne
  <2>. QED  BY <1>5, <1>10, <2>1, <2>2 DEF OneWork
<1>11. CASE ApplyFailure
  <2>1. ~Waiting(k)' /\ jobs' = jobs /\ Expected(Head(completions))
    BY <1>0, <1>11 DEF ApplyFailure, Waiting, Typed, TypeOK, ChunkRecord
  <2>. QED  BY <1>10, <2>1
<1>12. CASE ApplyMesh
  <2>1. ~Waiting(k)' /\ jobs' = jobs /\ Expected(Head(completions))
    BY <1>0, <1>12 DEF ApplyMesh, Waiting, Typed, TypeOK, ChunkRecord
  <2>. QED  BY <1>10, <2>1
<1>13. CASE ApplySample
  <2>0. PICK j : j = MakeJob(k, records[k], "Mesh")
    OBVIOUS
  <2>1. Expected(Head(completions))
    BY <1>13 DEF ApplySample
  <2>2. CASE jobs' = jobs /\ records' = [records EXCEPT ![k].lifecycle = "Failed"]
    <3>1. ~Waiting(k)'
      BY <2>2 DEF Waiting, Typed, TypeOK, ChunkRecord
    <3>. QED  BY <1>10, <2>1, <2>2, <3>1
  <2>3. CASE jobs' = jobs \cup {j} /\ records' = [records EXCEPT ![k].lifecycle = "Meshing"]
    <3>1. j.key = k /\ j.generation = records[k].generation /\ j.stage = "Mesh"
      BY <2>0 DEF MakeJob
    <3>2. records'[k].lifecycle = "Meshing"
      BY <2>3 DEF Typed, TypeOK, ChunkRecord
    <3>3. Current(j)' /\ AwaitsStage(j.key, j.stage)'
      BY <1>2, <3>1, <3>2 DEF Current, AwaitsStage
    <3>4. StageAwaited'
      BY <1>2, <1>8, <2>1, <2>3, <3>3 DEF StageAwaited
    <3>5. AtMostOne'
      <4>1. \A o \in jobs \cup workers : o.key = k => ~Current(o)'
        BY <1>3, <1>7, <2>1
      <4>2. \A i \in DOMAIN completions' : completions'[i].key = k => ~Current(completions[i])'
        BY <1>4, <1>7, <2>1
      <4>3. \A o, w \in jobs' \cup workers' :
                Current(o)' /\ Current(w)' /\ o.key = w.key => o = w
        BY <1>2, <1>3, <2>3, <3>1, <4>1 DEF OneWork, AtMostOne
      <4>4. \A i, m \in DOMAIN completions' :
                /\ Current(completions[i])' /\ Current(completions[m])'
                /\ completions'[i].key = completions'[m].key
                => i + 1 = m + 1
        BY <1>1, <1>4 DEF OneWork, AtMostOne
      <4>5. \A o \in jobs' \cup workers', i \in DOMAIN completions' :
               ~(Current(o)' /\ Current(completions[i])' /\ o.key = completions'[i].key)
        BY <1>1, <1>2, <1>3, <1>4, <2>3, <3>1, <4>2 DEF OneWork, AtMostOne
      <4>6. \A i, m \in DOMAIN completions' : i + 1 = m + 1 => i = m
        BY <1>1
      <4>. QED  BY <4>3, <4>4, <4>5, <4>6 DEF AtMostOne
    <3>6. AtLeastOne'
      BY <1>9, <2>1, <2>3, <3>1, <3>3 DEF AtLeastOne
    <3>. QED  BY <3>4, <3>5, <3>6 DEF OneWork
  <2>. QED  BY <1>0, <1>13, <2>0, <2>2, <2>3 DEF ApplySample
<1>. QED
  BY <1>6, <1>11, <1>12, <1>13 DEF ApplyCompletion

LEMMA OneWorkNext == Typed /\ Issued /\ OneWork /\ [Next]_vars => OneWork'
<1> SUFFICES ASSUME Typed, Issued, OneWork, [Next]_vars PROVE OneWork'
  OBVIOUS
<1>1. ASSUME NEW k \in Keys, NEW world \in Revisions, NEW priority \in Priorities,
             NEW force \in BOOLEAN, RequestChunkVersion(k, world, priority, force)
      PROVE  OneWork'
  BY <1>1, OneWorkRequest DEF RequestChunkVersion
<1>2. ASSUME NEW k \in Keys, NEW world \in Revisions, NEW priority \in Priorities,
             RequestEditedChunkVersion(k, world, priority)
      PROVE  OneWork'
  BY <1>2, OneWorkRequest DEF RequestEditedChunkVersion
<1>3. ASSUME NEW k \in Keys, NEW priority \in Priorities, ReprioritizeChunk(k, priority)
      PROVE  OneWork'
  <2> DEFINE f == [j \in jobs |-> IF j.key = k /\ j.generation = records[k].generation
                                   THEN [j EXCEPT !.priority = priority] ELSE j]
  <2>1. jobs' = {f[j] : j \in jobs}
    BY <1>3 DEF ReprioritizeChunk, Requeued
  <2>2. \A j \in jobs : /\ f[j].key = j.key /\ f[j].generation = j.generation
                        /\ f[j].stage = j.stage
    BY RepriorityFields
  <2>3. \A q \in Keys : /\ records'[q].generation = records[q].generation
                        /\ records'[q].lifecycle = records[q].lifecycle
    BY <1>3 DEF ReprioritizeChunk, Typed, TypeOK, ChunkRecord
  <2>. HIDE DEF f
  <2>. QED  BY <1>3, <2>1, <2>2, <2>3, OneWorkRepriority DEF ReprioritizeChunk
<1>4. ASSUME NEW K \in SUBSET Keys, NEW update \in [K -> Priorities],
             ReprioritizeChunks(update)
      PROVE  OneWork'
  <2> DEFINE f == [j \in jobs |->
                     IF j.key \in DOMAIN update /\ j.generation = records[j.key].generation
                     THEN [j EXCEPT !.priority = update[j.key]] ELSE j]
  <2>1. jobs' = {f[j] : j \in jobs}
    BY <1>4 DEF ReprioritizeChunks
  <2>2. \A j \in jobs : /\ f[j].key = j.key /\ f[j].generation = j.generation
                        /\ f[j].stage = j.stage
    BY RepriorityFields
  <2>3. \A q \in Keys : /\ records'[q].generation = records[q].generation
                        /\ records'[q].lifecycle = records[q].lifecycle
    BY <1>4, Fields DEF ReprioritizeChunks, ChunkRecord
  <2>. HIDE DEF f
  <2>. QED  BY <1>4, <2>1, <2>2, <2>3, OneWorkRepriority DEF ReprioritizeChunks
<1>5. ASSUME NEW admitted \in SUBSET jobs, PopJob(admitted) PROVE OneWork'
  <2>1. jobs' \cup workers' = jobs \cup workers /\ UNCHANGED <<records, completions>>
    BY <1>5 DEF PopJob
  <2>. QED
    BY <2>1 DEF OneWork, StageAwaited, AtMostOne, AtLeastOne, Current, AwaitsStage, Waiting
<1>6. CASE UNCHANGED vars
  BY <1>6 DEF vars, OneWork, StageAwaited, AtMostOne, AtLeastOne, Current, AwaitsStage, Waiting
<1>. QED
  BY <1>1, <1>2, <1>3, <1>4, <1>5, <1>6, OneWorkRefresh, OneWorkCancel, OneWorkForget,
     OneWorkSubmit, OneWorkAbandon, OneWorkApply DEF Next, Request

LEMMA IssuedInit == Init => Issued
BY DEF Init, Issued, Present, NoRecord

\* One piece of work per waiting chunk, counted as the checked property counts it.
LEMMA OneWorkCounted == Typed /\ OneWork => NoLostWork
<1> SUFFICES ASSUME Typed, OneWork, NEW k \in Keys,
                    records[k].lifecycle \in {"Sampling", "Meshing"}
             PROVE  Cardinality(LiveJobs(k)) + Cardinality(LiveResults(k)) = 1
  BY DEF NoLostWork
<1>1. LiveJobs(k) = {j \in jobs \cup workers : j.key = k /\ Current(j)}
  BY DEF LiveJobs, Current, OneWork, StageAwaited
<1>2. LiveResults(k) = {i \in DOMAIN completions : completions[i].key = k /\ Current(completions[i])}
  BY DEF LiveResults, Expected, Present, Current, OneWork, StageAwaited
<1>3. CASE \E j \in jobs \cup workers : Current(j) /\ j.key = k
  <2>1. \E j : LiveJobs(k) = {j}
    BY <1>1, <1>3 DEF OneWork, AtMostOne
  <2>2. LiveResults(k) = {}
    BY <1>2, <1>3 DEF OneWork, AtMostOne
  <2>3. Cardinality(LiveJobs(k)) = 1
    BY <2>1, FS_Singleton
  <2>4. Cardinality(LiveResults(k)) = 0
    BY <2>2, FS_EmptySet
  <2>. QED  BY <2>3, <2>4
<1>4. CASE \E i \in DOMAIN completions : Current(completions[i]) /\ completions[i].key = k
  <2>1. \E i : LiveResults(k) = {i}
    BY <1>2, <1>4 DEF OneWork, AtMostOne
  <2>2. LiveJobs(k) = {}
    BY <1>1, <1>4 DEF OneWork, AtMostOne
  <2>3. Cardinality(LiveResults(k)) = 1
    BY <2>1, FS_Singleton
  <2>4. Cardinality(LiveJobs(k)) = 0
    BY <2>2, FS_EmptySet
  <2>. QED  BY <2>3, <2>4
<1>. QED
  BY <1>3, <1>4 DEF OneWork, AtLeastOne, Waiting

\* No interleaving of requests, refreshes, priority changes, cancellations, full
\* queues, retried answers and stale results loses or doubles a chunk's work.
THEOREM WorkNeverLost == SafetySpec => []NoLostWork
<1>1. Init => Typed /\ Issued /\ OneWork
  BY TypedInit, IssuedInit, OneWorkInit
<1>2. Typed /\ Issued /\ OneWork /\ [Next]_vars => (Typed /\ Issued /\ OneWork)'
  BY TypedNext, IssuedNext, OneWorkNext
<1>3. Typed /\ Issued /\ OneWork => NoLostWork
  BY OneWorkCounted
<1>. QED
  BY <1>1, <1>2, <1>3, PTL DEF SafetySpec

-----------------------------------------------------------------------------
\* Work that still names its chunk's generation was made for the record as it is:
\* same world revision, same priority while queued, meshed once answered as a mesh.
Versioned ==
    /\ \A j \in jobs \cup workers :
           j.generation = records[j.key].generation => j.world = records[j.key].world
    /\ \A i \in DOMAIN completions :
           LET c == completions[i]
           IN  c.stage = "Mesh" /\ c.success /\ c.generation = records[c.key].generation =>
                   <<c.key, c.generation, records[c.key].world>> \in meshed
    /\ ReadyMeansMeshed
    /\ QueueFollowsPriority
    /\ EditDeltaOfRevision

LEMMA VersionedInit == Init => Versioned
BY DEF Init, Versioned, ReadyMeansMeshed, QueueFollowsPriority, EditDeltaOfRevision, NoRecord

LEMMA VersionedRequest ==
    ASSUME Typed, Issued, Versioned, NEW k \in Keys, NEW world \in Revisions,
           NEW priority \in Priorities, NEW force, NEW edit \in {NoEdit, world},
           RequestInternal(k, world, priority, force, edit)
    PROVE  Versioned'
<1> DEFINE r == [lifecycle |-> "Sampling", generation |-> generationCounter + 1,
                 world |-> world, priority |-> priority, edit |-> edit]
           j == MakeJob(k, r, "Sample")
<1>1. workers' = workers /\ completions' = completions /\ meshed' = meshed
  BY DEF RequestInternal
<1>2. CASE jobs' = jobs \cup {j} /\ records' = [records EXCEPT ![k] = r]
  <2>1. /\ j.key = k /\ j.generation = generationCounter + 1 /\ j.world = world
        /\ j.priority = priority /\ j.edit = edit
    BY DEF MakeJob
  <2>2. \A q \in Keys : records'[q] = IF q = k THEN r ELSE records[q]
    BY <1>2 DEF Typed, TypeOK
  <2>3. \A o \in jobs \cup workers : o.generation # r.generation
    BY Fields DEF Issued
  <2>4. \A i \in DOMAIN completions : completions[i].generation # r.generation
    BY Fields DEF Issued
  <2>5. /\ r.lifecycle = "Sampling" /\ r.generation = generationCounter + 1
        /\ r.world = world /\ r.priority = priority /\ r.edit = edit
    OBVIOUS
  <2>. HIDE DEF r, j
  <2>6. \A o \in jobs' \cup workers' :
            /\ o.generation = records'[o.key].generation => o.world = records'[o.key].world
            /\ o.edit \in {NoEdit, o.world}
    BY <1>1, <1>2, <2>1, <2>2, <2>3, <2>5, Fields DEF Versioned, EditDeltaOfRevision
  <2>7. \A i \in DOMAIN completions' :
           LET c == completions'[i]
           IN  c.stage = "Mesh" /\ c.success /\ c.generation = records'[c.key].generation =>
                   <<c.key, c.generation, records'[c.key].world>> \in meshed'
    BY <1>1, <2>2, <2>4, Fields DEF Versioned
  <2>8. ReadyMeansMeshed'
    BY <1>1, <2>2, <2>5 DEF Versioned, ReadyMeansMeshed
  <2>9. QueueFollowsPriority'
    BY <1>2, <2>1, <2>2, <2>3, <2>5, Fields DEF Versioned, QueueFollowsPriority
  <2>10. \A q \in Keys : records'[q].edit \in {NoEdit, records'[q].world}
    BY <2>2, <2>5 DEF Versioned, EditDeltaOfRevision
  <2>. QED  BY <2>6, <2>7, <2>8, <2>9, <2>10 DEF Versioned, EditDeltaOfRevision
<1>3. CASE UNCHANGED <<jobs, records>>
  BY <1>1, <1>3
     DEF Versioned, ReadyMeansMeshed, QueueFollowsPriority, EditDeltaOfRevision
<1>. QED
  BY <1>2, <1>3 DEF RequestInternal

LEMMA VersionedRefresh ==
    ASSUME Typed, Issued, OneWork, Versioned, NEW k \in Keys, NEW priority \in Priorities,
           RequestSameGenerationRefresh(k, priority)
    PROVE  Versioned'
<1> DEFINE r == [records[k] EXCEPT !.priority = priority, !.lifecycle = "Sampling"]
<1>0. PICK j : j = MakeJob(k, r, "Sample")
  OBVIOUS
<1>1. UNCHANGED <<completions, workers, meshed>> /\ records[k].lifecycle = "Ready"
  BY DEF RequestSameGenerationRefresh
<1>2. /\ r.generation = records[k].generation /\ r.lifecycle = "Sampling"
      /\ r.world = records[k].world /\ r.edit = records[k].edit /\ r.priority = priority
  BY Fields DEF ChunkRecord
<1>3. /\ j.key = k /\ j.generation = r.generation /\ j.world = r.world
      /\ j.priority = r.priority /\ j.edit = r.edit
  BY <1>0 DEF MakeJob
<1>4. \A o \in jobs : o.key = k => o.generation # records[k].generation
  BY <1>1, Fields DEF OneWork, StageAwaited, Current, AwaitsStage, ChunkJob
<1>. HIDE DEF r
<1>5. CASE jobs' = jobs \cup {j} /\ records' = [records EXCEPT ![k] = r]
  <2>1. \A q \in Keys : records'[q] = IF q = k THEN r ELSE records[q]
    BY <1>5 DEF Typed, TypeOK
  <2>2. \A q \in Keys : /\ records'[q].generation = records[q].generation
                        /\ records'[q].world = records[q].world
                        /\ records'[q].edit = records[q].edit
    BY <1>2, <2>1
  <2>3. \A o \in jobs' \cup workers' :
            /\ o.generation = records'[o.key].generation => o.world = records'[o.key].world
            /\ o.edit \in {NoEdit, o.world}
    BY <1>1, <1>2, <1>3, <1>5, <2>2, Fields DEF Versioned, EditDeltaOfRevision
  <2>4. \A i \in DOMAIN completions' :
           LET c == completions'[i]
           IN  c.stage = "Mesh" /\ c.success /\ c.generation = records'[c.key].generation =>
                   <<c.key, c.generation, records'[c.key].world>> \in meshed'
    BY <1>1, <2>2, Fields DEF Versioned
  <2>5. ReadyMeansMeshed'
    BY <1>1, <1>2, <2>1 DEF Versioned, ReadyMeansMeshed
  <2>6. QueueFollowsPriority'
    BY <1>2, <1>3, <1>4, <1>5, <2>1, Fields DEF Versioned, QueueFollowsPriority
  <2>7. \A q \in Keys : records'[q].edit \in {NoEdit, records'[q].world}
    BY <2>2 DEF Versioned, EditDeltaOfRevision
  <2>. QED  BY <2>3, <2>4, <2>5, <2>6, <2>7 DEF Versioned, EditDeltaOfRevision
<1>6. CASE UNCHANGED <<jobs, records>>
  BY <1>1, <1>6
     DEF Versioned, ReadyMeansMeshed, QueueFollowsPriority, EditDeltaOfRevision
<1>. QED
  BY <1>0, <1>5, <1>6 DEF RequestSameGenerationRefresh, r

LEMMA VersionedCancel ==
    ASSUME Typed, Issued, Versioned, NEW k \in Keys, CancelChunk(k)
    PROVE  Versioned'
<1>1. /\ \A q \in Keys : q # k => records'[q] = records[q]
      /\ records'[k].generation = generationCounter + 1
      /\ records'[k].lifecycle = "Cancelled"
      /\ records'[k].world = records[k].world /\ records'[k].edit = records[k].edit
  BY DEF CancelChunk, Typed, TypeOK, ChunkRecord
<1>2. UNCHANGED <<jobs, completions, workers, meshed>>
  BY DEF CancelChunk
<1>3. \A o \in jobs \cup workers : o.generation # records'[k].generation
  BY <1>1, Fields DEF Issued
<1>4. \A i \in DOMAIN completions : completions[i].generation # records'[k].generation
  BY <1>1, Fields DEF Issued
<1>5. \A i \in DOMAIN completions' :
           LET c == completions'[i]
           IN  c.stage = "Mesh" /\ c.success /\ c.generation = records'[c.key].generation =>
                   <<c.key, c.generation, records'[c.key].world>> \in meshed'
  BY <1>1, <1>2, <1>4, Fields DEF Versioned
<1>6. \A o \in jobs' \cup workers' :
          o.generation = records'[o.key].generation => o.world = records'[o.key].world
  BY <1>1, <1>2, <1>3, Fields DEF Versioned
<1>7. ReadyMeansMeshed'
  BY <1>1, <1>2 DEF Versioned, ReadyMeansMeshed
<1>8. QueueFollowsPriority'
  BY <1>1, <1>2, <1>3, Fields DEF Versioned, QueueFollowsPriority
<1>9. EditDeltaOfRevision'
  BY <1>1, <1>2 DEF Versioned, EditDeltaOfRevision
<1>. QED
  BY <1>5, <1>6, <1>7, <1>8, <1>9 DEF Versioned

LEMMA VersionedForget ==
    ASSUME Typed, Issued, Versioned, NEW k \in Keys, ForgetChunk(k)
    PROVE  Versioned'
<1>1. /\ \A q \in Keys : q # k => records'[q] = records[q]
      /\ records'[k].generation = 0 /\ records'[k].lifecycle = "Absent"
      /\ records'[k].edit = NoEdit
  BY DEF ForgetChunk, Typed, TypeOK, NoRecord
<1>2. UNCHANGED <<workers, meshed>> /\ jobs' \subseteq jobs
  BY DEF ForgetChunk
<1>3. \A o \in jobs \cup workers : o.generation # records'[k].generation
  BY <1>1, Fields DEF Issued
<1>4. \A i \in DOMAIN completions' :
           LET c == completions'[i]
           IN  c.stage = "Mesh" /\ c.success /\ c.generation = records'[c.key].generation =>
                   <<c.key, c.generation, records'[c.key].world>> \in meshed'
  <2>1. \A i \in DOMAIN completions' : \E m \in DOMAIN completions :
            completions'[i] = completions[m] /\ completions[m].key # k
    BY ForgottenResults
  <2>. QED  BY <1>1, <1>2, <2>1, Fields DEF Versioned
<1>5. \A o \in jobs' \cup workers' :
          o.generation = records'[o.key].generation => o.world = records'[o.key].world
  BY <1>1, <1>2, <1>3, Fields DEF Versioned
<1>6. ReadyMeansMeshed'
  BY <1>1, <1>2 DEF Versioned, ReadyMeansMeshed
<1>7. QueueFollowsPriority'
  BY <1>1, <1>2, <1>3, Fields DEF Versioned, QueueFollowsPriority
<1>8. EditDeltaOfRevision'
  BY <1>1, <1>2 DEF Versioned, EditDeltaOfRevision
<1>. QED
  BY <1>4, <1>5, <1>6, <1>7, <1>8 DEF Versioned

\* A change of priorities renames queued jobs and keeps every version.
LEMMA VersionedRepriority ==
    ASSUME Typed, Versioned, NEW f, jobs' = {f[j] : j \in jobs},
           \A j \in jobs :
               /\ f[j].key = j.key /\ f[j].generation = j.generation
               /\ f[j].world = j.world /\ f[j].edit = j.edit
               /\ j.generation = records[j.key].generation =>
                      f[j].priority = records'[j.key].priority,
           \A q \in Keys :
               /\ records'[q].generation = records[q].generation
               /\ records'[q].lifecycle = records[q].lifecycle
               /\ records'[q].world = records[q].world
               /\ records'[q].edit = records[q].edit,
           UNCHANGED <<completions, workers, meshed>>
    PROVE  Versioned'
<1>1. \A j \in jobs \cup workers :
          /\ j.generation = records'[j.key].generation => j.world = records'[j.key].world
          /\ j.edit \in {NoEdit, j.world}
  BY Fields DEF Versioned, EditDeltaOfRevision
<1>2. \A o \in jobs' \cup workers' :
          /\ o.generation = records'[o.key].generation => o.world = records'[o.key].world
          /\ o.edit \in {NoEdit, o.world}
  BY <1>1
<1>3. \A i \in DOMAIN completions' :
           LET c == completions'[i]
           IN  c.stage = "Mesh" /\ c.success /\ c.generation = records'[c.key].generation =>
                   <<c.key, c.generation, records'[c.key].world>> \in meshed'
  BY Fields DEF Versioned
<1>4. ReadyMeansMeshed'
  BY DEF Versioned, ReadyMeansMeshed
<1>5. QueueFollowsPriority'
  BY Fields DEF QueueFollowsPriority
<1>6. \A q \in Keys : records'[q].edit \in {NoEdit, records'[q].world}
  BY DEF Versioned, EditDeltaOfRevision
<1>. QED
  BY <1>2, <1>3, <1>4, <1>5, <1>6 DEF Versioned, EditDeltaOfRevision

LEMMA VersionedReprioritize ==
    ASSUME Typed, Versioned, NEW k \in Keys, NEW priority \in Priorities,
           ReprioritizeChunk(k, priority)
    PROVE  Versioned'
<1> DEFINE f == [j \in jobs |-> IF j.key = k /\ j.generation = records[k].generation
                                THEN [j EXCEPT !.priority = priority] ELSE j]
<1>1. jobs' = {f[j] : j \in jobs}
  BY DEF ReprioritizeChunk, Requeued
<1>2. \A q \in Keys :
          /\ records'[q].generation = records[q].generation
          /\ records'[q].lifecycle = records[q].lifecycle
          /\ records'[q].world = records[q].world
          /\ records'[q].edit = records[q].edit
          /\ records'[q].priority = IF q = k THEN priority ELSE records[q].priority
  BY DEF ReprioritizeChunk, Typed, TypeOK, ChunkRecord
<1>3. \A j \in jobs :
          /\ f[j].key = j.key /\ f[j].generation = j.generation
          /\ f[j].world = j.world /\ f[j].edit = j.edit
          /\ j.key = k /\ j.generation = records[k].generation => f[j].priority = priority
          /\ ~(j.key = k /\ j.generation = records[k].generation) => f[j] = j
  BY RepriorityFields
<1>. HIDE DEF f
<1>4. \A j \in jobs : j.generation = records[j.key].generation =>
                          f[j].priority = records'[j.key].priority
  BY <1>2, <1>3, Fields DEF Versioned, QueueFollowsPriority
<1>. QED
  BY <1>1, <1>2, <1>3, <1>4, VersionedRepriority DEF ReprioritizeChunk

LEMMA VersionedReprioritizeBatch ==
    ASSUME Typed, Versioned, NEW K \in SUBSET Keys, NEW update \in [K -> Priorities],
           ReprioritizeChunks(update)
    PROVE  Versioned'
<1> DEFINE f == [j \in jobs |->
                   IF j.key \in DOMAIN update /\ j.generation = records[j.key].generation
                   THEN [j EXCEPT !.priority = update[j.key]] ELSE j]
<1>1. jobs' = {f[j] : j \in jobs}
  BY DEF ReprioritizeChunks
<1>2. \A q \in Keys :
          /\ records'[q].generation = records[q].generation
          /\ records'[q].lifecycle = records[q].lifecycle
          /\ records'[q].world = records[q].world
          /\ records'[q].edit = records[q].edit
          /\ records'[q].priority = IF q \in DOMAIN update THEN update[q]
                                     ELSE records[q].priority
  BY Fields DEF ReprioritizeChunks, ChunkRecord
<1>3. \A j \in jobs :
          /\ f[j].key = j.key /\ f[j].generation = j.generation
          /\ f[j].world = j.world /\ f[j].edit = j.edit
          /\ j.key \in DOMAIN update /\ j.generation = records[j.key].generation
              => f[j].priority = update[j.key]
          /\ ~(j.key \in DOMAIN update /\ j.generation = records[j.key].generation)
              => f[j] = j
  BY RepriorityFields
<1>. HIDE DEF f
<1>4. \A j \in jobs : j.generation = records[j.key].generation =>
                          f[j].priority = records'[j.key].priority
  BY <1>2, <1>3, Fields DEF Versioned, QueueFollowsPriority
<1>5. UNCHANGED <<completions, workers, meshed>>
  BY DEF ReprioritizeChunks
<1>6. \A j \in jobs : /\ f[j].key = j.key /\ f[j].generation = j.generation
                      /\ f[j].world = j.world /\ f[j].edit = j.edit
  BY <1>3
<1>. QED
  BY <1>1, <1>2, <1>4, <1>5, <1>6, VersionedRepriority

\* A worker that answers a mesh job of its chunk's generation has meshed its version.
LEMMA VersionedSubmit ==
    ASSUME Typed, Versioned, NEW j \in workers, NEW success \in BOOLEAN,
           SubmitCompletion(j, success)
    PROVE  Versioned'
<1> DEFINE result == [key |-> j.key, generation |-> j.generation,
                      stage |-> j.stage, success |-> success]
<1>0. PICK n \in Nat : n = Len(completions)
  BY DEF Typed, TypeOK
<1>1. /\ completions' = Append(completions, result) /\ workers' = workers \ {j}
      /\ meshed \subseteq meshed' /\ UNCHANGED <<records, jobs>>
      /\ j.stage = "Mesh" /\ success => <<j.key, j.generation, j.world>> \in meshed'
  BY DEF SubmitCompletion
<1>2. result \in JobResult /\ completions \in Seq(JobResult)
  BY Fields DEF Typed, TypeOK, ChunkJob, JobResult
<1>3. /\ DOMAIN completions = 1..n /\ DOMAIN completions' = 1..n + 1
      /\ completions'[n + 1] = result
      /\ \A i \in 1..n : completions'[i] = completions[i]
  BY <1>0, <1>1, <1>2, AppendProperties
<1>4. /\ result.key = j.key /\ result.generation = j.generation
      /\ result.stage = j.stage /\ result.success = success
  OBVIOUS
<1>. HIDE DEF result
<1>5. result.stage = "Mesh" /\ result.success
      /\ result.generation = records[result.key].generation =>
          <<result.key, result.generation, records[result.key].world>> \in meshed'
  BY <1>1, <1>4 DEF Versioned
<1>6. \A i \in DOMAIN completions' :
           LET c == completions'[i]
           IN  c.stage = "Mesh" /\ c.success /\ c.generation = records'[c.key].generation =>
                   <<c.key, c.generation, records'[c.key].world>> \in meshed'
  <2>1. \A i \in 1..n :
           LET c == completions[i]
           IN  c.stage = "Mesh" /\ c.success /\ c.generation = records[c.key].generation =>
                   <<c.key, c.generation, records[c.key].world>> \in meshed'
    BY <1>1, <1>3 DEF Versioned
  <2>2. \A i \in 1..n + 1 : i \in 1..n \/ i = n + 1
    BY <1>0
  <2>. QED  BY <1>1, <1>3, <1>5, <2>1, <2>2
<1>7. ReadyMeansMeshed'
  BY <1>1 DEF Versioned, ReadyMeansMeshed
<1>8. QueueFollowsPriority'
  BY <1>1 DEF Versioned, QueueFollowsPriority
<1>9. EditDeltaOfRevision'
  BY <1>1 DEF Versioned, EditDeltaOfRevision
<1>10. \A o \in jobs' \cup workers' :
           o.generation = records'[o.key].generation => o.world = records'[o.key].world
  BY <1>1 DEF Versioned
<1>. QED
  BY <1>6, <1>7, <1>8, <1>9, <1>10 DEF Versioned

\* Applying a result: a chunk becomes Ready only on the mesh of its own version,
\* and the mesh job that follows a sample repeats the record's version.
LEMMA VersionedApply ==
    ASSUME Typed, Versioned, ApplyCompletion
    PROVE  Versioned'
<1>0. PICK k \in Keys : k = Head(completions).key
  BY Fields, PoppedResult
<1>1. \A q \in Keys :
          /\ records'[q].generation = records[q].generation
          /\ records'[q].world = records[q].world
          /\ records'[q].priority = records[q].priority
          /\ records'[q].edit = records[q].edit
          /\ q # k => records'[q] = records[q]
  BY <1>0, AppliedRecords
<1>2. UNCHANGED <<workers, meshed>>
  BY DEF ApplyCompletion, ApplyStaleCompletion, ApplyFailure, ApplySample, ApplyMesh
<1>3. \A o \in jobs' : o \in jobs \/
          /\ o.key = k /\ o.world = records[k].world
          /\ o.priority = records[k].priority /\ o.edit = records[k].edit
  BY <1>0 DEF ApplyCompletion, ApplyStaleCompletion, ApplyFailure, ApplySample, ApplyMesh, MakeJob
<1>4. \A o \in jobs' \cup workers' :
          /\ o.generation = records'[o.key].generation => o.world = records'[o.key].world
          /\ o.edit \in {NoEdit, o.world}
  BY <1>0, <1>1, <1>2, <1>3, Fields DEF Versioned, EditDeltaOfRevision
<1>5. \A i \in DOMAIN completions' :
           LET c == completions'[i]
           IN  c.stage = "Mesh" /\ c.success /\ c.generation = records'[c.key].generation =>
                   <<c.key, c.generation, records'[c.key].world>> \in meshed'
  <2>1. \A m \in DOMAIN completions :
           LET c == completions[m]
           IN  c.stage = "Mesh" /\ c.success /\ c.generation = records'[c.key].generation =>
                   <<c.key, c.generation, records'[c.key].world>> \in meshed'
    BY <1>1, <1>2, Fields DEF Versioned
  <2>2. \A i \in DOMAIN completions' : \E m \in DOMAIN completions :
            completions'[i] = completions[m]
    BY PoppedResult
  <2>. QED  BY <2>1, <2>2
<1>6. records'[k].lifecycle = "Ready" =>
          <<k, records'[k].generation, records'[k].world>> \in meshed'
  <2>1. CASE ApplyMesh
    <3>1. /\ Head(completions).stage = "Mesh" /\ Head(completions).success
          /\ Head(completions).generation = records[k].generation
      BY <1>0, <2>1 DEF ApplyMesh, Expected
    <3>2. Head(completions) = completions[1] /\ 1 \in DOMAIN completions
      BY PoppedResult
    <3>. QED  BY <1>0, <1>1, <1>2, <3>1, <3>2 DEF Versioned
  <2>2. CASE ApplyStaleCompletion
    BY <1>2, <2>2 DEF ApplyStaleCompletion, Versioned, ReadyMeansMeshed
  <2>3. CASE ApplyFailure \/ ApplySample
    BY <1>0, <2>3 DEF ApplyFailure, ApplySample, Typed, TypeOK, ChunkRecord
  <2>. QED  BY <2>1, <2>2, <2>3 DEF ApplyCompletion
<1>7. ReadyMeansMeshed'
  BY <1>1, <1>2, <1>6 DEF Versioned, ReadyMeansMeshed
<1>8. QueueFollowsPriority'
  BY <1>0, <1>1, <1>3, Fields DEF Versioned, QueueFollowsPriority
<1>9. \A q \in Keys : records'[q].edit \in {NoEdit, records'[q].world}
  BY <1>1 DEF Versioned, EditDeltaOfRevision
<1>. QED
  BY <1>4, <1>5, <1>7, <1>8, <1>9 DEF Versioned, EditDeltaOfRevision

LEMMA VersionedNext ==
    Typed /\ Issued /\ OneWork /\ Versioned /\ [Next]_vars => Versioned'
<1> SUFFICES ASSUME Typed, Issued, OneWork, Versioned, [Next]_vars PROVE Versioned'
  OBVIOUS
<1>1. ASSUME NEW k \in Keys, NEW world \in Revisions, NEW priority \in Priorities,
             NEW force \in BOOLEAN, RequestChunkVersion(k, world, priority, force)
      PROVE  Versioned'
  <2>1. RetainedDelta(k, world, force) \in {NoEdit, world}
    BY DEF RetainedDelta, Versioned, EditDeltaOfRevision
  <2>. QED  BY <1>1, <2>1, VersionedRequest DEF RequestChunkVersion
<1>2. ASSUME NEW k \in Keys, NEW world \in Revisions, NEW priority \in Priorities,
             RequestEditedChunkVersion(k, world, priority)
      PROVE  Versioned'
  BY <1>2, VersionedRequest DEF RequestEditedChunkVersion
<1>3. ASSUME NEW admitted \in SUBSET jobs, PopJob(admitted) PROVE Versioned'
  BY <1>3 DEF PopJob, Versioned, ReadyMeansMeshed, QueueFollowsPriority, EditDeltaOfRevision
<1>4. ASSUME NEW j \in workers, AbandonStaleJob(j) PROVE Versioned'
  BY <1>4
     DEF AbandonStaleJob, Versioned, ReadyMeansMeshed, QueueFollowsPriority, EditDeltaOfRevision
<1>5. CASE UNCHANGED vars
  BY <1>5 DEF vars, Versioned, ReadyMeansMeshed, QueueFollowsPriority, EditDeltaOfRevision
<1>. QED
  BY <1>1, <1>2, <1>3, <1>4, <1>5, VersionedRefresh, VersionedCancel, VersionedForget,
     VersionedReprioritize, VersionedReprioritizeBatch, VersionedSubmit, VersionedApply
     DEF Next, Request

\* Late and reordered results never make a chunk Ready for a generation or a world
\* revision no worker meshed.
THEOREM ReadyIsMeshed == SafetySpec => []ReadyMeansMeshed
<1>1. Init => Typed /\ Issued /\ OneWork /\ Versioned
  BY TypedInit, IssuedInit, OneWorkInit, VersionedInit
<1>2. Typed /\ Issued /\ OneWork /\ Versioned /\ [Next]_vars
          => (Typed /\ Issued /\ OneWork /\ Versioned)'
  BY TypedNext, IssuedNext, OneWorkNext, VersionedNext
<1>3. Versioned => ReadyMeansMeshed
  BY DEF Versioned
<1>. QED
  BY <1>1, <1>2, <1>3, PTL DEF SafetySpec

\* The queue and the records agree on priorities, whatever was reprioritised when.
THEOREM QueueFollowsRecords == SafetySpec => []QueueFollowsPriority
<1>1. Init => Typed /\ Issued /\ OneWork /\ Versioned
  BY TypedInit, IssuedInit, OneWorkInit, VersionedInit
<1>2. Typed /\ Issued /\ OneWork /\ Versioned /\ [Next]_vars
          => (Typed /\ Issued /\ OneWork /\ Versioned)'
  BY TypedNext, IssuedNext, OneWorkNext, VersionedNext
<1>3. Versioned => QueueFollowsPriority
  BY DEF Versioned
<1>. QED
  BY <1>1, <1>2, <1>3, PTL DEF SafetySpec

\* No record and no job made from it ever carries another revision's edit delta.
THEOREM EditsFollowRecords == SafetySpec => []EditDeltaOfRevision
<1>1. Init => Typed /\ Issued /\ OneWork /\ Versioned
  BY TypedInit, IssuedInit, OneWorkInit, VersionedInit
<1>2. Typed /\ Issued /\ OneWork /\ Versioned /\ [Next]_vars
          => (Typed /\ Issued /\ OneWork /\ Versioned)'
  BY TypedNext, IssuedNext, OneWorkNext, VersionedNext
<1>3. Versioned => EditDeltaOfRevision
  BY DEF Versioned
<1>. QED
  BY <1>1, <1>2, <1>3, PTL DEF SafetySpec

-----------------------------------------------------------------------------
(* The scheduler implements ChunkVersions: its initial state is an initial *)
(* state of ChunkVersions and each of its steps opens, reopens, settles or *)
(* forgets one version, spends a version number, or changes nothing its    *)
(* callers rely on.                                                        *)

\* The status ChunkVersions sees of a lifecycle.
StatusOf(lifecycle) ==
    IF lifecycle \in {"Sampling", "Meshing"} THEN "Pending" ELSE lifecycle

\* Chunk q keeps its version and the status of it.
Keeps(q) ==
    /\ records'[q].generation = records[q].generation
    /\ StatusOf(records'[q].lifecycle) = StatusOf(records[q].lifecycle)

\* A step that keeps every version is a stutter.
LEMMA KeptVersions ==
    ASSUME generationCounter' = generationCounter, \A q \in Keys : Keeps(q)
    PROVE  UNCHANGED Versions!vars
BY DEF Keeps, StatusOf, Versions!vars

\* A step that gives chunk k the next number under status s opens that version.
LEMMA OpenedVersion ==
    ASSUME NEW k \in Keys, NEW s,
           generationCounter' = generationCounter + 1,
           records'[k].generation = generationCounter + 1,
           StatusOf(records'[k].lifecycle) = s,
           \A q \in Keys \ {k} : Keeps(q)
    PROVE  Versions!Open(k, s)
<1>1. [q \in Keys |-> records'[q].generation]
        = [[q \in Keys |-> records[q].generation] EXCEPT ![k] = generationCounter + 1]
  BY DEF Keeps
<1>2. [q \in Keys |-> StatusOf(records'[q].lifecycle)]
        = [[q \in Keys |-> StatusOf(records[q].lifecycle)] EXCEPT ![k] = s]
  BY DEF Keeps
<1>. QED
  BY <1>1, <1>2 DEF Versions!Open, StatusOf

\* A step that changes the status of chunk k alone and no number.
LEMMA ChangedStatus ==
    ASSUME NEW k \in Keys, NEW s,
           generationCounter' = generationCounter,
           records'[k].generation = records[k].generation,
           StatusOf(records'[k].lifecycle) = s,
           \A q \in Keys \ {k} : Keeps(q),
           \/ StatusOf(records[k].lifecycle) = "Ready" /\ s = "Pending"
           \/ StatusOf(records[k].lifecycle) = "Pending" /\ s \in {"Ready", "Failed"}
    PROVE  Versions!Reopen(k) \/ Versions!Settle(k)
<1>1. UNCHANGED <<generationCounter, [q \in Keys |-> records[q].generation]>>
  BY DEF Keeps
<1>2. [q \in Keys |-> StatusOf(records'[q].lifecycle)]
        = [[q \in Keys |-> StatusOf(records[q].lifecycle)] EXCEPT ![k] = s]
  BY DEF Keeps
<1>. QED
  BY <1>1, <1>2 DEF Versions!Reopen, Versions!Settle, StatusOf

-----------------------------------------------------------------------------
LEMMA InitRefines == Init => Versions!Init
BY DEF Init, NoRecord, Versions!Init

\* A request opens a pending version; a full queue only spends its number.
LEMMA RequestRefines ==
    ASSUME Typed, NEW k \in Keys, NEW world, NEW priority, NEW force, NEW edit,
           RequestInternal(k, world, priority, force, edit)
    PROVE  Versions!Request(k) \/ Versions!Spend
<1> DEFINE r == [lifecycle |-> "Sampling", generation |-> generationCounter + 1,
                 world |-> world, priority |-> priority, edit |-> edit]
<1>1. CASE records' = [records EXCEPT ![k] = r]
  <2>1. /\ records'[k].generation = generationCounter + 1
        /\ StatusOf(records'[k].lifecycle) = "Pending"
        /\ \A q \in Keys \ {k} : Keeps(q)
    BY <1>1 DEF Typed, TypeOK, StatusOf, Keeps
  <2>2. generationCounter' = generationCounter + 1
    BY DEF RequestInternal
  <2>. QED  BY <2>1, <2>2, OpenedVersion DEF Versions!Request
<1>2. CASE UNCHANGED records
  BY <1>2 DEF RequestInternal, Versions!Spend
<1>. QED
  BY <1>1, <1>2 DEF RequestInternal

\* A refresh reopens a Ready version, or finds the queue full.
LEMMA RefreshRefines ==
    ASSUME Typed, NEW k \in Keys, NEW priority, RequestSameGenerationRefresh(k, priority)
    PROVE  Versions!Reopen(k) \/ Versions!Settle(k) \/ UNCHANGED Versions!vars
<1>1. CASE records' = [records EXCEPT ![k] =
                         [records[k] EXCEPT !.priority = priority, !.lifecycle = "Sampling"]]
  <2>1. /\ records'[k].generation = records[k].generation
        /\ StatusOf(records'[k].lifecycle) = "Pending"
        /\ \A q \in Keys \ {k} : Keeps(q)
    BY <1>1 DEF Typed, TypeOK, ChunkRecord, StatusOf, Keeps
  <2>2. generationCounter' = generationCounter /\ StatusOf(records[k].lifecycle) = "Ready"
    BY DEF RequestSameGenerationRefresh, StatusOf
  <2>. QED  BY <2>1, <2>2, ChangedStatus
<1>2. CASE UNCHANGED records
  BY <1>2 DEF RequestSameGenerationRefresh, Versions!vars
<1>. QED
  BY <1>1, <1>2 DEF RequestSameGenerationRefresh

LEMMA CancelRefines ==
    ASSUME Typed, NEW k \in Keys, CancelChunk(k)
    PROVE  Versions!Cancel(k)
<1>1. /\ records'[k].generation = generationCounter + 1
      /\ StatusOf(records'[k].lifecycle) = "Cancelled"
      /\ \A q \in Keys \ {k} : Keeps(q)
      /\ generationCounter' = generationCounter + 1
  BY DEF CancelChunk, Typed, TypeOK, ChunkRecord, StatusOf, Keeps
<1>2. Versions!Open(k, "Cancelled")
  BY <1>1, OpenedVersion
<1>3. StatusOf(records[k].lifecycle) # "Absent"
  BY DEF CancelChunk, Present, StatusOf
<1>. QED
  BY <1>2, <1>3 DEF Versions!Cancel, StatusOf

LEMMA ForgetRefines ==
    ASSUME Typed, NEW k \in Keys, ForgetChunk(k)
    PROVE  Versions!Forget(k)
<1>0. NoRecord.generation = 0 /\ StatusOf(NoRecord.lifecycle) = "Absent"
  BY DEF NoRecord, StatusOf
<1>1. /\ records'[k].generation = 0 /\ StatusOf(records'[k].lifecycle) = "Absent"
      /\ \A q \in Keys \ {k} : Keeps(q)
      /\ generationCounter' = generationCounter
  BY <1>0 DEF ForgetChunk, Typed, TypeOK, Keeps
<1>2. [q \in Keys |-> records'[q].generation]
        = [[q \in Keys |-> records[q].generation] EXCEPT ![k] = 0]
  BY <1>1 DEF Keeps
<1>3. [q \in Keys |-> StatusOf(records'[q].lifecycle)]
        = [[q \in Keys |-> StatusOf(records[q].lifecycle)] EXCEPT ![k] = "Absent"]
  BY <1>1 DEF Keeps
<1>4. StatusOf(records[k].lifecycle) # "Absent"
  BY DEF ForgetChunk, Present, StatusOf
<1>. QED
  BY <1>1, <1>2, <1>3, <1>4 DEF Versions!Forget, StatusOf

\* Priorities are not part of a version.
LEMMA ReprioritizeRefines ==
    ASSUME Typed,
           \/ \E k \in Keys, priority \in Priorities : ReprioritizeChunk(k, priority)
           \/ \E K \in SUBSET Keys : \E update \in [K -> Priorities] : ReprioritizeChunks(update)
    PROVE  UNCHANGED Versions!vars
<1>1. ASSUME NEW k \in Keys, NEW priority \in Priorities, ReprioritizeChunk(k, priority)
      PROVE  UNCHANGED Versions!vars
  <2>1. \A q \in Keys : Keeps(q)
    BY <1>1 DEF ReprioritizeChunk, Typed, TypeOK, ChunkRecord, Keeps, StatusOf
  <2>2. generationCounter' = generationCounter
    BY <1>1 DEF ReprioritizeChunk
  <2>. QED  BY <2>1, <2>2, KeptVersions
<1>2. ASSUME NEW K \in SUBSET Keys, NEW update \in [K -> Priorities], ReprioritizeChunks(update)
      PROVE  UNCHANGED Versions!vars
  <2>1. \A q \in Keys : Keeps(q)
    BY <1>2 DEF ReprioritizeChunks, Typed, TypeOK, ChunkRecord, Keeps, StatusOf
  <2>2. generationCounter' = generationCounter
    BY <1>2 DEF ReprioritizeChunks
  <2>. QED  BY <2>1, <2>2, KeptVersions
<1>. QED  BY <1>1, <1>2

\* A result is applied to the version it was made for, or to none.
LEMMA ApplyRefines ==
    ASSUME Typed, ApplyCompletion
    PROVE  (\E k \in Keys : Versions!Reopen(k) \/ Versions!Settle(k)) \/ UNCHANGED Versions!vars
<1>1. PICK k \in Keys : k = Head(completions).key
  BY Fields, PoppedResult
<1>2. CASE ApplyStaleCompletion
  BY <1>2 DEF ApplyStaleCompletion, Versions!vars
<1>3. ASSUME NEW s \in {"Ready", "Failed"}, records' = [records EXCEPT ![k].lifecycle = s],
             generationCounter' = generationCounter, Expected(Head(completions))
      PROVE  Versions!Reopen(k) \/ Versions!Settle(k)
  <2>1. /\ records'[k].generation = records[k].generation
        /\ StatusOf(records'[k].lifecycle) = s
        /\ \A q \in Keys \ {k} : Keeps(q)
    BY <1>3 DEF Typed, TypeOK, ChunkRecord, StatusOf, Keeps
  <2>2. StatusOf(records[k].lifecycle) = "Pending"
    BY <1>1, <1>3 DEF Expected, AwaitsStage, StatusOf
  <2>. QED  BY <1>3, <2>1, <2>2, ChangedStatus
<1>4. CASE ApplyFailure
  BY <1>1, <1>3, <1>4 DEF ApplyFailure
<1>5. CASE ApplyMesh
  BY <1>1, <1>3, <1>5 DEF ApplyMesh
<1>6. CASE ApplySample
  <2>1. CASE records' = [records EXCEPT ![k].lifecycle = "Failed"]
    BY <1>3, <1>6, <2>1 DEF ApplySample
  <2>2. CASE records' = [records EXCEPT ![k].lifecycle = "Meshing"]
    <3>1. StatusOf(records[k].lifecycle) = "Pending"
      BY <1>1, <1>6 DEF ApplySample, Expected, AwaitsStage, StatusOf
    <3>2. \A q \in Keys : Keeps(q)
      BY <2>2, <3>1 DEF Typed, TypeOK, ChunkRecord, StatusOf, Keeps
    <3>3. generationCounter' = generationCounter
      BY <1>6 DEF ApplySample
    <3>. QED  BY <3>2, <3>3, KeptVersions
  <2>. QED  BY <1>1, <1>6, <2>1, <2>2 DEF ApplySample
<1>. QED
  BY <1>2, <1>4, <1>5, <1>6 DEF ApplyCompletion

LEMMA NextRefines == Typed /\ [Next]_vars => [Versions!Next]_(Versions!vars)
<1> SUFFICES ASSUME Typed, [Next]_vars PROVE [Versions!Next]_(Versions!vars)
  OBVIOUS
<1>1. CASE Request
  BY <1>1, RequestRefines
     DEF Request, RequestChunkVersion, RequestEditedChunkVersion, Versions!Next
<1>2. CASE \E k \in Keys, priority \in Priorities : RequestSameGenerationRefresh(k, priority)
  BY <1>2, RefreshRefines DEF Versions!Next
<1>3. CASE \E k \in Keys : CancelChunk(k)
  BY <1>3, CancelRefines DEF Versions!Next
<1>4. CASE \E k \in Keys : ForgetChunk(k)
  BY <1>4, ForgetRefines DEF Versions!Next
<1>5. CASE \/ \E k \in Keys, priority \in Priorities : ReprioritizeChunk(k, priority)
           \/ \E K \in SUBSET Keys : \E update \in [K -> Priorities] : ReprioritizeChunks(update)
  BY <1>5, ReprioritizeRefines
<1>6. CASE \/ \E admitted \in SUBSET jobs : PopJob(admitted)
           \/ \E j \in workers, success \in BOOLEAN : SubmitCompletion(j, success)
           \/ \E j \in workers : AbandonStaleJob(j)
  BY <1>6 DEF PopJob, SubmitCompletion, AbandonStaleJob, Versions!vars
<1>7. CASE ApplyCompletion
  BY <1>7, ApplyRefines DEF Versions!Next
<1>8. CASE UNCHANGED vars
  BY <1>8 DEF vars, Versions!vars
<1>. QED
  BY <1>1, <1>2, <1>3, <1>4, <1>5, <1>6, <1>7, <1>8 DEF Next

\* Every accepted request opens a version newer than any before it, a version
\* settles once and under its own number, and only a Ready one is reopened:
\* the safety part of ImplementsVersions.
THEOREM RefinesVersions ==
    SafetySpec => Versions!Init /\ [][Versions!Next]_(Versions!vars)
<1>1. Init => Typed
  BY TypedInit
<1>2. Typed /\ [Next]_vars => Typed'
  BY TypedNext
<1>. QED
  BY <1>1, <1>2, InitRefines, NextRefines, PTL DEF SafetySpec

=============================================================================
