--------------------------- MODULE MeshWorkProofs ---------------------------
(***************************************************************************)
(* Theorems about the mesh half of the page-meshing runtime, for every     *)
(* value of its constants: no collision is lost on its way out of the      *)
(* worker pool, and no chunk is drawn from a record that never captured    *)
(* its field.                                                              *)
(*                                                                         *)
(* The invariant follows a generation of one chunk: while its sample is    *)
(* awaited nothing of it is in the pool; while it is meshed one job of it  *)
(* is, and repeats what its record remembers; once it is Ready nothing is  *)
(* left of it, so that a refresh may mesh the same generation again; and   *)
(* what a worker did for it left its mark before the answer came.          *)
(***************************************************************************)
EXTENDS MeshWork, SequenceLemmas, FiniteSetTheorems

Phases == {"None", "AwaitingMesh", "Meshing", "AwaitingGpuCapture", "MeshReady",
           "MeshFailedReady", "Ready"}

Roles == {"visual", "collision"}

Lifecycles == {"Absent", "Sampling", "Meshing", "Ready", "Failed"}

ChunkType == [generation : Nat, lifecycle : Lifecycles, priority : Nat, job : BOOLEAN]

RecordType == [phase : Phases, generation : Nat, roles : SUBSET Roles, field : BOOLEAN,
               deferred : BOOLEAN, mesh : BOOLEAN, delivered : BOOLEAN]

Job == [key : Keys, generation : Nat, priority : Nat, roles : SUBSET Roles,
        capture : {"None", "Reserved", "Deferred"}, prewarm : BOOLEAN, lane : BOOLEAN]

Answer == [job : Job, ok : BOOLEAN, early : BOOLEAN]

Result == [key : Keys, generation : Nat, ok : BOOLEAN]

Places == {"idle", "executing", "executed", "falling", "asleep", "exited"}

WorkerType == [at : Places, job : Job \cup {NoJob}, ok : BOOLEAN, early : BOOLEAN]

\* A worker with a job, and one that has run it.
Occupied(w) == workers[w].at \in {"executing", "executed", "falling", "asleep"}

Ran(w) == workers[w].at \in {"executed", "falling", "asleep"}

TypeOK ==
    /\ chunks \in [Keys -> ChunkType]
    /\ roles \in [Keys -> SUBSET Roles] /\ refresh \in [Keys -> BOOLEAN]
    /\ given \in [Keys -> {"nothing", "captured", "abandoned"}]
    /\ results \in Seq(Result)
    /\ records \in [Keys -> RecordType]
    /\ work \in [background : SUBSET Job, interactive : SUBSET Job]
    /\ workers \in [Workers -> WorkerType]
    /\ \A w \in Workers : Occupied(w) => workers[w].job \in Job
    /\ completed \in Seq(Answer)
    /\ early \in Seq(Keys \X Nat)
    /\ events \in Nat

\* Every job the pool has, and what was run of them.
Jobs == work.background \cup work.interactive
           \cup {workers[w].job : w \in {v \in Workers : Occupied(v)}}
           \cup {completed[i].job : i \in 1..Len(completed)}

AnswerOf(w) == [job |-> workers[w].job, ok |-> workers[w].ok, early |-> workers[w].early]

Answers == {AnswerOf(w) : w \in {v \in Workers : Ran(v)}}
              \cup {completed[i] : i \in 1..Len(completed)}

\* Two jobs, or results, of one generation of one chunk.
SameVersion(i, j) == i.key = j.key /\ i.generation = j.generation

\* The pool has one job of a generation at most, wherever it stands.
PoolDistinct ==
    /\ \A i, j \in Queued : SameVersion(i, j) => i = j
    /\ \A i \in work.background, j \in work.interactive : ~SameVersion(i, j)
    /\ \A v, w \in Workers :
          (Occupied(v) /\ Occupied(w) /\ SameVersion(workers[v].job, workers[w].job)) => v = w
    /\ \A m, n \in 1..Len(completed) :
          SameVersion(completed[m].job, completed[n].job) => m = n
    /\ \A i \in Queued, w \in Workers : Occupied(w) => ~SameVersion(i, workers[w].job)
    /\ \A i \in Queued, n \in 1..Len(completed) : ~SameVersion(i, completed[n].job)
    /\ \A w \in Workers, n \in 1..Len(completed) :
          Occupied(w) => ~SameVersion(workers[w].job, completed[n].job)

\* The scheduler's completion queue has one result of it at most.
ResultsDistinct ==
    \A m, n \in 1..Len(results) : SameVersion(results[m], results[n]) => m = n

-----------------------------------------------------------------------------
(* What holds of chunk k while its page-meshing record is r and the        *)
(* scheduler's completion queue holds the results R.                       *)

\* Generations are never drawn twice.
IssuedFits(k, r) == chunks[k].generation <= events /\ r.generation <= events

\* A chunk is demanded.  A record of its generation follows its sample, the
\* scheduler's mesh job waits for exactly that record, and a Ready chunk has it.
ChunkFits(k, r) ==
    /\ (chunks[k].lifecycle = "Absent") <=> (chunks[k].generation = 0)
    /\ chunks[k].lifecycle # "Absent" => roles[k] # {}
    /\ (r.phase = "None") <=> (r.generation = 0)
    /\ (r.phase # "None" /\ r.generation = chunks[k].generation)
          => chunks[k].lifecycle \in {"Meshing", "Ready"}
    /\ chunks[k].job => /\ chunks[k].lifecycle = "Meshing" /\ r.phase = "AwaitingMesh"
                        /\ r.generation = chunks[k].generation
    /\ chunks[k].lifecycle = "Ready" => /\ r.phase = "Ready"
                                        /\ r.generation = chunks[k].generation

\* A job of the pool was dispatched after the sample, with the roles and the
\* field its record remembers; the record waits for its answer.
JobFits(k, r, j) ==
    /\ j.generation \in 1..events
    /\ j.generation = chunks[k].generation =>
          chunks[k].lifecycle # "Sampling" /\ ~chunks[k].job
    /\ j.generation = r.generation =>
          /\ r.phase = "Meshing" /\ j.roles = r.roles
          /\ (j.capture # "None") <=> r.field

\* A result answers a generation that is still Meshing for the scheduler: a
\* good one has its record, Ready; a failed one has no record left.
ResultFits(k, r, result) ==
    /\ result.generation \in 1..events
    /\ result.generation = chunks[k].generation =>
          /\ chunks[k].lifecycle = "Meshing" /\ ~chunks[k].job
          /\ result.ok => r.generation = result.generation
    /\ result.generation = r.generation => result.ok /\ r.phase = "Ready"

\* What ran for a generation has left its mark.
AnswerFits(k, r, a) ==
    /\ (a.job.generation = chunks[k].generation /\ a.ok /\ a.job.capture = "Reserved")
          => given[k] = "captured"
    /\ (a.job.generation = r.generation /\ a.early)
          => (r.delivered \/ <<k, r.generation>> \in ToSet(early))

\* A record whose viewers want it drawn has a field, unless an earlier mesh of
\* the generation had one, and its capture is not lost; nor is its collision.
RecordFits(k, r) ==
    /\ (/\ r.generation = chunks[k].generation /\ "visual" \in roles[k]
        /\ r.phase \in {"Meshing", "AwaitingGpuCapture", "MeshReady", "Ready"})
       => (r.field \/ given[k] # "nothing")
    /\ (/\ r.generation = chunks[k].generation /\ r.field
        /\ r.phase \in {"AwaitingGpuCapture", "MeshReady", "Ready"})
       => (r.deferred \/ given[k] # "nothing")
    /\ (r.phase \in {"AwaitingGpuCapture", "MeshReady", "Ready"} /\ "collision" \in r.roles)
       => (r.delivered \/ <<k, r.generation>> \in ToSet(early))

\* A refresh, begun or put off, follows a mesh that had a field, or one that fails.
RefreshFits(k, r) ==
    refresh[k] =>
        \/ given[k] # "nothing"
        \/ r.generation = chunks[k].generation /\ r.phase = "Ready" /\ r.deferred
        \/ /\ chunks[k].lifecycle \in {"Meshing", "Failed"}
           /\ r.generation = chunks[k].generation => r.phase = "MeshFailedReady"

Fits(k, r, R) ==
    /\ IssuedFits(k, r) /\ ChunkFits(k, r) /\ RecordFits(k, r) /\ RefreshFits(k, r)
    /\ \A j \in Jobs : j.key = k => JobFits(k, r, j)
    /\ \A a \in Answers : a.job.key = k => AnswerFits(k, r, a)
    /\ \A result \in R : result.key = k => ResultFits(k, r, result)

KeyInv(k) == Fits(k, records[k], ToSet(results))

Fit == TypeOK /\ \A k \in Keys : KeyInv(k)

IInv == Fit /\ PoolDistinct /\ ResultsDistinct

-----------------------------------------------------------------------------
LEMMA JobTypes ==
    ASSUME TypeOK
    PROVE  /\ Jobs \subseteq Job /\ Answers \subseteq Answer
           /\ \A a \in Answers : a.job \in Jobs
           /\ ToSet(results) \subseteq Result /\ ToSet(early) \subseteq Keys \X Nat
<1>1. \A i \in 1..Len(completed) : completed[i] \in Answer
  BY DEF TypeOK
<1>2. \A w \in Workers : Ran(w) =>
          /\ Occupied(w) /\ AnswerOf(w) \in Answer /\ AnswerOf(w).job = workers[w].job
  BY DEF TypeOK, Ran, Occupied, AnswerOf, Answer, WorkerType
<1>3. Jobs \subseteq Job
  BY <1>1 DEF Jobs, TypeOK, Answer
<1>4. Answers \subseteq Answer
  BY <1>1, <1>2 DEF Answers
<1>5. \A a \in Answers : a.job \in Jobs
  BY <1>2 DEF Answers, Jobs
<1>6. ToSet(results) \subseteq Result /\ ToSet(early) \subseteq Keys \X Nat
  BY ToSetElements DEF TypeOK
<1>. QED  BY <1>3, <1>4, <1>5, <1>6

\* The same work, whatever its priority became.
SameWork(j, i) ==
    j.key = i.key /\ j.generation = i.generation /\ j.roles = i.roles /\ j.capture = i.capture

\* Chunk q has no new job, answer or result, and no collision left early was lost.
NothingNew(q) ==
    /\ \A j \in Jobs' : j.key = q => \E i \in Jobs : SameWork(j, i)
    /\ \A a \in Answers' : a.job.key = q => a \in Answers
    /\ \A result \in ToSet(results') : result.key = q => result \in ToSet(results)
    /\ \A g : <<q, g>> \in ToSet(early) => <<q, g>> \in ToSet(early')
    /\ events' >= events

\* A chunk that only its viewers or its priority changed.
LEMMA KeepsKey ==
    ASSUME IInv, TypeOK', NEW q \in Keys, NothingNew(q),
           records'[q] = records[q], given'[q] = given[q], refresh'[q] => refresh[q],
           roles'[q] \subseteq roles[q], roles'[q] = {} => roles[q] = {},
           chunks'[q].generation = chunks[q].generation,
           chunks'[q].lifecycle = chunks[q].lifecycle, chunks'[q].job = chunks[q].job
    PROVE  KeyInv(q)'
<1>0. PICK r \in RecordType : r = records[q]
  BY DEF IInv, Fit, TypeOK
<1>1. /\ Fits(q, r, ToSet(results)) /\ events \in Nat /\ events' \in Nat
      /\ chunks[q] \in ChunkType
  BY <1>0 DEF IInv, Fit, TypeOK, KeyInv
<1>2. r = records'[q]
  BY <1>0
<1>3. IssuedFits(q, r)' /\ ChunkFits(q, r)'
  BY <1>1 DEF Fits, IssuedFits, ChunkFits, NothingNew, RecordType, ChunkType
<1>4. RecordFits(q, r)' /\ RefreshFits(q, r)'
  BY <1>1 DEF Fits, RecordFits, RefreshFits, NothingNew
<1>5. \A j \in Jobs' : j.key = q => JobFits(q, r, j)'
  <2>1. SUFFICES ASSUME NEW j \in Jobs', j.key = q PROVE JobFits(q, r, j)'
    OBVIOUS
  <2>2. PICK i \in Jobs : SameWork(j, i)
    BY <2>1 DEF NothingNew
  <2>3. JobFits(q, r, i)
    BY <1>1, <2>1, <2>2 DEF Fits, SameWork
  <2>. QED  BY <1>1, <2>2, <2>3 DEF JobFits, SameWork, NothingNew
<1>6. \A a \in Answers' : a.job.key = q => AnswerFits(q, r, a)'
  BY <1>1 DEF Fits, AnswerFits, NothingNew
<1>7. \A result \in ToSet(results') : result.key = q => ResultFits(q, r, result)'
  BY <1>1 DEF Fits, ResultFits, NothingNew
<1>. QED
  BY <1>2, <1>3, <1>4, <1>5, <1>6, <1>7 DEF KeyInv, Fits

\* A chunk that is requested again: its new generation is unknown to the pool.
LEMMA RequestedKey ==
    ASSUME IInv, TypeOK', NEW k \in Keys, NothingNew(k), events' = events + 1,
           records'[k] \in {records[k], NoRecord},
           chunks'[k].generation = events + 1, chunks'[k].lifecycle = "Sampling",
           chunks'[k].job = FALSE, roles'[k] # {}, refresh'[k] = FALSE
    PROVE  KeyInv(k)'
<1>0. PICK r \in RecordType, s \in RecordType : r = records[k] /\ s = records'[k]
  BY DEF IInv, Fit, TypeOK
<1>1. Fits(k, r, ToSet(results)) /\ events \in Nat
  BY <1>0 DEF IInv, Fit, TypeOK, KeyInv
<1>2. /\ s = r \/ (s.generation = 0 /\ s.phase = "None")
      /\ s.generation \in Nat /\ s.generation <= events
      /\ (s.phase = "None") <=> (s.generation = 0)
  <2>1. NoRecord.generation = 0 /\ NoRecord.phase = "None"
    BY DEF NoRecord
  <2>. QED  BY <1>0, <1>1, <2>1 DEF Fits, IssuedFits, ChunkFits, RecordType
<1>3. s = records'[k]
  BY <1>0
<1>4. IssuedFits(k, s)' /\ ChunkFits(k, s)'
  BY <1>1, <1>2 DEF IssuedFits, ChunkFits
<1>5. RecordFits(k, s)' /\ RefreshFits(k, s)'
  BY <1>1, <1>2 DEF Fits, RecordFits, RefreshFits, NothingNew
<1>6. ASSUME NEW j \in Jobs', j.key = k PROVE JobFits(k, s, j)'
  <2>2. PICK i \in Jobs : SameWork(j, i)
    BY <1>6 DEF NothingNew
  <2>3. JobFits(k, r, i)
    BY <1>1, <1>6, <2>2 DEF Fits, SameWork
  <2>. QED  BY <1>1, <1>2, <2>2, <2>3 DEF JobFits, SameWork
<1>7. ASSUME NEW a \in Answers', a.job.key = k PROVE AnswerFits(k, s, a)'
  <2>1. a \in Answers /\ AnswerFits(k, r, a)
    BY <1>1, <1>7 DEF Fits, NothingNew
  <2>2. a.job.generation \in 1..events
    BY <1>1, <1>7, <2>1, JobTypes DEF IInv, Fit, Fits, JobFits
  <2>. QED  BY <1>1, <1>2, <2>1, <2>2 DEF AnswerFits, NothingNew
<1>8. ASSUME NEW result \in ToSet(results'), result.key = k PROVE ResultFits(k, s, result)'
  <2>1. ResultFits(k, r, result)
    BY <1>1, <1>8 DEF Fits, NothingNew
  <2>. QED  BY <1>1, <1>2, <2>1 DEF ResultFits
<1>. QED
  BY <1>3, <1>4, <1>5, <1>6, <1>7, <1>8 DEF KeyInv, Fits

\* What submit_pending_result does to a record r that was put in chunk k's place.
LEMMA SubmitEffect ==
    ASSUME TypeOK, NEW k \in Keys, NEW r \in RecordType, Submit(r, k),
           r.phase \in {"MeshReady", "MeshFailedReady"}
    PROVE  /\ results' \in Seq(Result) /\ records' \in [Keys -> RecordType]
           /\ \A q \in Keys \ {k} : records'[q] = records[q]
           /\ \/ records'[k] = r /\ ToSet(results') = ToSet(results)
              \/ /\ r.phase = "MeshReady" /\ records'[k] = [r EXCEPT !.phase = "Ready"]
                 /\ ToSet(results') = ToSet(results) \cup
                       {[key |-> k, generation |-> r.generation, ok |-> TRUE]}
              \/ /\ r.phase = "MeshFailedReady" /\ records'[k] = NoRecord
                 /\ ToSet(results') = ToSet(results) \cup
                       {[key |-> k, generation |-> r.generation, ok |-> FALSE]}
<1> DEFINE s == Submitted(r, k).record
           e == [key |-> k, generation |-> r.generation, ok |-> r.phase = "MeshReady"]
<1>1. records' = [records EXCEPT ![k] = s] /\ results' = Submitted(r, k).results
  BY DEF Submit
<1>2. NoRecord \in RecordType /\ [r EXCEPT !.phase = "Ready"] \in RecordType
  BY DEF NoRecord, RecordType, Phases, Roles
<1>3. e \in Result
  BY DEF Result, RecordType
<1>4. \/ s = r /\ results' = results
      \/ /\ r.phase = "MeshReady" /\ s = [r EXCEPT !.phase = "Ready"]
         /\ results' = Append(results, e)
      \/ r.phase = "MeshFailedReady" /\ s = NoRecord /\ results' = Append(results, e)
  BY <1>1 DEF Submitted
<1>5. s \in RecordType
  BY <1>2, <1>4
<1>. HIDE DEF s
<1>6. results' \in Seq(Result)
  <2>1. results \in Seq(Result)
    BY DEF TypeOK
  <2>2. Append(results, e) \in Seq(Result)
    BY <1>3, <2>1, AppendElements
  <2>. QED  BY <1>4, <2>1, <2>2
<1>7. ToSet(Append(results, e)) = ToSet(results) \cup {e}
  BY <1>3, ToSetChanges DEF TypeOK
<1>8. /\ records' \in [Keys -> RecordType] /\ records'[k] = s
      /\ \A q \in Keys \ {k} : records'[q] = records[q]
  BY <1>1, <1>5 DEF TypeOK
<1>. QED  BY <1>4, <1>6, <1>7, <1>8

\* A record that waits to answer fits also after it has answered.
LEMMA SubmittedKey ==
    ASSUME TypeOK, TypeOK', NEW k \in Keys, NEW r \in RecordType,
           Submit(r, k), r.phase \in {"MeshReady", "MeshFailedReady"},
           NEW R, R = ToSet(results), Fits(k, r, R)'
    PROVE  KeyInv(k)'
<1>0. PICK s \in RecordType : s = records'[k]
  BY DEF TypeOK
<1>00. PICK T : T = ToSet(results')
  OBVIOUS
<1>1. \/ s = r /\ T = R
      \/ /\ r.phase = "MeshReady" /\ s = [r EXCEPT !.phase = "Ready"]
         /\ T = R \cup {[key |-> k, generation |-> r.generation, ok |-> TRUE]}
      \/ /\ r.phase = "MeshFailedReady" /\ s = NoRecord
         /\ T = R \cup {[key |-> k, generation |-> r.generation, ok |-> FALSE]}
  BY <1>0, <1>00, SubmitEffect
<1>2. r.generation \in 1..events' /\ events' \in Nat
  BY DEF Fits, IssuedFits, ChunkFits, RecordType, TypeOK
<1>3. /\ (r.generation = chunks'[k].generation) =>
             chunks'[k].lifecycle = "Meshing" /\ ~chunks'[k].job
      /\ chunks'[k].lifecycle # "Ready"
      /\ chunks'[k].lifecycle # "Absent" => chunks'[k].generation # 0
  BY DEF Fits, ChunkFits
<1>4. CASE s = r /\ T = R
  BY <1>0, <1>00, <1>4 DEF KeyInv
<1>5. CASE /\ r.phase = "MeshReady" /\ s = [r EXCEPT !.phase = "Ready"]
           /\ T = R \cup {[key |-> k, generation |-> r.generation, ok |-> TRUE]}
  <2>1. /\ s.phase = "Ready" /\ s.generation = r.generation /\ s.roles = r.roles
        /\ s.field = r.field /\ s.deferred = r.deferred /\ s.delivered = r.delivered
    BY <1>5 DEF RecordType
  <2>2. IssuedFits(k, s)' /\ ChunkFits(k, s)'
    BY <1>3, <1>5, <2>1 DEF Fits, IssuedFits, ChunkFits
  <2>3. RecordFits(k, s)' /\ RefreshFits(k, s)'
    BY <1>5, <2>1 DEF Fits, RecordFits, RefreshFits
  <2>4. \A j \in Jobs' : j.key = k => JobFits(k, s, j)'
    BY <2>1 DEF Fits, JobFits
  <2>5. \A a \in Answers' : a.job.key = k => AnswerFits(k, s, a)'
    BY <2>1 DEF Fits, AnswerFits
  <2>6. \A result \in R : result.key = k => ResultFits(k, s, result)'
    BY <2>1 DEF Fits, ResultFits
  <2>7. ResultFits(k, s, [key |-> k, generation |-> r.generation, ok |-> TRUE])'
    BY <1>2, <1>3, <2>1 DEF ResultFits
  <2>8. Fits(k, s, T)'
    BY <1>5, <2>2, <2>3, <2>4, <2>5, <2>6, <2>7 DEF Fits
  <2>. QED  BY <1>0, <1>00, <2>8 DEF KeyInv
<1>6. CASE /\ r.phase = "MeshFailedReady" /\ s = NoRecord
           /\ T = R \cup {[key |-> k, generation |-> r.generation, ok |-> FALSE]}
  <2>1. s.phase = "None" /\ s.generation = 0
    BY <1>6 DEF NoRecord
  <2>2. IssuedFits(k, s)' /\ ChunkFits(k, s)'
    BY <1>2, <1>6, <2>1 DEF Fits, IssuedFits, ChunkFits
  <2>3. RecordFits(k, s)' /\ RefreshFits(k, s)'
    BY <1>2, <1>3, <1>6, <2>1 DEF Fits, RecordFits, RefreshFits
  <2>4. \A j \in Jobs' : j.key = k => JobFits(k, s, j)'
    BY <2>1, <1>2 DEF Fits, JobFits
  <2>5. \A a \in Answers' : a.job.key = k => AnswerFits(k, s, a)'
    <3>1. \A a \in Answers' : a.job \in Jobs'
      BY DEF Answers, Jobs, AnswerOf, Ran, Occupied
    <3>. QED  BY <1>2, <2>1, <3>1 DEF Fits, AnswerFits, JobFits
  <2>6. \A result \in R : result.key = k => ResultFits(k, s, result)'
    BY <1>2, <2>1 DEF Fits, ResultFits
  <2>7. ResultFits(k, s, [key |-> k, generation |-> r.generation, ok |-> FALSE])'
    BY <1>2, <1>3, <2>1 DEF ResultFits
  <2>8. Fits(k, s, T)'
    BY <1>6, <2>2, <2>3, <2>4, <2>5, <2>6, <2>7 DEF Fits
  <2>. QED  BY <1>0, <1>00, <2>8 DEF KeyInv
<1>. QED  BY <1>1, <1>4, <1>5, <1>6

-----------------------------------------------------------------------------
(* What the steps leave of the pool.                                       *)

LEMMA FewerJobs ==
    ASSUME Jobs' \subseteq Jobs, Answers' \subseteq Answers,
           ToSet(results') \subseteq ToSet(results), ToSet(early) \subseteq ToSet(early'),
           events' >= events
    PROVE  \A q \in Keys : NothingNew(q)
BY DEF NothingNew, SameWork

\* A release takes the queued jobs of the released record.
LEMMA ReleasedJobs ==
    ASSUME TypeOK, NEW k \in Keys, work' = Cancelled(k), UNCHANGED <<workers, completed>>
    PROVE  /\ work' \in [background : SUBSET Job, interactive : SUBSET Job]
           /\ Jobs' \subseteq Jobs /\ Answers' = Answers
<1>1. work' = [background |-> {j \in work.background :
                                  Version(j) # <<k, records[k].generation>>},
               interactive |-> {j \in work.interactive :
                                  Version(j) # <<k, records[k].generation>>}]
  BY DEF Cancelled
<1>2. work'.background \subseteq work.background /\ work'.interactive \subseteq work.interactive
  BY <1>1
<1>. QED
  BY <1>1, <1>2 DEF TypeOK, Jobs, Answers, Occupied, Ran, AnswerOf

LEMMA ReleasedRecords ==
    ASSUME TypeOK, NEW k \in Keys, records' = [records EXCEPT ![k] = NoRecord]
    PROVE  /\ records' \in [Keys -> RecordType] /\ records'[k] = NoRecord
           /\ \A q \in Keys \ {k} : records'[q] = records[q]
BY DEF TypeOK, NoRecord, RecordType, Phases, Roles

-----------------------------------------------------------------------------
(* The demand events.                                                      *)

\* A new generation of chunk k, with or without the release of its record.
LEMMA RequestedFit ==
    ASSUME IInv, NEW k \in Keys, NEW demand \in (SUBSET Roles) \ {{}}, NEW priority \in Nat,
           Event, Requested(k, demand, priority),
           Release(k) \/ UNCHANGED <<records, work>>,
           UNCHANGED <<results, workers, completed, early>>
    PROVE  Fit'
<1>1. events' = events + 1 /\ events \in Nat
  BY DEF Event, IInv, Fit, TypeOK
<1>2. /\ chunks' \in [Keys -> ChunkType] /\ roles' \in [Keys -> SUBSET Roles]
      /\ chunks'[k].generation = events + 1 /\ chunks'[k].lifecycle = "Sampling"
      /\ chunks'[k].job = FALSE /\ roles'[k] # {}
      /\ refresh' \in [Keys -> BOOLEAN] /\ refresh'[k] = FALSE
      /\ given' \in [Keys -> {"nothing", "captured", "abandoned"}] /\ given'[k] = "nothing"
      /\ \A q \in Keys \ {k} : /\ chunks'[q] = chunks[q] /\ roles'[q] = roles[q]
                               /\ refresh'[q] = refresh[q] /\ given'[q] = given[q]
  BY <1>1 DEF Requested, IInv, Fit, TypeOK, ChunkType, Lifecycles
<1>3. /\ work' \in [background : SUBSET Job, interactive : SUBSET Job]
      /\ Jobs' \subseteq Jobs /\ Answers' = Answers
      /\ records' \in [Keys -> RecordType] /\ records'[k] \in {records[k], NoRecord}
      /\ \A q \in Keys \ {k} : records'[q] = records[q]
  <2>1. CASE Release(k)
    BY <2>1, ReleasedJobs, ReleasedRecords DEF Release, IInv, Fit
  <2>2. CASE UNCHANGED <<records, work>>
    BY <2>2 DEF IInv, Fit, TypeOK, Jobs, Answers, Occupied, Ran, AnswerOf
  <2>. QED  BY <2>1, <2>2
<1>4. TypeOK'
  BY <1>1, <1>2, <1>3 DEF IInv, Fit, TypeOK, Occupied
<1>5. \A q \in Keys : NothingNew(q)
  BY <1>1, <1>3, FewerJobs
<1>6. KeyInv(k)'
  BY <1>1, <1>2, <1>3, <1>4, <1>5, RequestedKey
<1>7. \A q \in Keys \ {k} : KeyInv(q)'
  BY <1>2, <1>3, <1>4, <1>5, KeepsKey
<1>. QED  BY <1>4, <1>6, <1>7 DEF Fit

LEMMA RequestFit ==
    ASSUME IInv, NEW k \in Keys, NEW d \in Demands, NEW release \in BOOLEAN,
           RequestChunk(k, d[1], d[2], release)
    PROVE  Fit'
<1>1. d[1] \in (SUBSET Roles) \ {{}} /\ d[2] \in Nat
  BY MeshAssumption DEF Roles
<1>. QED  BY <1>1, RequestedFit DEF RequestChunk

\* A Ready chunk is sampled again under its generation, of which nothing is left.
LEMMA RefreshedFit ==
    ASSUME IInv, NEW k \in Keys, Event, Refreshed(k), chunks[k].lifecycle = "Ready",
           given[k] # "nothing" \/ records[k].deferred,
           roles' \in [Keys -> SUBSET Roles], roles'[k] # {},
           \A q \in Keys \ {k} : roles'[q] = roles[q],
           UNCHANGED <<results, workers, completed, early>>
    PROVE  Fit'
<1>1. /\ events' = events + 1 /\ events \in Nat
      /\ records' = [records EXCEPT ![k] = NoRecord] /\ work' = Cancelled(k)
  BY DEF Event, Refreshed, Release, IInv, Fit, TypeOK
<1>2. /\ work' \in [background : SUBSET Job, interactive : SUBSET Job]
      /\ Jobs' \subseteq Jobs /\ Answers' = Answers
  BY <1>1, ReleasedJobs DEF IInv, Fit
<1>3. /\ records' \in [Keys -> RecordType] /\ records'[k] = NoRecord
      /\ \A q \in Keys \ {k} : records'[q] = records[q]
  BY <1>1, ReleasedRecords DEF IInv, Fit
<1>4. /\ chunks' \in [Keys -> ChunkType]
      /\ chunks'[k].generation = chunks[k].generation
      /\ chunks'[k].lifecycle = "Sampling" /\ chunks'[k].job = chunks[k].job
      /\ \A q \in Keys \ {k} : chunks'[q] = chunks[q]
  BY DEF Refreshed, IInv, Fit, TypeOK, ChunkType, Lifecycles
<1>5. /\ refresh' \in [Keys -> BOOLEAN]
      /\ \A q \in Keys \ {k} : refresh'[q] = refresh[q]
  BY DEF Refreshed, IInv, Fit, TypeOK
<1>6. /\ given' \in [Keys -> {"nothing", "captured", "abandoned"}] /\ given'[k] # "nothing"
      /\ \A q \in Keys \ {k} : given'[q] = given[q]
  BY DEF Refreshed, IInv, Fit, TypeOK
<1>7. TypeOK'
  BY <1>1, <1>2, <1>3, <1>4, <1>5, <1>6 DEF IInv, Fit, TypeOK, Occupied
<1>8. \A q \in Keys : NothingNew(q)
  BY <1>1, <1>2, FewerJobs
<1>9. \A q \in Keys \ {k} : KeyInv(q)'
  BY <1>3, <1>4, <1>5, <1>6, <1>7, <1>8, KeepsKey
<1>10. KeyInv(k)'
  <2>0. PICK r \in RecordType : r = records[k]
    BY DEF IInv, Fit, TypeOK
  <2>1. Fits(k, r, ToSet(results))
    BY <2>0 DEF IInv, Fit, KeyInv
  <2>2. /\ r.phase = "Ready" /\ r.generation = chunks[k].generation /\ ~chunks[k].job
        /\ chunks[k].generation # 0 /\ chunks[k].generation <= events
        /\ chunks[k].generation \in Nat
    BY <2>1 DEF Fits, IssuedFits, ChunkFits, IInv, Fit, TypeOK, ChunkType
  <2>3. NoRecord.generation = 0 /\ NoRecord.phase = "None"
    BY DEF NoRecord
  <2>4. /\ IssuedFits(k, NoRecord)' /\ ChunkFits(k, NoRecord)'
        /\ RecordFits(k, NoRecord)' /\ RefreshFits(k, NoRecord)'
    BY <1>1, <1>4, <1>6, <2>2, <2>3 DEF IssuedFits, ChunkFits, RecordFits, RefreshFits
  <2>5. \A j \in Jobs : j.key = k => /\ j.generation # chunks[k].generation
                                     /\ j.generation \in 1..events
    BY <2>1, <2>2 DEF Fits, JobFits
  <2>6. \A j \in Jobs' : j.key = k => JobFits(k, NoRecord, j)'
    BY <1>1, <1>2, <1>4, <2>3, <2>5 DEF JobFits
  <2>7. \A a \in Answers' : a.job.key = k => AnswerFits(k, NoRecord, a)'
    BY <1>2, <1>4, <2>3, <2>5, JobTypes DEF IInv, Fit, AnswerFits
  <2>8. \A result \in ToSet(results') : result.key = k => ResultFits(k, NoRecord, result)'
    BY <1>1, <1>4, <2>1, <2>2, <2>3 DEF Fits, ResultFits
  <2>. QED  BY <1>3, <2>4, <2>6, <2>7, <2>8 DEF KeyInv, Fits
<1>. QED  BY <1>7, <1>9, <1>10 DEF Fit

\* The viewers ask for another role of a generation that goes on: one that is
\* to be drawn accepts it and has a field; one that owes a collision it does
\* not accept is flagged, and was drawn already.
LEMMA PromotedFit ==
    ASSUME IInv, NEW k \in Keys, NEW role \in Roles, Event, role \notin roles[k],
           chunks[k].lifecycle # "Absent", role = "visual" => ~NeedsRemesh(k, role),
           roles' = [roles EXCEPT ![k] = @ \cup {role}],
           \/ UNCHANGED refresh
           \/ /\ role = "collision" /\ NeedsRemesh(k, role)
              /\ refresh' = [refresh EXCEPT ![k] = TRUE],
           UNCHANGED <<chunks, given, results, records, work, workers, completed, early>>
    PROVE  Fit'
<1>1. events' = events + 1 /\ events \in Nat
  BY DEF Event, IInv, Fit, TypeOK
<1>2. /\ roles' \in [Keys -> SUBSET Roles] /\ roles'[k] = roles[k] \cup {role}
      /\ \A q \in Keys \ {k} : roles'[q] = roles[q]
  BY DEF IInv, Fit, TypeOK, Roles
<1>3. /\ refresh' \in [Keys -> BOOLEAN]
      /\ \A q \in Keys \ {k} : refresh'[q] = refresh[q]
      /\ refresh'[k] => refresh[k] \/ (role = "collision" /\ NeedsRemesh(k, role))
  BY DEF IInv, Fit, TypeOK
<1>4. TypeOK'
  BY <1>1, <1>2, <1>3 DEF IInv, Fit, TypeOK, Occupied
<1>5. Jobs' = Jobs /\ Answers' = Answers
  BY DEF Jobs, Answers, Occupied, Ran, AnswerOf
<1>6. \A q \in Keys : NothingNew(q)
  BY <1>1, <1>5, FewerJobs
<1>7. \A q \in Keys \ {k} : KeyInv(q)'
  BY <1>2, <1>3, <1>4, <1>6, KeepsKey
<1>8. KeyInv(k)'
  <2>0. PICK r \in RecordType : r = records[k]
    BY DEF IInv, Fit, TypeOK
  <2>1. Fits(k, r, ToSet(results))
    BY <2>0 DEF IInv, Fit, KeyInv
  <2>2. r = records'[k] /\ ToSet(results') = ToSet(results) /\ early' = early
    BY <2>0
  <2>3. IssuedFits(k, r)' /\ ChunkFits(k, r)'
    BY <1>1, <1>2, <2>1 DEF Fits, IssuedFits, ChunkFits, RecordType, IInv, Fit, TypeOK, ChunkType
  <2>4. ASSUME r.generation = chunks[k].generation, ~NeedsRemesh(k, role), role = "visual",
               r.phase \in {"Meshing", "AwaitingGpuCapture", "MeshReady", "Ready"}
        PROVE  r.field
    <3>1. chunks[k].lifecycle \in {"Meshing", "Ready"}
      BY <2>1, <2>4 DEF Fits, ChunkFits
    <3>2. Accepts(k, role)
      BY <2>4, <3>1 DEF NeedsRemesh
    <3>. QED  BY <2>0, <2>4, <3>2 DEF Accepts
  <2>5. RecordFits(k, r)'
    BY <1>2, <2>1, <2>4 DEF Fits, RecordFits, Roles
  <2>6. ASSUME role = "collision", NeedsRemesh(k, role)
        PROVE  RefreshFits(k, r)'
    <3>1. "visual" \in roles[k]
      <4>1. PICK other \in Roles : other \in roles[k]
        BY <2>1 DEF Fits, ChunkFits, IInv, Fit, TypeOK
      <4>. QED  BY <2>6, <4>1 DEF Roles
    <3>2. chunks[k].lifecycle \in {"Meshing", "Ready"} /\ ~Accepts(k, role)
      BY <2>6 DEF NeedsRemesh
    <3>3. CASE r.generation = chunks[k].generation /\ r.phase # "None"
      <4>1. /\ r.phase # "AwaitingMesh"
            /\ r.phase \in {"Meshing", "AwaitingGpuCapture", "MeshReady"} => ~r.field
        BY <2>0, <2>6, <3>2, <3>3 DEF Accepts
      <4>2. r.phase \in {"Meshing", "AwaitingGpuCapture", "MeshReady"} => given[k] # "nothing"
        BY <2>1, <3>1, <3>3, <4>1 DEF Fits, RecordFits
      <4>3. r.phase = "Ready" => (given[k] # "nothing" \/ r.deferred)
        BY <2>1, <3>1, <3>3 DEF Fits, RecordFits
      <4>4. r.phase = "MeshFailedReady" => chunks[k].lifecycle = "Meshing"
        BY <2>1, <3>2 DEF Fits, ChunkFits
      <4>. QED
        BY <3>3, <4>1, <4>2, <4>3, <4>4 DEF RefreshFits, RecordType, Phases
    <3>4. CASE ~(r.generation = chunks[k].generation /\ r.phase # "None")
      <4>1. chunks[k].lifecycle = "Meshing" /\ r.generation # chunks[k].generation
        BY <2>1, <3>2, <3>4 DEF Fits, ChunkFits
      <4>. QED  BY <4>1 DEF RefreshFits
    <3>. QED  BY <3>3, <3>4
  <2>7. RefreshFits(k, r)'
    BY <1>3, <2>1, <2>6 DEF Fits, RefreshFits
  <2>8. \A j \in Jobs' : j.key = k => JobFits(k, r, j)'
    BY <1>1, <1>5, <2>1 DEF Fits, JobFits
  <2>9. \A a \in Answers' : a.job.key = k => AnswerFits(k, r, a)'
    BY <1>5, <2>1 DEF Fits, AnswerFits
  <2>10. \A result \in ToSet(results') : result.key = k => ResultFits(k, r, result)'
    BY <1>1, <2>1, <2>2 DEF Fits, ResultFits
  <2>. QED
    BY <2>2, <2>3, <2>5, <2>7, <2>8, <2>9, <2>10 DEF KeyInv, Fits
<1>. QED  BY <1>4, <1>7, <1>8 DEF Fit

LEMMA PromoteFit ==
    ASSUME IInv, NEW k \in Keys, NEW role \in Roles, Promote(k, role)
    PROVE  Fit'
<1>1. /\ Event /\ chunks[k].lifecycle # "Absent" /\ role \notin roles[k]
      /\ UNCHANGED <<results, workers, completed, early>>
  BY DEF Promote
<1>2. CASE Requested(k, roles[k] \cup {role}, chunks[k].priority) /\ Release(k)
  <2>1. roles[k] \cup {role} \in (SUBSET Roles) \ {{}} /\ chunks[k].priority \in Nat
    BY DEF IInv, Fit, TypeOK, ChunkType, Roles
  <2>. QED  BY <1>1, <1>2, <2>1, RequestedFit
<1>3. CASE /\ ~NeedsRemesh(k, role) \/ role = "collision"
           /\ roles' = [roles EXCEPT ![k] = @ \cup {role}]
           /\ UNCHANGED <<chunks, refresh, records, work, given>>
  BY <1>1, <1>3, PromotedFit
<1>4. CASE /\ NeedsRemesh(k, role) /\ role = "collision"
           /\ roles' = [roles EXCEPT ![k] = @ \cup {role}]
           /\ refresh' = [refresh EXCEPT ![k] = TRUE]
           /\ UNCHANGED <<chunks, records, work, given>>
  BY <1>1, <1>4, PromotedFit
<1>5. CASE /\ role = "collision" /\ chunks[k].lifecycle = "Ready"
           /\ roles' = [roles EXCEPT ![k] = @ \cup {role}] /\ Refreshed(k)
  <2>1. /\ roles' \in [Keys -> SUBSET Roles] /\ roles'[k] # {}
        /\ \A q \in Keys \ {k} : roles'[q] = roles[q]
    BY <1>5 DEF IInv, Fit, TypeOK, Roles
  <2>2. given[k] # "nothing" \/ records[k].deferred
    <3>1. KeyInv(k)
      BY DEF IInv, Fit
    <3>2. roles[k] # {} /\ roles[k] \subseteq Roles
      BY <1>1, <3>1 DEF KeyInv, Fits, ChunkFits, IInv, Fit, TypeOK
    <3>. QED  BY <1>1, <1>5, <3>1, <3>2 DEF KeyInv, Fits, ChunkFits, RecordFits, Roles
  <2>. QED  BY <1>1, <1>5, <2>1, <2>2, RefreshedFit
<1>. QED  BY <1>2, <1>3, <1>4, <1>5 DEF Promote

\* A repair publishes the cached collision, or builds the chunk again.
LEMMA RepairFit ==
    ASSUME IInv, NEW k \in Keys, Repair(k)
    PROVE  Fit'
<1>1. /\ Event /\ chunks[k].lifecycle = "Ready"
      /\ UNCHANGED <<results, workers, completed, early>>
      /\ events' = events + 1 /\ events \in Nat
  BY DEF Repair, Event, IInv, Fit, TypeOK
<1>2. roles[k] \in (SUBSET Roles) \ {{}} /\ roles \in [Keys -> SUBSET Roles]
  BY DEF Repair, IInv, Fit, TypeOK
<1>3. CASE /\ refresh' = [refresh EXCEPT ![k] = FALSE]
           /\ UNCHANGED <<chunks, roles, records, work, given>>
  <2>1. /\ refresh' \in [Keys -> BOOLEAN]
        /\ \A q \in Keys : refresh'[q] => refresh[q]
    BY <1>3 DEF IInv, Fit, TypeOK
  <2>2. TypeOK'
    BY <1>1, <1>3, <2>1 DEF IInv, Fit, TypeOK, Occupied
  <2>3. Jobs' = Jobs /\ Answers' = Answers
    BY <1>1, <1>3 DEF Jobs, Answers, Occupied, Ran, AnswerOf
  <2>4. \A q \in Keys : NothingNew(q)
    BY <1>1, <2>3, FewerJobs
  <2>5. \A q \in Keys : KeyInv(q)'
    BY <1>3, <2>1, <2>2, <2>4, KeepsKey
  <2>. QED  BY <2>2, <2>5 DEF Fit
<1>4. CASE refresh[k] /\ Refreshed(k) /\ UNCHANGED roles
  <2>1. given[k] # "nothing" \/ records[k].deferred
    BY <1>1, <1>4 DEF IInv, Fit, KeyInv, Fits, RefreshFits
  <2>. QED  BY <1>1, <1>2, <1>4, <2>1, RefreshedFit
<1>5. CASE Requested(k, roles[k], chunks[k].priority) /\ UNCHANGED <<records, work>>
  <2>1. chunks[k].priority \in Nat
    BY DEF IInv, Fit, TypeOK, ChunkType
  <2>. QED  BY <1>1, <1>2, <1>5, <2>1, RequestedFit
<1>. QED  BY <1>3, <1>4, <1>5 DEF Repair

LEMMA WithdrawFit ==
    ASSUME IInv, NEW k \in Keys, NEW role \in {"visual", "collision"}, Withdraw(k, role)
    PROVE  Fit'
<1>1. /\ UNCHANGED <<chunks, refresh, given, results, records, work, workers, completed, early>>
      /\ events' = events + 1 /\ events \in Nat
  BY DEF Withdraw, Event, IInv, Fit, TypeOK
<1>2. /\ roles' \in [Keys -> SUBSET Roles]
      /\ \A q \in Keys : roles'[q] \subseteq roles[q] /\ (roles'[q] = {} => roles[q] = {})
  BY DEF Withdraw, IInv, Fit, TypeOK
<1>3. TypeOK'
  BY <1>1, <1>2 DEF IInv, Fit, TypeOK, Occupied
<1>4. Jobs' = Jobs /\ Answers' = Answers
  BY <1>1 DEF Jobs, Answers, Occupied, Ran, AnswerOf
<1>5. \A q \in Keys : NothingNew(q)
  BY <1>1, <1>4, FewerJobs
<1>6. \A q \in Keys : KeyInv(q)'
  BY <1>1, <1>2, <1>3, <1>5, KeepsKey
<1>. QED  BY <1>3, <1>6 DEF Fit

LEMMA InitInv == Init => IInv
<1>. SUFFICES ASSUME Init PROVE IInv
  OBVIOUS
<1>1. /\ NoChunk \in ChunkType /\ NoChunk.generation = 0 /\ NoChunk.lifecycle = "Absent"
      /\ NoChunk.job = FALSE
  BY DEF NoChunk, ChunkType, Lifecycles
<1>2. NoRecord \in RecordType /\ NoRecord.generation = 0 /\ NoRecord.phase = "None"
  BY DEF NoRecord, RecordType, Phases, Roles
<1>3. \A w \in Workers : workers[w] \in WorkerType /\ ~Occupied(w) /\ ~Ran(w)
  <2>1. [at |-> "idle", job |-> NoJob, ok |-> FALSE, early |-> FALSE] \in WorkerType
    BY DEF WorkerType, Places
  <2>. QED  BY <2>1 DEF Init, Occupied, Ran
<1>4. TypeOK
  <2>1. chunks \in [Keys -> ChunkType] /\ records \in [Keys -> RecordType]
    BY <1>1, <1>2 DEF Init
  <2>2. workers \in [Workers -> WorkerType]
    BY <1>3 DEF Init
  <2>3. results \in Seq(Result) /\ completed \in Seq(Answer) /\ early \in Seq(Keys \X Nat)
    BY DEF Init
  <2>. QED  BY <1>3, <2>1, <2>2, <2>3 DEF Init, TypeOK
<1>5. Jobs = {} /\ Answers = {} /\ ToSet(results) = {}
  BY <1>3 DEF Init, Jobs, Answers, ToSet
<1>6. ASSUME NEW k \in Keys PROVE KeyInv(k)
  <2>1. chunks[k] = NoChunk /\ records[k] = NoRecord /\ events = 0
    BY DEF Init
  <2>2. IssuedFits(k, NoRecord) /\ ChunkFits(k, NoRecord)
    BY <1>1, <1>2, <2>1 DEF IssuedFits, ChunkFits
  <2>3. RecordFits(k, NoRecord) /\ RefreshFits(k, NoRecord)
    BY <1>2 DEF Init, RecordFits, RefreshFits
  <2>. QED  BY <1>5, <2>1, <2>2, <2>3 DEF KeyInv, Fits
<1>7. PoolDistinct /\ ResultsDistinct
  <2>1. Queued = {} /\ Len(completed) = 0 /\ Len(results) = 0
    BY DEF Init, Queued
  <2>2. work.background = {}
    BY DEF Init
  <2>. QED  BY <1>3, <2>1, <2>2 DEF PoolDistinct, ResultsDistinct
<1>. QED  BY <1>4, <1>6, <1>7 DEF IInv, Fit

\* The results of other chunks that a removal keeps.
LEMMA KeptResults ==
    ASSUME TypeOK, NEW k \in Keys, NEW f \in Ascending(Retained(k)),
           results' = [i \in 1..Cardinality(Retained(k)) |-> results[f[i]]]
    PROVE  results' \in Seq(Result) /\ ToSet(results') \subseteq ToSet(results)
<1> DEFINE n == Cardinality(Retained(k))
<1>1. results \in Seq(Result) /\ Len(results) \in Nat
  BY DEF TypeOK
<1>2. Retained(k) \subseteq 1..Len(results)
  BY <1>1 DEF Retained
<1>3. n \in Nat
  <2>1. Len(results) \in Int /\ 1 \in Int
    BY <1>1
  <2>2. IsFiniteSet(1..Len(results))
    BY <2>1, FS_Interval
  <2>. QED  BY <1>2, <2>2, FS_Subset, FS_CardinalityType
<1>4. f \in [1..n -> Retained(k)]
  BY DEF Ascending
<1>. HIDE DEF n
<1>5. PICK s : s = [i \in 1..n |-> results[f[i]]]
  OBVIOUS
<1>6. \A i \in 1..n : f[i] \in 1..Len(results) /\ results[f[i]] \in Result
  BY <1>1, <1>2, <1>4
<1>7. s \in Seq(Result) /\ Len(s) = n
  BY <1>3, <1>5, <1>6, IsASeq
<1>8. \A e \in ToSet(s) : e \in ToSet(results)
  <2>1. \A e : e \in ToSet(s) <=> \E i \in 1..n : s[i] = e
    BY <1>7, ToSetElements
  <2>2. \A e : e \in ToSet(results) <=> \E i \in 1..Len(results) : results[i] = e
    BY <1>1, ToSetElements
  <2>. QED  BY <1>5, <1>6, <2>1, <2>2
<1>9. results' = s
  BY <1>5 DEF n
<1>. QED  BY <1>7, <1>8, <1>9

\* Nothing is left of a chunk that is removed, except what workers still hold.
LEMMA RemoveChunkFit ==
    ASSUME IInv, NEW k \in Keys, RemoveChunk(k)
    PROVE  Fit'
<1>1. /\ UNCHANGED <<workers, completed, early>> /\ events' = events + 1 /\ events \in Nat
      /\ records' = [records EXCEPT ![k] = NoRecord] /\ work' = Cancelled(k)
  BY DEF RemoveChunk, Release, Event, IInv, Fit, TypeOK
<1>2. results' \in Seq(Result) /\ ToSet(results') \subseteq ToSet(results)
  BY KeptResults DEF RemoveChunk, IInv, Fit
<1>3. /\ work' \in [background : SUBSET Job, interactive : SUBSET Job]
      /\ Jobs' \subseteq Jobs /\ Answers' = Answers
  BY <1>1, ReleasedJobs DEF IInv, Fit
<1>4. /\ records' \in [Keys -> RecordType] /\ records'[k] = NoRecord
      /\ \A q \in Keys \ {k} : records'[q] = records[q]
  BY <1>1, ReleasedRecords DEF IInv, Fit
<1>5. NoChunk \in ChunkType /\ NoChunk.generation = 0 /\ NoChunk.lifecycle = "Absent"
      /\ NoChunk.job = FALSE
  BY DEF NoChunk, ChunkType, Lifecycles
<1>6. /\ chunks' \in [Keys -> ChunkType] /\ chunks'[k] = NoChunk
      /\ roles' \in [Keys -> SUBSET Roles]
      /\ refresh' \in [Keys -> BOOLEAN] /\ refresh'[k] = FALSE
      /\ given' \in [Keys -> {"nothing", "captured", "abandoned"}]
      /\ \A q \in Keys \ {k} : /\ chunks'[q] = chunks[q] /\ roles'[q] = roles[q]
                               /\ refresh'[q] = refresh[q] /\ given'[q] = given[q]
  BY <1>5 DEF RemoveChunk, IInv, Fit, TypeOK
<1>7. TypeOK'
  BY <1>1, <1>2, <1>3, <1>4, <1>6 DEF IInv, Fit, TypeOK, Occupied
<1>8. \A q \in Keys : NothingNew(q)
  BY <1>1, <1>2, <1>3, FewerJobs
<1>9. \A q \in Keys \ {k} : KeyInv(q)'
  BY <1>4, <1>6, <1>7, <1>8, KeepsKey
<1>10. KeyInv(k)'
  <2>1. Fits(k, records[k], ToSet(results))
    BY DEF IInv, Fit, KeyInv
  <2>2. NoRecord.generation = 0 /\ NoRecord.phase = "None"
    BY DEF NoRecord
  <2>3. /\ IssuedFits(k, NoRecord)' /\ ChunkFits(k, NoRecord)'
        /\ RecordFits(k, NoRecord)' /\ RefreshFits(k, NoRecord)'
    BY <1>1, <1>5, <1>6, <2>2 DEF IssuedFits, ChunkFits, RecordFits, RefreshFits
  <2>4. \A j \in Jobs' : j.key = k => JobFits(k, NoRecord, j)'
    BY <1>1, <1>3, <1>5, <1>6, <2>1, <2>2 DEF Fits, JobFits
  <2>5. \A a \in Answers' : a.job.key = k => AnswerFits(k, NoRecord, a)'
    <3>1. \A a \in Answers : a.job.key = k => a.job.generation \in 1..events
      BY <2>1, JobTypes DEF IInv, Fit, Fits, JobFits
    <3>. QED  BY <1>1, <1>3, <1>5, <1>6, <2>2, <3>1 DEF AnswerFits
  <2>6. \A result \in ToSet(results') : result.key = k => ResultFits(k, NoRecord, result)'
    BY <1>1, <1>2, <1>5, <1>6, <2>1, <2>2 DEF Fits, ResultFits
  <2>. QED  BY <1>4, <2>3, <2>4, <2>5, <2>6 DEF KeyInv, Fits
<1>. QED  BY <1>7, <1>9, <1>10 DEF Fit

\* A queued job follows its chunk's priority, and is the same work.
LEMMA ReprioritizeFit ==
    ASSUME IInv, NEW k \in Keys, NEW p \in Priorities, Reprioritize(k, p)
    PROVE  Fit'
<1> DEFINE mine(j) == Version(j) = <<k, chunks[k].generation>>
           background(j) == IF mine(j)
                            THEN [j EXCEPT !.priority = p,
                                           !.prewarm = /\ j.capture # "None" /\ k \in Lod0
                                                       /\ "visual" \in j.roles
                                                       /\ p >= FocusPriority]
                            ELSE j
           interactive(j) == IF mine(j) THEN [j EXCEPT !.priority = p] ELSE j
<1>1. /\ UNCHANGED <<roles, refresh, given, results, records, workers, completed, early>>
      /\ events' = events + 1 /\ events \in Nat
      /\ chunks' = [chunks EXCEPT ![k].priority = p]
      /\ work' = [background |-> {background(j) : j \in work.background},
                  interactive |-> {interactive(j) : j \in work.interactive}]
  BY DEF Reprioritize, Event, IInv, Fit, TypeOK
<1>2. p \in Nat
  BY MeshAssumption
<1>3. ASSUME NEW j \in Job
      PROVE  /\ background(j) \in Job /\ SameWork(background(j), j)
             /\ interactive(j) \in Job /\ SameWork(interactive(j), j)
  BY <1>2 DEF Job, SameWork
<1>. HIDE DEF background, interactive
<1>4. work \in [background : SUBSET Job, interactive : SUBSET Job]
  BY DEF IInv, Fit, TypeOK
<1>5. /\ work' \in [background : SUBSET Job, interactive : SUBSET Job]
      /\ work'.background = {background(j) : j \in work.background}
      /\ work'.interactive = {interactive(j) : j \in work.interactive}
  BY <1>1, <1>3, <1>4
<1>6. /\ chunks' \in [Keys -> ChunkType]
      /\ \A q \in Keys : /\ chunks'[q].generation = chunks[q].generation
                         /\ chunks'[q].lifecycle = chunks[q].lifecycle
                         /\ chunks'[q].job = chunks[q].job
  BY <1>1, <1>2 DEF IInv, Fit, TypeOK, ChunkType
<1>7. TypeOK'
  BY <1>1, <1>5, <1>6 DEF IInv, Fit, TypeOK, Occupied
<1>8. Answers' = Answers
  BY <1>1 DEF Answers, Ran, AnswerOf
<1>9. ASSUME NEW j \in Jobs' PROVE \E i \in Jobs : SameWork(j, i)
  <2>1. CASE j \in work'.background
    BY <1>3, <1>4, <1>5, <2>1 DEF Jobs
  <2>2. CASE j \in work'.interactive
    BY <1>3, <1>4, <1>5, <2>2 DEF Jobs
  <2>3. CASE j \notin work'.background \cup work'.interactive
    <3>1. j \in Jobs
      BY <1>1, <2>3 DEF Jobs, Occupied
    <3>. QED  BY <3>1 DEF SameWork
  <2>. QED  BY <2>1, <2>2, <2>3
<1>10. \A q \in Keys : NothingNew(q)
  BY <1>1, <1>8, <1>9 DEF NothingNew
<1>11. \A q \in Keys : KeyInv(q)'
  BY <1>1, <1>6, <1>7, <1>10, KeepsKey
<1>. QED  BY <1>7, <1>11 DEF Fit

-----------------------------------------------------------------------------
(* The worker threads, and the end of the world.                           *)

\* A step that only moves jobs and answers, or drops some.
LEMMA PoolFit ==
    ASSUME IInv, TypeOK', Jobs' \subseteq Jobs, Answers' \subseteq Answers,
           UNCHANGED <<chunks, roles, refresh, given, results, records, early, events>>
    PROVE  Fit'
<1>1. \A q \in Keys : NothingNew(q)
  <2>1. events' >= events
    BY DEF IInv, Fit, TypeOK
  <2>. QED  BY <2>1, FewerJobs
<1>2. \A q \in Keys : KeyInv(q)'
  BY <1>1, KeepsKey
<1>. QED  BY <1>2 DEF Fit

LEMMA TakeJobFit ==
    ASSUME IInv, NEW w \in Workers, TakeJob(w)
    PROVE  Fit'
<1>1. /\ work \in [background : SUBSET Job, interactive : SUBSET Job]
      /\ workers \in [Workers -> WorkerType]
  BY DEF IInv, Fit, TypeOK
<1>2. PICK queue \in {"background", "interactive"}, j \in Job :
          /\ j \in work[queue] /\ work' = [work EXCEPT ![queue] = @ \ {j}]
          /\ workers' = [workers EXCEPT ![w].at = "executing", ![w].job = j]
  BY <1>1 DEF TakeJob, QueueOf
<1>3. /\ UNCHANGED <<chunks, roles, refresh, given, results, records, completed, early, events>>
      /\ workers[w].at = "idle"
  BY DEF TakeJob
<1>4. /\ work' \in [background : SUBSET Job, interactive : SUBSET Job]
      /\ work'.background \subseteq work.background
      /\ work'.interactive \subseteq work.interactive
      /\ j \in work.background \cup work.interactive
  BY <1>1, <1>2
<1>5. /\ workers' \in [Workers -> WorkerType]
      /\ workers'[w].at = "executing" /\ workers'[w].job = j
      /\ \A v \in Workers \ {w} : workers'[v] = workers[v]
  <2> DEFINE u == [workers[w] EXCEPT !.at = "executing", !.job = j]
  <2>1. u \in WorkerType /\ u.at = "executing" /\ u.job = j
    BY <1>1 DEF WorkerType, Places
  <2>2. workers' = [workers EXCEPT ![w] = u]
    BY <1>1, <1>2 DEF WorkerType
  <2>. HIDE DEF u
  <2>. QED  BY <1>1, <2>1, <2>2
<1>6. TypeOK'
  BY <1>3, <1>4, <1>5 DEF IInv, Fit, TypeOK, Occupied
<1>7. Jobs' \subseteq Jobs
  BY <1>3, <1>4, <1>5 DEF Jobs, Occupied
<1>8. Answers' \subseteq Answers
  BY <1>3, <1>5 DEF Answers, Ran, AnswerOf
<1>. QED  BY <1>3, <1>6, <1>7, <1>8, PoolFit

\* A worker that keeps its job and its outcome while it waits or wakes, or
\* that leaves with them.
LEMMA WaitingWorkers ==
    ASSUME IInv, workers' \in [Workers -> WorkerType],
           UNCHANGED <<chunks, roles, refresh, given, results, records, work, completed,
                       early, events>>,
           \A w \in Workers :
               \/ workers'[w] = workers[w]
               \/ workers'[w].at = "exited"
               \/ /\ Ran(w) /\ workers'[w].at \in {"executed", "falling", "asleep"}
                  /\ workers'[w].job = workers[w].job /\ workers'[w].ok = workers[w].ok
                  /\ workers'[w].early = workers[w].early
    PROVE  Fit'
<1>1. \A w \in Workers : Occupied(w)' => Occupied(w) /\ workers'[w].job = workers[w].job
  BY DEF Occupied, Ran
<1>2. \A w \in Workers : Ran(w)' => Ran(w) /\ AnswerOf(w)' = AnswerOf(w)
  BY DEF Ran, AnswerOf
<1>3. TypeOK'
  BY <1>1 DEF IInv, Fit, TypeOK
<1>4. Jobs' \subseteq Jobs
  BY <1>1 DEF Jobs
<1>5. Answers' \subseteq Answers
  BY <1>2 DEF Answers
<1>. QED  BY <1>3, <1>4, <1>5, PoolFit

\* The answer moves from the worker to the completion queue.
LEMMA CompleteFit ==
    ASSUME IInv, NEW w \in Workers, Complete(w)
    PROVE  Fit'
<1>1. workers \in [Workers -> WorkerType] /\ completed \in Seq(Answer)
  BY DEF IInv, Fit, TypeOK
<1>2. /\ UNCHANGED <<chunks, roles, refresh, given, results, records, work, early, events>>
      /\ workers[w].at = "executed" /\ Ran(w) /\ Occupied(w)
  BY DEF Complete, Ran, Occupied
<1>3. CASE /\ completed' = Append(completed, [job |-> workers[w].job, ok |-> workers[w].ok,
                                              early |-> workers[w].early])
           /\ workers' = [workers EXCEPT ![w] = NoWork]
  <2> DEFINE a == AnswerOf(w)
  <2>1. a \in Answer /\ a \in Answers /\ a.job \in Jobs
    BY <1>1, <1>2 DEF Answers, AnswerOf, Answer, Jobs, IInv, Fit, TypeOK, WorkerType
  <2>2. completed' = Append(completed, a)
    BY <1>3 DEF AnswerOf
  <2>. HIDE DEF a
  <2>3. /\ completed' \in Seq(Answer) /\ Len(completed) \in Nat
        /\ Len(completed') = Len(completed) + 1
        /\ \A i \in 1..Len(completed) : completed'[i] = completed[i]
        /\ completed'[Len(completed) + 1] = a
    BY <1>1, <2>1, <2>2, AppendElements
  <2>4. \A i \in 1..Len(completed') :
            completed'[i] = a \/ (i \in 1..Len(completed) /\ completed'[i] = completed[i])
    <3>1. SUFFICES ASSUME NEW i \in 1..Len(completed')
                   PROVE  i = Len(completed) + 1 \/ i \in 1..Len(completed)
      BY <2>3
    <3>. QED  BY <2>3
  <2>5. NoWork \in WorkerType /\ NoWork.at = "idle"
    BY DEF NoWork, WorkerType, Places
  <2>6. /\ workers' \in [Workers -> WorkerType] /\ workers'[w].at = "idle"
        /\ \A v \in Workers \ {w} : workers'[v] = workers[v]
    BY <1>1, <1>3, <2>5
  <2>7. \A v \in Workers : /\ Occupied(v)' => (Occupied(v) /\ workers'[v] = workers[v])
                           /\ Ran(v)' => (Ran(v) /\ AnswerOf(v)' = AnswerOf(v))
    BY <2>6 DEF Occupied, Ran, AnswerOf
  <2>8. TypeOK'
    BY <1>2, <2>3, <2>6, <2>7 DEF IInv, Fit, TypeOK
  <2>9. Jobs' \subseteq Jobs
    BY <1>2, <2>1, <2>4, <2>7 DEF Jobs
  <2>10. Answers' \subseteq Answers
    BY <1>2, <2>1, <2>4, <2>7 DEF Answers
  <2>. QED  BY <1>2, <2>8, <2>9, <2>10, PoolFit
<1>4. CASE \E at \in {"falling", "exited"} : /\ workers' = [workers EXCEPT ![w].at = at]
                                            /\ UNCHANGED completed
  <2>1. PICK at \in {"falling", "exited"} : workers' = [workers EXCEPT ![w].at = at]
    BY <1>4
  <2>2. /\ workers' \in [Workers -> WorkerType] /\ workers'[w].at = at
        /\ workers'[w].job = workers[w].job /\ workers'[w].ok = workers[w].ok
        /\ workers'[w].early = workers[w].early
        /\ \A v \in Workers \ {w} : workers'[v] = workers[v]
    BY <1>1, <2>1 DEF WorkerType, Places
  <2>. QED  BY <1>2, <1>4, <2>2, WaitingWorkers
<1>. QED  BY <1>3, <1>4 DEF Complete

LEMMA WaitFit ==
    ASSUME IInv, NEW w \in Workers, FallAsleep(w) \/ IdleExit(w)
    PROVE  Fit'
<1>1. workers \in [Workers -> WorkerType]
  BY DEF IInv, Fit, TypeOK
<1>2. UNCHANGED <<chunks, roles, refresh, given, results, records, work, completed, early, events>>
  BY DEF FallAsleep, IdleExit
<1>3. PICK at \in {"asleep", "exited"} :
          workers' = [workers EXCEPT ![w].at = at] /\ (at = "exited" \/ Ran(w))
  BY DEF FallAsleep, IdleExit, Ran
<1>4. /\ workers' \in [Workers -> WorkerType] /\ workers'[w].at = at
      /\ workers'[w].job = workers[w].job /\ workers'[w].ok = workers[w].ok
      /\ workers'[w].early = workers[w].early
      /\ \A v \in Workers \ {w} : workers'[v] = workers[v]
  BY <1>1, <1>3 DEF WorkerType, Places
<1>. QED  BY <1>2, <1>3, <1>4, WaitingWorkers

LEMMA NotifyAllFit == ASSUME IInv, NotifyAll PROVE Fit'
<1>1. workers \in [Workers -> WorkerType]
  BY DEF IInv, Fit, TypeOK
<1>2. UNCHANGED <<chunks, roles, refresh, given, results, records, work, completed, early, events>>
  BY DEF NotifyAll
<1>3. workers' = [w \in Workers |-> IF workers[w].at = "asleep"
                                    THEN [workers[w] EXCEPT !.at = "executed"] ELSE workers[w]]
  BY DEF NotifyAll
<1>4. \A w \in Workers : /\ workers[w].at = "asleep" => Ran(w)
                         /\ [workers[w] EXCEPT !.at = "executed"] \in WorkerType
  BY <1>1 DEF WorkerType, Places, Ran
<1>5. workers' \in [Workers -> WorkerType]
  BY <1>1, <1>3, <1>4
<1>6. ASSUME NEW w \in Workers
      PROVE  \/ workers'[w] = workers[w]
             \/ /\ Ran(w) /\ workers'[w].at = "executed"
                /\ workers'[w].job = workers[w].job /\ workers'[w].ok = workers[w].ok
                /\ workers'[w].early = workers[w].early
  BY <1>1, <1>3, <1>4 DEF WorkerType
<1>. QED  BY <1>2, <1>5, <1>6, WaitingWorkers

LEMMA BeginShutdownFit == ASSUME IInv, BeginShutdown PROVE Fit'
<1>1. /\ UNCHANGED <<chunks, roles, refresh, given, results, records, workers, completed,
                     early, events>>
      /\ work' = [background |-> {}, interactive |-> {}]
  BY DEF BeginShutdown
<1>2. TypeOK'
  BY <1>1 DEF IInv, Fit, TypeOK, Occupied
<1>3. Jobs' \subseteq Jobs /\ Answers' \subseteq Answers
  BY <1>1 DEF Jobs, Answers, Occupied, Ran, AnswerOf
<1>. QED  BY <1>1, <1>2, <1>3, PoolFit

\* The frame thread's steps, and a step of nobody, change nothing the invariant reads.
LEMMA ElsewhereFit ==
    ASSUME IInv, UNCHANGED <<chunks, roles, refresh, given, results, records, work, workers,
                             completed, early, events>>
    PROVE  Fit'
<1>1. TypeOK'
  BY DEF IInv, Fit, TypeOK, Occupied
<1>2. Jobs' \subseteq Jobs /\ Answers' \subseteq Answers
  BY DEF Jobs, Answers, Occupied, Ran, AnswerOf
<1>. QED  BY <1>1, <1>2, PoolFit

-----------------------------------------------------------------------------
(* What workers, early collisions and the runtime mark on a record.        *)

\* The record s is r with the marks that early collisions and the runtime leave.
Marked(q, r, s) ==
    /\ s.phase = r.phase /\ s.generation = r.generation /\ s.roles = r.roles
    /\ s.field = r.field /\ s.deferred = r.deferred
    /\ (r.delivered \/ <<q, r.generation>> \in ToSet(early))
          => (s.delivered \/ <<q, r.generation>> \in ToSet(early'))

LEMMA MarkedKey ==
    ASSUME IInv, TypeOK', NEW q \in Keys, NEW r \in RecordType, NEW s \in RecordType,
           r = records[q], s = records'[q], Marked(q, r, s), refresh'[q] => refresh[q],
           given'[q] \in {given[q], "captured"},
           UNCHANGED <<chunks, roles, results, events>>, Jobs' \subseteq Jobs,
           \A a \in Answers' : a.job.key = q => (a \in Answers \/ AnswerFits(q, s, a)')
    PROVE  KeyInv(q)'
<1>1. Fits(q, r, ToSet(results))
  BY DEF IInv, Fit, KeyInv
<1>2. IssuedFits(q, s)' /\ ChunkFits(q, s)'
  BY <1>1 DEF Fits, Marked, IssuedFits, ChunkFits
<1>3. RecordFits(q, s)' /\ RefreshFits(q, s)'
  BY <1>1 DEF Fits, Marked, RecordFits, RefreshFits
<1>4. \A j \in Jobs' : j.key = q => JobFits(q, s, j)'
  BY <1>1 DEF Fits, Marked, JobFits
<1>5. \A a \in Answers' : a.job.key = q => AnswerFits(q, s, a)'
  <2>1. ASSUME NEW a \in Answers, a.job.key = q PROVE AnswerFits(q, s, a)'
    BY <1>1, <2>1 DEF Fits, Marked, AnswerFits
  <2>. QED  BY <2>1
<1>6. \A result \in ToSet(results') : result.key = q => ResultFits(q, s, result)'
  BY <1>1 DEF Fits, Marked, ResultFits
<1>. QED  BY <1>2, <1>3, <1>4, <1>5, <1>6 DEF KeyInv, Fits

\* The early collision at the head is delivered to the record it names.
LEMMA AcceptEarlyFit == ASSUME IInv, AcceptEarly PROVE Fit'
<1>1. /\ UNCHANGED <<chunks, roles, refresh, given, results, work, workers, completed, events>>
      /\ early \in Seq(Keys \X Nat) /\ early # <<>> /\ early' = Tail(early)
  BY DEF AcceptEarly, IInv, Fit, TypeOK
<1>2. early' \in Seq(Keys \X Nat) /\ ToSet(early) = ToSet(early') \cup {Head(early)}
  BY <1>1, HeadTailElements, ToSetChanges
<1>3. ASSUME NEW k \in Keys
      PROVE  /\ records'[k] = IF Head(early) = <<k, records[k].generation>>
                              THEN [records[k] EXCEPT !.delivered = TRUE] ELSE records[k]
             /\ records'[k] \in RecordType
  BY DEF AcceptEarly, IInv, Fit, TypeOK, RecordType
<1>4. records' \in [Keys -> RecordType]
  <2>1. DOMAIN records' = Keys
    BY DEF AcceptEarly
  <2>2. records' = [k \in Keys |-> records'[k]]
    BY <2>1 DEF AcceptEarly
  <2>. QED  BY <1>3, <2>2
<1>5. TypeOK'
  BY <1>1, <1>2, <1>4 DEF IInv, Fit, TypeOK, Occupied
<1>6. Jobs' = Jobs /\ Answers' = Answers
  BY <1>1 DEF Jobs, Answers, Occupied, Ran, AnswerOf
<1>7. ASSUME NEW k \in Keys PROVE KeyInv(k)'
  <2>1. PICK r \in RecordType, s \in RecordType : r = records[k] /\ s = records'[k]
    BY <1>3 DEF IInv, Fit, TypeOK
  <2>2. s = IF Head(early) = <<k, r.generation>> THEN [r EXCEPT !.delivered = TRUE] ELSE r
    BY <1>3, <2>1
  <2>3. Marked(k, r, s)
    BY <1>2, <2>2 DEF Marked, RecordType
  <2>. QED  BY <1>1, <1>5, <1>6, <2>1, <2>3, MarkedKey
<1>. QED  BY <1>5, <1>7 DEF Fit

\* What a worker does with its job j.
LEMMA ExecuteEffect ==
    ASSUME NEW w \in Workers, Execute(w), NEW j, j = workers[w].job
    PROVE  \E meshed \in BOOLEAN, ok \in BOOLEAN, sent \in BOOLEAN :
              /\ sent = (meshed /\ LeavesEarly(j) /\ EarlyRoom) /\ (ok => meshed)
              /\ given' = IF meshed /\ j.capture = "Reserved" THEN Given(j) ELSE given
              /\ early' = IF sent THEN Append(early, Version(j)) ELSE early
              /\ workers' = [workers EXCEPT ![w].at = "executed", ![w].ok = ok,
                                            ![w].early = sent]
<1> DEFINE Outcome(i, meshed, ok, sent) ==
             /\ ok => meshed
             /\ IF meshed /\ i.capture = "Reserved"
                THEN gpu' = gpu + 1 /\ given' = Given(i)
                ELSE UNCHANGED <<gpu, given>>
             /\ early' = IF sent THEN Append(early, Version(i)) ELSE early
             /\ workers' = [workers EXCEPT ![w].at = "executed", ![w].ok = ok,
                                           ![w].early = sent]
<1>1. \E meshed \in {TRUE} \cup {workers[w].job.capture = "None"}, ok \in BOOLEAN :
          Outcome(workers[w].job, meshed, ok,
                  meshed /\ LeavesEarly(workers[w].job) /\ EarlyRoom)
  BY Zenon DEF Execute
<1>. HIDE DEF Outcome
<1>2. PICK meshed \in BOOLEAN, ok \in BOOLEAN :
          Outcome(j, meshed, ok, meshed /\ LeavesEarly(j) /\ EarlyRoom)
  BY <1>1
<1>3. PICK sent \in BOOLEAN : sent = (meshed /\ LeavesEarly(j) /\ EarlyRoom)
  OBVIOUS
<1>4. Outcome(j, meshed, ok, sent)
  BY <1>2, <1>3
<1>. QED  BY <1>3, <1>4 DEF Outcome

\* A worker has captured the field into its reserved slot and sent the
\* collision ahead before its answer says so.
LEMMA ExecuteFit ==
    ASSUME IInv, NEW w \in Workers, Execute(w)
    PROVE  Fit'
<1>1. PICK j \in Job : j = workers[w].job
  BY DEF Execute, IInv, Fit, TypeOK, Occupied
<1>2. /\ UNCHANGED <<chunks, roles, refresh, results, records, work, completed, events>>
      /\ workers[w].at = "executing" /\ workers \in [Workers -> WorkerType]
      /\ early \in Seq(Keys \X Nat)
  BY DEF Execute, IInv, Fit, TypeOK
<1>3. PICK meshed \in BOOLEAN, ok \in BOOLEAN, sent \in BOOLEAN :
          /\ sent = (meshed /\ LeavesEarly(j) /\ EarlyRoom) /\ (ok => meshed)
          /\ given' = IF meshed /\ j.capture = "Reserved" THEN Given(j) ELSE given
          /\ early' = IF sent THEN Append(early, Version(j)) ELSE early
          /\ workers' = [workers EXCEPT ![w].at = "executed", ![w].ok = ok, ![w].early = sent]
  BY <1>1, ExecuteEffect
<1>4. Version(j) = <<j.key, j.generation>> /\ Version(j) \in Keys \X Nat
  BY DEF Version, Job
<1>5. /\ early' \in Seq(Keys \X Nat)
      /\ ToSet(early') = ToSet(early) \cup (IF sent THEN {Version(j)} ELSE {})
  <2>1. CASE sent
    <3>1. early' = Append(early, Version(j))
      BY <1>3, <2>1
    <3>2. PICK v \in Keys \X Nat : v = Version(j)
      BY <1>4
    <3>3. Append(early, v) \in Seq(Keys \X Nat)
      BY <1>2, AppendElements
    <3>4. ToSet(Append(early, v)) = ToSet(early) \cup {v}
      BY <1>2, ToSetChanges
    <3>. QED  BY <2>1, <3>1, <3>2, <3>3, <3>4
  <2>2. CASE ~sent
    BY <1>2, <1>3, <2>2
  <2>. QED  BY <2>1, <2>2
<1>6. /\ given' \in [Keys -> {"nothing", "captured", "abandoned"}]
      /\ \A k \in Keys : given'[k] \in {given[k], "captured"}
      /\ (meshed /\ j.capture = "Reserved" /\ j.generation = chunks[j.key].generation)
            => given'[j.key] = "captured"
  BY <1>3 DEF Given, Job, IInv, Fit, TypeOK
<1>7. /\ workers' \in [Workers -> WorkerType]
      /\ workers'[w].at = "executed" /\ workers'[w].job = j
      /\ workers'[w].ok = ok /\ workers'[w].early = sent
      /\ \A v \in Workers \ {w} : workers'[v] = workers[v]
  <2> DEFINE u == [workers[w] EXCEPT !.at = "executed", !.ok = ok, !.early = sent]
  <2>1. /\ u \in WorkerType /\ u.at = "executed" /\ u.job = workers[w].job
        /\ u.ok = ok /\ u.early = sent
    BY <1>2 DEF WorkerType, Places
  <2>2. workers' = [workers EXCEPT ![w] = u]
    BY <1>2, <1>3 DEF WorkerType
  <2>. HIDE DEF u
  <2>. QED  BY <1>1, <1>2, <2>1, <2>2
<1>8. \A v \in Workers : /\ Occupied(v)' = Occupied(v)
                         /\ Occupied(v) => workers'[v].job = workers[v].job
  BY <1>1, <1>2, <1>7 DEF Occupied
<1>9. TypeOK'
  BY <1>1, <1>2, <1>5, <1>6, <1>7, <1>8 DEF IInv, Fit, TypeOK, Occupied
<1>10. Jobs' \subseteq Jobs
  BY <1>2, <1>8 DEF Jobs
<1>11. \A a \in Answers' : a \in Answers \/ (a.job = j /\ a.ok = ok /\ a.early = sent)
  <2>1. \A v \in Workers \ {w} : Ran(v)' = Ran(v) /\ AnswerOf(v)' = AnswerOf(v)
    BY <1>7 DEF Ran, AnswerOf
  <2>2. AnswerOf(w)' = [job |-> j, ok |-> ok, early |-> sent]
    BY <1>7 DEF AnswerOf
  <2>. QED  BY <1>2, <2>1, <2>2 DEF Answers
<1>12. ASSUME NEW k \in Keys PROVE KeyInv(k)'
  <2>1. PICK r \in RecordType : r = records[k] /\ r = records'[k]
    BY <1>2 DEF IInv, Fit, TypeOK
  <2>2. Marked(k, r, r)
    BY <1>5 DEF Marked
  <2>3. ASSUME NEW a, a.job = j, a.ok = ok, a.early = sent, a.job.key = k
        PROVE  AnswerFits(k, r, a)'
    <3>1. (ok /\ j.capture = "Reserved" /\ j.generation = chunks[k].generation)
            => given'[k] = "captured"
      BY <1>3, <1>6, <2>3
    <3>2. (sent /\ j.generation = r.generation) => <<k, r.generation>> \in ToSet(early')
      BY <1>4, <1>5, <2>3
    <3>. QED  BY <1>2, <2>3, <3>1, <3>2 DEF AnswerFits
  <2>. QED  BY <1>2, <1>6, <1>9, <1>10, <1>11, <2>1, <2>2, <2>3, MarkedKey
<1>. QED  BY <1>9, <1>12 DEF Fit

-----------------------------------------------------------------------------
(* The runtime thread.                                                     *)

\* A chunk whose record answers the scheduler leaves the other chunks alone.
LEMMA SubmittedFit ==
    ASSUME IInv, TypeOK', NEW k \in Keys, NEW r \in RecordType, Submit(r, k),
           r.phase \in {"MeshReady", "MeshFailedReady"},
           NEW R, R = ToSet(results), Fits(k, r, R)',
           Jobs' \subseteq Jobs, Answers' \subseteq Answers,
           UNCHANGED <<roles, refresh, early, events>>,
           \A q \in Keys \ {k} : chunks'[q] = chunks[q] /\ given'[q] = given[q]
    PROVE  Fit'
<1>1. KeyInv(k)'
  BY SubmittedKey DEF IInv, Fit
<1>2. ASSUME NEW q \in Keys \ {k} PROVE KeyInv(q)'
  <2>1. records'[q] = records[q]
    BY SubmitEffect DEF IInv, Fit
  <2>2. \A result \in ToSet(results') : result.key = q => result \in ToSet(results)
    <3>1. \E ok \in BOOLEAN :
              ToSet(results') \subseteq
                  ToSet(results) \cup {[key |-> k, generation |-> r.generation, ok |-> ok]}
      BY SubmitEffect DEF IInv, Fit
    <3>2. \A ok \in BOOLEAN : [key |-> k, generation |-> r.generation, ok |-> ok].key = k
      OBVIOUS
    <3>. QED  BY <3>1, <3>2
  <2>3. events' >= events
    BY DEF IInv, Fit, TypeOK
  <2>4. NothingNew(q)
    BY <2>2, <2>3 DEF NothingNew, SameWork
  <2>. QED  BY <2>1, <2>4, KeepsKey
<1>. QED  BY <1>1, <1>2 DEF Fit

\* The runtime takes a mesh, and a refresh is over.
LEMMA ConsumeMeshFit ==
    ASSUME IInv, NEW k \in Keys, ConsumeMesh(k)
    PROVE  Fit'
<1>1. /\ UNCHANGED <<chunks, roles, given, results, work, workers, completed, early, events>>
      /\ records' = [records EXCEPT ![k].mesh = FALSE]
  BY DEF ConsumeMesh
<1>2. refresh' \in [Keys -> BOOLEAN] /\ \A q \in Keys : refresh'[q] => refresh[q]
  BY DEF ConsumeMesh, IInv, Fit, TypeOK
<1>3. records \in [Keys -> RecordType] /\ records' \in [Keys -> RecordType]
  BY <1>1 DEF IInv, Fit, TypeOK, RecordType
<1>4. TypeOK'
  BY <1>1, <1>2, <1>3 DEF IInv, Fit, TypeOK, Occupied
<1>5. Jobs' = Jobs /\ Answers' = Answers
  BY <1>1 DEF Jobs, Answers, Occupied, Ran, AnswerOf
<1>6. ASSUME NEW q \in Keys PROVE KeyInv(q)'
  <2>1. PICK r \in RecordType, s \in RecordType : r = records[q] /\ s = records'[q]
    BY <1>3
  <2>2. s = r \/ s = [r EXCEPT !.mesh = FALSE]
    BY <1>1, <1>3, <2>1
  <2>3. Marked(q, r, s)
    BY <1>1, <2>2 DEF Marked, RecordType
  <2>. QED  BY <1>1, <1>2, <1>4, <1>5, <2>1, <2>3, MarkedKey
<1>. QED  BY <1>4, <1>6 DEF Fit

\* Begun sampling, a generation is still unknown to the pool when its record
\* takes the place of the one before.
LEMMA SampledFit ==
    ASSUME IInv, NEW k \in Keys, Sampled(k)
    PROVE  Fit'
<1>1. /\ UNCHANGED <<roles, refresh, given, results, workers, completed, early, events>>
      /\ work' = Cancelled(k) /\ events \in Nat
      /\ chunks[k] \in ChunkType /\ chunks[k].lifecycle = "Sampling"
  BY DEF Sampled, IInv, Fit, TypeOK
<1>2. /\ work' \in [background : SUBSET Job, interactive : SUBSET Job]
      /\ Jobs' \subseteq Jobs /\ Answers' = Answers
  BY <1>1, ReleasedJobs DEF IInv, Fit
<1>3. PICK g \in Nat : g = chunks[k].generation
  BY <1>1 DEF ChunkType
<1>4. PICK s \in RecordType : /\ records' = [records EXCEPT ![k] = s]
                              /\ s.phase = "AwaitingMesh" /\ s.generation = g
  <2> DEFINE s == [NoRecord EXCEPT !.phase = "AwaitingMesh", !.generation = g]
  <2>1. s \in RecordType /\ s.phase = "AwaitingMesh" /\ s.generation = g
    BY DEF NoRecord, RecordType, Phases, Roles
  <2>2. records' = [records EXCEPT ![k] = s]
    BY <1>3 DEF Sampled
  <2>. QED  BY <2>1, <2>2
<1>5. /\ records' \in [Keys -> RecordType] /\ records'[k] = s
      /\ \A q \in Keys \ {k} : records'[q] = records[q]
  BY <1>4 DEF IInv, Fit, TypeOK
<1>6. /\ chunks' \in [Keys -> ChunkType]
      /\ chunks'[k].lifecycle = "Meshing" /\ chunks'[k].job = TRUE
      /\ chunks'[k].generation = g
      /\ \A q \in Keys \ {k} : chunks'[q] = chunks[q]
  BY <1>3 DEF Sampled, IInv, Fit, TypeOK, ChunkType, Lifecycles
<1>7. TypeOK'
  BY <1>1, <1>2, <1>5, <1>6 DEF IInv, Fit, TypeOK, Occupied
<1>8. \A q \in Keys : NothingNew(q)
  BY <1>1, <1>2, FewerJobs
<1>9. \A q \in Keys \ {k} : KeyInv(q)'
  BY <1>1, <1>5, <1>6, <1>7, <1>8, KeepsKey
<1>10. KeyInv(k)'
  <2>0. PICK r \in RecordType : r = records[k]
    BY DEF IInv, Fit, TypeOK
  <2>1. Fits(k, r, ToSet(results))
    BY <2>0 DEF IInv, Fit, KeyInv
  <2>2. g \in 1..events
    BY <1>1, <1>3, <2>1 DEF Fits, IssuedFits, ChunkFits
  <2>3. \A j \in Jobs : j.key = k => (j.generation # g /\ JobFits(k, r, j))
    BY <1>1, <1>3, <2>1 DEF Fits, JobFits
  <2>4. IssuedFits(k, s)' /\ ChunkFits(k, s)' /\ RecordFits(k, s)' /\ RefreshFits(k, s)'
    <3>1. refresh[k] => given[k] # "nothing"
      BY <1>1, <2>1, <2>2 DEF Fits, ChunkFits, RefreshFits, RecordType
    <3>2. roles[k] # {}
      BY <1>1, <2>1 DEF Fits, ChunkFits
    <3>. QED
      BY <1>1, <1>4, <1>6, <2>2, <3>1, <3>2 DEF IssuedFits, ChunkFits, RecordFits, RefreshFits
  <2>5. \A j \in Jobs' : j.key = k => JobFits(k, s, j)'
    BY <1>1, <1>2, <1>4, <1>6, <2>3 DEF JobFits
  <2>6. \A a \in Answers' : a.job.key = k => AnswerFits(k, s, a)'
    BY <1>2, <1>4, <1>6, <2>3, JobTypes DEF IInv, Fit, AnswerFits
  <2>7. \A result \in ToSet(results') : result.key = k => ResultFits(k, s, result)'
    BY <1>1, <1>3, <1>4, <1>6, <2>1 DEF Fits, ResultFits
  <2>. QED  BY <1>5, <2>4, <2>5, <2>6, <2>7 DEF KeyInv, Fits
<1>. QED  BY <1>7, <1>9, <1>10 DEF Fit

\* The record that a dispatched job leaves: it remembers the roles the job
\* was dispatched with and whether its field is captured.
LEMMA DispatchedFits ==
    ASSUME IInv, NEW k \in Keys, NEW s \in RecordType, NEW j \in Job, NEW R, R = ToSet(results),
           UNCHANGED <<roles, refresh, given, early, events>>, Answers' = Answers,
           Jobs' \subseteq Jobs \cup {j},
           chunks[k].job, chunks' = [chunks EXCEPT ![k].job = FALSE],
           s.generation = records[k].generation, s.phase \in {"Meshing", "MeshFailedReady"},
           s.phase = "Meshing" \/ Jobs' \subseteq Jobs,
           ("visual" \in roles[k] /\ ~refresh[k]) => s.field,
           j.generation = chunks[k].generation, j.roles = s.roles, (j.capture # "None") <=> s.field
    PROVE  Fits(k, s, R)'
<1>0. PICK r \in RecordType : r = records[k]
  BY DEF IInv, Fit, TypeOK
<1>1. Fits(k, r, R)
  BY <1>0 DEF IInv, Fit, KeyInv
<1>2. PICK g \in Nat : g = chunks[k].generation
  BY DEF IInv, Fit, TypeOK, ChunkType
<1>3. chunks[k].lifecycle = "Meshing" /\ s.generation = g /\ r.generation = g
  BY <1>0, <1>1, <1>2 DEF Fits, ChunkFits
<1>4. chunks'[k].lifecycle = "Meshing" /\ chunks'[k].job = FALSE /\ chunks'[k].generation = g
  BY <1>2, <1>3 DEF IInv, Fit, TypeOK, ChunkType
<1>5. events \in Nat /\ g \in 1..events
  BY <1>0, <1>1, <1>2, <1>3 DEF IInv, Fit, TypeOK, Fits, IssuedFits, ChunkFits
<1>6. IssuedFits(k, s)' /\ ChunkFits(k, s)'
  BY <1>1, <1>3, <1>4, <1>5 DEF Fits, IssuedFits, ChunkFits
<1>7. RecordFits(k, s)' /\ RefreshFits(k, s)'
  <2>1. refresh[k] => given[k] # "nothing"
    BY <1>1, <1>3 DEF Fits, ChunkFits, RefreshFits
  <2>. QED  BY <2>1 DEF RecordFits, RefreshFits
<1>8. \A i \in Jobs : i.key = k => (i.generation # g /\ JobFits(k, r, i))
  BY <1>1, <1>2 DEF Fits, JobFits
<1>9. \A i \in Jobs' : i.key = k => JobFits(k, s, i)'
  <2>1. ASSUME NEW i \in Jobs, i.key = k PROVE JobFits(k, s, i)'
    BY <1>3, <1>4, <1>8, <2>1 DEF JobFits
  <2>2. s.phase = "Meshing" => JobFits(k, s, j)'
    BY <1>2, <1>3, <1>4, <1>5 DEF JobFits
  <2>. QED  BY <2>1, <2>2
<1>10. \A a \in Answers' : a.job.key = k => AnswerFits(k, s, a)'
  BY <1>3, <1>4, <1>8, JobTypes DEF IInv, Fit, AnswerFits
<1>11. \A result \in R : result.key = k => ResultFits(k, s, result)'
  BY <1>1, <1>2, <1>3, <1>4 DEF Fits, ResultFits
<1>. QED  BY <1>6, <1>7, <1>9, <1>10, <1>11 DEF Fits

\* The pool takes a prepared job, or refuses it and the record answers at once.
LEMMA DispatchFit ==
    ASSUME IInv, NEW k \in Keys, Dispatch(k)
    PROVE  Fit'
<1> DEFINE fresh == [NoRecord EXCEPT !.phase = "Meshing", !.generation = records[k].generation,
                                    !.roles = JobRoles(k), !.field = CaptureOf(k) # "None"]
           failed == [fresh EXCEPT !.phase = "MeshFailedReady"]
<1>1. /\ UNCHANGED <<roles, refresh, given, workers, completed, early, events>>
      /\ chunks[k].job /\ chunks' = [chunks EXCEPT ![k].job = FALSE]
      /\ CaptureOf(k) # "Blocked"
  BY DEF Dispatch
<1>2. /\ records[k] \in RecordType /\ chunks[k] \in ChunkType
      /\ JobRoles(k) \in SUBSET Roles
      /\ ("visual" \in roles[k] /\ ~refresh[k]) => "visual" \in JobRoles(k)
  BY DEF IInv, Fit, TypeOK, JobRoles
<1>3. /\ CaptureOf(k) \in {"None", "Reserved", "Deferred"}
      /\ "visual" \in JobRoles(k) => CaptureOf(k) # "None"
  BY <1>1 DEF CaptureOf
<1>4. PICK capture \in {"None", "Reserved", "Deferred"} :
          /\ capture = CaptureOf(k)
          /\ ("visual" \in roles[k] /\ ~refresh[k]) => capture # "None"
  BY <1>2, <1>3
<1>5. PICK j \in Job : /\ j = PreparedJob(k, capture) /\ j.key = k
                       /\ j.generation = chunks[k].generation
                       /\ j.roles = JobRoles(k) /\ j.capture = capture
  <2> DEFINE i == PreparedJob(k, capture)
  <2>1. /\ i.key = k /\ i.generation = chunks[k].generation
        /\ i.roles = JobRoles(k) /\ i.capture = capture
    BY DEF PreparedJob
  <2>2. i \in Job
    BY <1>2, <1>4 DEF PreparedJob, Job, ChunkType
  <2>. QED  BY <2>1, <2>2
<1>6. PICK s \in RecordType :
          /\ s = fresh /\ s.phase = "Meshing" /\ s.generation = records[k].generation
          /\ s.roles = JobRoles(k)
          /\ s.field <=> (capture # "None")
  <2>1. /\ fresh.phase = "Meshing" /\ fresh.generation = records[k].generation
        /\ fresh.roles = JobRoles(k) /\ fresh.field = (CaptureOf(k) # "None")
    BY <1>2 DEF NoRecord, RecordType
  <2>2. fresh \in RecordType
    BY <1>2 DEF NoRecord, RecordType, Phases
  <2>. QED  BY <1>4, <2>1, <2>2
<1>7. PICK queue \in {"background", "interactive"} :
          IF Cardinality(work[queue]) < QueueCapacity
          THEN /\ work' = [work EXCEPT ![queue] = @ \cup {j}]
               /\ records' = [records EXCEPT ![k] = s] /\ UNCHANGED results
          ELSE Submit([s EXCEPT !.phase = "MeshFailedReady"], k) /\ UNCHANGED work
  BY <1>4, <1>5, <1>6 DEF Dispatch
<1>8. /\ chunks' \in [Keys -> ChunkType]
      /\ \A q \in Keys \ {k} : chunks'[q] = chunks[q]
  BY <1>1 DEF IInv, Fit, TypeOK, ChunkType
<1>9. PICK R : R = ToSet(results)
  OBVIOUS
<1>10. CASE /\ work' = [work EXCEPT ![queue] = @ \cup {j}]
            /\ records' = [records EXCEPT ![k] = s] /\ UNCHANGED results
  <2>1. /\ work' \in [background : SUBSET Job, interactive : SUBSET Job]
        /\ work'.background \subseteq work.background \cup {j}
        /\ work'.interactive \subseteq work.interactive \cup {j}
    BY <1>10 DEF IInv, Fit, TypeOK
  <2>2. /\ records' \in [Keys -> RecordType] /\ records'[k] = s
        /\ \A q \in Keys \ {k} : records'[q] = records[q]
    BY <1>10 DEF IInv, Fit, TypeOK
  <2>3. TypeOK'
    BY <1>1, <1>8, <1>10, <2>1, <2>2 DEF IInv, Fit, TypeOK, Occupied
  <2>4. Jobs' \subseteq Jobs \cup {j} /\ Answers' = Answers
    BY <1>1, <2>1 DEF Jobs, Answers, Occupied, Ran, AnswerOf
  <2>5. Fits(k, s, R)'
    <3>1. j.roles = s.roles /\ (("visual" \in roles[k] /\ ~refresh[k]) => s.field)
      BY <1>4, <1>5, <1>6
    <3>2. (j.capture # "None") <=> s.field
      BY <1>5, <1>6
    <3>3. s.phase \in {"Meshing", "MeshFailedReady"}
      BY <1>6
    <3>. QED  BY <1>1, <1>5, <1>6, <1>9, <2>4, <3>1, <3>2, <3>3, DispatchedFits
  <2>6. KeyInv(k)'
    BY <1>9, <1>10, <2>2, <2>5 DEF KeyInv
  <2>7. ASSUME NEW q \in Keys \ {k} PROVE KeyInv(q)'
    <3>1. NothingNew(q)
      BY <1>1, <1>5, <1>10, <2>4 DEF NothingNew, SameWork, IInv, Fit, TypeOK
    <3>. QED  BY <1>1, <1>8, <2>2, <2>3, <3>1, KeepsKey
  <2>. QED  BY <2>3, <2>6, <2>7 DEF Fit
<1>11. CASE Submit([s EXCEPT !.phase = "MeshFailedReady"], k) /\ UNCHANGED work
  <2>1. PICK f \in RecordType :
            /\ f = [s EXCEPT !.phase = "MeshFailedReady"] /\ f.phase = "MeshFailedReady"
            /\ f.generation = records[k].generation /\ f.roles = JobRoles(k)
            /\ f.field <=> (capture # "None")
    <3> DEFINE f == [s EXCEPT !.phase = "MeshFailedReady"]
    <3>1. /\ f.phase = "MeshFailedReady" /\ f.generation = s.generation
          /\ f.roles = s.roles /\ f.field = s.field
      BY DEF RecordType
    <3>2. f \in RecordType
      BY DEF RecordType, Phases
    <3>. QED  BY <1>6, <3>1, <3>2
  <2>2. Submit(f, k)
    BY <1>11, <2>1
  <2>3. results' \in Seq(Result) /\ records' \in [Keys -> RecordType]
    BY <2>1, <2>2, SubmitEffect DEF IInv, Fit
  <2>4. TypeOK'
    BY <1>1, <1>8, <1>11, <2>3 DEF IInv, Fit, TypeOK, Occupied
  <2>5. Jobs' = Jobs /\ Answers' = Answers
    BY <1>1, <1>11 DEF Jobs, Answers, Occupied, Ran, AnswerOf
  <2>6. Fits(k, f, R)'
    <3>1. j.roles = f.roles /\ (("visual" \in roles[k] /\ ~refresh[k]) => f.field)
      BY <1>4, <1>5, <2>1
    <3>2. (j.capture # "None") <=> f.field
      BY <1>5, <2>1
    <3>3. Jobs' \subseteq Jobs \cup {j} /\ f.phase \in {"Meshing", "MeshFailedReady"}
      BY <2>1, <2>5
    <3>. QED  BY <1>1, <1>5, <1>9, <2>1, <2>5, <3>1, <3>2, <3>3, DispatchedFits
  <2>. QED  BY <1>1, <1>8, <1>9, <2>1, <2>2, <2>4, <2>5, <2>6, SubmittedFit
<1>. QED  BY <1>7, <1>10, <1>11

\* The scheduler drops a stale result; one of the chunk's generation ends its
\* meshing, and a failed one finds no record left.
LEMMA ApplyResultFit == ASSUME IInv, ApplyResult PROVE Fit'
<1>1. /\ UNCHANGED <<roles, refresh, given, records, work, workers, completed, early, events>>
      /\ results \in Seq(Result) /\ results # <<>> /\ results' = Tail(results)
  BY DEF ApplyResult, IInv, Fit, TypeOK
<1>2. PICK result \in Result : result = Head(results)
  BY <1>1, HeadTailElements
<1>3. results' \in Seq(Result) /\ ToSet(results) = ToSet(results') \cup {result}
  BY <1>1, <1>2, HeadTailElements, ToSetChanges
<1>4. PICK k \in Keys : k = result.key
  BY DEF Result
<1>5. chunks' = IF chunks[k].generation = result.generation /\ chunks[k].lifecycle = "Meshing"
                THEN [chunks EXCEPT ![k].lifecycle = IF result.ok THEN "Ready" ELSE "Failed"]
                ELSE chunks
  BY <1>2, <1>4 DEF ApplyResult
<1>6. Jobs' = Jobs /\ Answers' = Answers
  BY <1>1 DEF Jobs, Answers, Occupied, Ran, AnswerOf
<1>7. \A q \in Keys : NothingNew(q)
  <2>1. events' >= events
    BY <1>1 DEF IInv, Fit, TypeOK
  <2>. QED  BY <1>1, <1>3, <1>6, <2>1, FewerJobs
<1>8. CASE chunks' = chunks
  <2>1. TypeOK'
    BY <1>1, <1>3, <1>8 DEF IInv, Fit, TypeOK, Occupied
  <2>2. \A q \in Keys : KeyInv(q)'
    BY <1>1, <1>7, <1>8, <2>1, KeepsKey
  <2>. QED  BY <2>1, <2>2 DEF Fit
<1>9. CASE /\ chunks[k].generation = result.generation /\ chunks[k].lifecycle = "Meshing"
           /\ chunks' = [chunks EXCEPT ![k].lifecycle = IF result.ok THEN "Ready" ELSE "Failed"]
  <2>1. /\ chunks' \in [Keys -> ChunkType]
        /\ chunks'[k].lifecycle = IF result.ok THEN "Ready" ELSE "Failed"
        /\ chunks'[k].generation = chunks[k].generation /\ chunks'[k].job = chunks[k].job
        /\ \A q \in Keys \ {k} : chunks'[q] = chunks[q]
    BY <1>9 DEF IInv, Fit, TypeOK, ChunkType, Lifecycles
  <2>2. TypeOK'
    BY <1>1, <1>3, <2>1 DEF IInv, Fit, TypeOK, Occupied
  <2>3. \A q \in Keys \ {k} : KeyInv(q)'
    BY <1>1, <1>7, <2>1, <2>2, KeepsKey
  <2>4. KeyInv(k)'
    <3>0. PICK r \in RecordType : r = records[k]
      BY DEF IInv, Fit, TypeOK
    <3>1. Fits(k, r, ToSet(results)) /\ ResultFits(k, r, result)
      BY <1>3, <1>4, <3>0 DEF IInv, Fit, KeyInv, Fits
    <3>2. r = records'[k]
      BY <1>1, <3>0
    <3>3. /\ ~chunks[k].job
          /\ result.ok => r.generation = chunks[k].generation /\ r.phase = "Ready"
          /\ ~result.ok => r.generation # chunks[k].generation
      BY <1>9, <3>1 DEF ResultFits
    <3>4. IssuedFits(k, r)' /\ ChunkFits(k, r)'
      BY <1>1, <1>9, <2>1, <3>1, <3>3 DEF Fits, IssuedFits, ChunkFits
    <3>5. RecordFits(k, r)' /\ RefreshFits(k, r)'
      BY <1>1, <1>9, <2>1, <3>1, <3>3 DEF Fits, RecordFits, RefreshFits
    <3>6. \A j \in Jobs' : j.key = k => JobFits(k, r, j)'
      BY <1>1, <1>6, <2>1, <3>1, <3>3 DEF Fits, JobFits
    <3>7. \A a \in Answers' : a.job.key = k => AnswerFits(k, r, a)'
      BY <1>1, <1>6, <2>1, <3>1 DEF Fits, AnswerFits
    <3>8. ASSUME NEW e \in ToSet(results'), e.key = k PROVE ResultFits(k, r, e)'
      <4>1. ~SameVersion(e, result)
        <5>1. /\ Len(results) \in Nat \ {0} /\ result = results[1]
              /\ Len(results') = Len(results) - 1
              /\ \A n \in 1..Len(results) - 1 : results'[n] = results[n + 1]
          BY <1>1, <1>2, HeadTailElements
        <5>2. PICK n \in 1..Len(results') : results'[n] = e
          BY <1>3, <3>8, ToSetElements
        <5>3. /\ n + 1 \in 1..Len(results) /\ 1 \in 1..Len(results) /\ n + 1 # 1
              /\ e = results[n + 1]
          BY <5>1, <5>2
        <5>. QED  BY <5>1, <5>3 DEF IInv, ResultsDistinct
      <4>2. ResultFits(k, r, e)
        BY <1>3, <3>1, <3>8 DEF Fits
      <4>3. e.generation # chunks[k].generation
        BY <1>4, <1>9, <3>8, <4>1 DEF SameVersion
      <4>. QED  BY <1>1, <2>1, <4>2, <4>3 DEF ResultFits
    <3>. QED  BY <3>2, <3>4, <3>5, <3>6, <3>7, <3>8 DEF KeyInv, Fits
  <2>. QED  BY <2>2, <2>3, <2>4 DEF Fit
<1>. QED  BY <1>5, <1>8, <1>9

\* Where the pool's next completion stands.
LEMMA NextPlace ==
    ASSUME completed \in Seq(Answer), completed # <<>>
    PROVE  NextCompletion \in 1..Len(completed)
<1> DEFINE I == {i \in 1..Len(completed) : completed[i].job.lane}
<1>1. Len(completed) \in Nat \ {0}
  BY HeadTailElements
<1>2. NextCompletion = IF I = {} THEN 1 ELSE IF Min(I) = 0 THEN 1 ELSE Min(I)
  BY DEF NextCompletion, SelectInSeq
<1>3. I # {} => (Min(I) \in I /\ Min(I) \in 1..Len(completed))
  <2>1. I \subseteq Nat /\ I \subseteq 1..Len(completed)
    BY <1>1
  <2>. HIDE DEF I
  <2>. QED  BY <2>1, MinElement
<1>. HIDE DEF I
<1>. QED  BY <1>1, <1>2, <1>3

\* The record that an accepted answer leaves: its job was the only one of
\* its generation.
LEMMA AcceptedFits ==
    ASSUME IInv, NEW c \in Answers, NEW k \in Keys, k = c.job.key, Current(c.job),
           NEW s \in RecordType, s = AcceptedRecord(c), NEW R, R = ToSet(results),
           Jobs' \subseteq Jobs, Answers' \subseteq Answers,
           \A j \in Jobs' : ~SameVersion(j, c.job),
           UNCHANGED <<chunks, roles, refresh, given, early, events>>
    PROVE  /\ s.phase \in {"MeshReady", "MeshFailedReady", "AwaitingGpuCapture"}
           /\ Fits(k, s, R)'
<1>1. PICK r \in RecordType : r = records[k]
  BY DEF IInv, Fit, TypeOK
<1>2. c \in Answer /\ c.job \in Jobs /\ c.job \in Job
  BY JobTypes DEF IInv, Fit
<1>3. Fits(k, r, R)
  BY <1>1 DEF IInv, Fit, KeyInv
<1>4. /\ r.generation = c.job.generation /\ r.phase = "Meshing"
      /\ chunks[k].generation = r.generation /\ chunks[k].lifecycle = "Meshing"
  BY <1>1 DEF Current
<1>5. /\ c.job.roles = r.roles /\ ((c.job.capture # "None") <=> r.field)
      /\ (c.ok /\ c.job.capture = "Reserved") => given[k] = "captured"
      /\ c.early => (r.delivered \/ <<k, r.generation>> \in ToSet(early))
      /\ ("visual" \in roles[k]) => (r.field \/ given[k] # "nothing")
      /\ ~chunks[k].job
      /\ refresh[k] => given[k] # "nothing"
  BY <1>2, <1>3, <1>4 DEF Fits, JobFits, AnswerFits, RecordFits, RefreshFits
<1> DEFINE deferred == c.job.capture = "Deferred"
           delivered == r.delivered \/ Delivers(c)
           kept == [r EXCEPT !.deferred = deferred, !.mesh = TRUE, !.delivered = delivered]
<1>6. /\ deferred \in BOOLEAN /\ delivered \in BOOLEAN
      /\ (c.ok /\ ~c.early /\ "collision" \in r.roles) => delivered
  BY <1>1, <1>2, <1>5 DEF Delivers, RecordType, Answer, Job
<1>. HIDE DEF deferred, delivered
<1>7. s = IF ~c.ok THEN [r EXCEPT !.phase = "MeshFailedReady"]
          ELSE IF kept.deferred /\ "visual" \in c.job.roles
               THEN [kept EXCEPT !.phase = "AwaitingGpuCapture"]
               ELSE [kept EXCEPT !.phase = "MeshReady"]
  BY <1>1 DEF AcceptedRecord, deferred, delivered
<1>8. /\ s.phase \in {"MeshReady", "MeshFailedReady", "AwaitingGpuCapture"}
      /\ s.generation = r.generation /\ s.roles = r.roles /\ s.field = r.field
      /\ c.ok => (s.deferred = deferred /\ s.delivered = delivered)
      /\ ~c.ok => (s.phase = "MeshFailedReady" /\ s.delivered = r.delivered)
  BY <1>7 DEF RecordType
<1>9. r.delivered => s.delivered
  BY <1>6, <1>8 DEF delivered
<1>10. IssuedFits(k, s)' /\ ChunkFits(k, s)'
  BY <1>3, <1>4, <1>5, <1>8 DEF Fits, IssuedFits, ChunkFits
<1>11. RecordFits(k, s)' /\ RefreshFits(k, s)'
  <2>1. (c.ok /\ s.field) => (s.deferred \/ given[k] # "nothing")
    BY <1>2, <1>5, <1>8 DEF deferred, Job
  <2>2. (c.ok /\ "collision" \in s.roles)
        => (s.delivered \/ <<k, s.generation>> \in ToSet(early))
    BY <1>2, <1>5, <1>6, <1>8, <1>9 DEF Answer
  <2>. QED  BY <1>2, <1>4, <1>5, <1>8, <2>1, <2>2 DEF RecordFits, RefreshFits, Answer
<1>12. \A j \in Jobs' : j.key = k => JobFits(k, s, j)'
  BY <1>3, <1>4, <1>8 DEF Fits, JobFits, SameVersion
<1>13. \A a \in Answers' : a.job.key = k => AnswerFits(k, s, a)'
  BY <1>3, <1>8, <1>9 DEF Fits, AnswerFits
<1>14. \A result \in R : result.key = k => ResultFits(k, s, result)'
  BY <1>3, <1>4, <1>8 DEF Fits, ResultFits
<1>. QED  BY <1>8, <1>10, <1>11, <1>12, <1>13, <1>14 DEF Fits

\* A stale answer is dropped, a current one is the record's.
LEMMA AcceptCompletionFit == ASSUME IInv, AcceptCompletion PROVE Fit'
<1>1. /\ UNCHANGED <<chunks, roles, refresh, given, work, early, events>>
      /\ completed \in Seq(Answer) /\ completed # <<>>
      /\ workers \in [Workers -> WorkerType]
  BY DEF AcceptCompletion, IInv, Fit, TypeOK
<1>2. PICK i \in 1..Len(completed) : i = NextCompletion
  BY <1>1, NextPlace
<1>3. PICK c \in Answers : c = completed[i] /\ i \in 1..Len(completed)
  BY DEF Answers
<1>4. PICK k \in Keys : k = c.job.key
  BY JobTypes DEF IInv, Fit, Job, Answer
<1>5. PICK s : s = AcceptedRecord(c)
  OBVIOUS
<1>6. /\ completed' = RemoveAt(completed, i)
      /\ \/ \E w \in Workers : workers[w].at = "asleep" /\ workers' = Woken(w)
         \/ UNCHANGED workers
      /\ IF Current(c.job)
         THEN IF Pending(s.phase)
              THEN Submit(s, k)
              ELSE records' = [records EXCEPT ![k] = s] /\ UNCHANGED results
         ELSE UNCHANGED <<records, results>>
  BY <1>2, <1>3, <1>4, <1>5 DEF AcceptCompletion
<1>7. /\ workers' \in [Workers -> WorkerType]
      /\ \A w \in Workers : /\ Occupied(w)' = Occupied(w) /\ Ran(w)' = Ran(w)
                            /\ AnswerOf(w)' = AnswerOf(w) /\ workers'[w].job = workers[w].job
  <2>1. CASE UNCHANGED workers
    BY <1>1, <2>1 DEF Occupied, Ran, AnswerOf
  <2>2. CASE \E w \in Workers : workers[w].at = "asleep" /\ workers' = Woken(w)
    <3>1. PICK w \in Workers : /\ workers[w].at = "asleep"
                               /\ workers' = [workers EXCEPT ![w].at = "executed"]
      BY <2>2, <1>1 DEF Woken
    <3>2. /\ workers' \in [Workers -> WorkerType] /\ workers'[w].at = "executed"
          /\ workers'[w].job = workers[w].job /\ workers'[w].ok = workers[w].ok
          /\ workers'[w].early = workers[w].early
          /\ \A v \in Workers \ {w} : workers'[v] = workers[v]
      BY <1>1, <3>1 DEF WorkerType, Places
    <3>. QED  BY <3>1, <3>2 DEF Occupied, Ran, AnswerOf
  <2>. QED  BY <1>6, <2>1, <2>2
<1>8. /\ completed' \in Seq(Answer)
      /\ \A a \in 1..Len(completed') : \E b \in 1..Len(completed) : completed'[a] = completed[b]
  <2>1. PICK t : t = RemoveAt(completed, i)
    OBVIOUS
  <2>2. t \in Seq(Answer)
    BY <1>1, <2>1, RemoveAtElements
  <2>3. \A a \in 1..Len(t) : \E b \in 1..Len(completed) : t[a] = completed[b]
    BY <1>1, <2>1, RemoveAtPlaces
  <2>. QED  BY <1>6, <2>1, <2>2, <2>3
<1>9. Jobs' \subseteq Jobs /\ Answers' \subseteq Answers
  <2>1. \A a \in 1..Len(completed') : \E b \in 1..Len(completed) :
            /\ completed'[a] = completed[b] /\ completed'[a].job = completed[b].job
    BY <1>8
  <2>2. Jobs' \subseteq Jobs
    BY <1>1, <1>7, <2>1 DEF Jobs
  <2>3. Answers' \subseteq Answers
    BY <1>1, <1>7, <2>1 DEF Answers
  <2>. QED  BY <2>2, <2>3
<1>10. PICK R : R = ToSet(results)
  OBVIOUS
<1>11. CASE Current(c.job)
  <2>1. s \in RecordType
    <3>1. PICK r \in RecordType : r = records[k]
      BY DEF IInv, Fit, TypeOK
    <3>2. Delivers(c) \in BOOLEAN /\ (c.job.capture = "Deferred") \in BOOLEAN
      BY DEF Delivers
    <3>3. PICK kept \in RecordType : kept = [r EXCEPT !.deferred = c.job.capture = "Deferred",
                                                      !.mesh = TRUE, !.delivered = @ \/ Delivers(c)]
      BY <3>2 DEF RecordType
    <3>4. \A phase \in Phases : /\ [r EXCEPT !.phase = phase] \in RecordType
                                /\ [kept EXCEPT !.phase = phase] \in RecordType
      BY DEF RecordType
    <3>5. s = IF ~c.ok THEN [r EXCEPT !.phase = "MeshFailedReady"]
              ELSE IF kept.deferred /\ "visual" \in c.job.roles
                   THEN [kept EXCEPT !.phase = "AwaitingGpuCapture"]
                   ELSE [kept EXCEPT !.phase = "MeshReady"]
      BY <1>4, <1>5, <3>1, <3>3 DEF AcceptedRecord
    <3>. QED  BY <3>4, <3>5 DEF Phases
  <2>2. /\ s.phase \in {"MeshReady", "MeshFailedReady", "AwaitingGpuCapture"}
        /\ Fits(k, s, R)'
    <3>1. \A j \in Jobs' : ~SameVersion(j, c.job)
      <4>1. \A m \in 1..Len(completed') : \E b \in 1..Len(completed) :
                completed'[m] = completed[b] /\ b # i
        BY <1>1, <1>6, RemoveAtPlaces
      <4>2. PoolDistinct
        BY DEF IInv
      <4>3. \A m \in 1..Len(completed') : ~SameVersion(completed'[m].job, c.job)
        BY <1>3, <4>1, <4>2 DEF PoolDistinct
      <4>4. \A j \in Queued : ~SameVersion(j, c.job)
        BY <1>3, <4>2 DEF PoolDistinct
      <4>5. \A w \in Workers : Occupied(w) => ~SameVersion(workers[w].job, c.job)
        BY <1>3, <4>2 DEF PoolDistinct
      <4>. QED  BY <1>1, <1>7, <4>3, <4>4, <4>5 DEF Jobs, Queued
    <3>. QED  BY <1>1, <1>4, <1>5, <1>9, <1>10, <1>11, <2>1, <3>1, AcceptedFits
  <2>3. CASE Pending(s.phase)
    <3>1. Submit(s, k) /\ s.phase \in {"MeshReady", "MeshFailedReady"}
      BY <1>6, <1>11, <2>3 DEF Pending
    <3>2. results' \in Seq(Result) /\ records' \in [Keys -> RecordType]
      BY <2>1, <3>1, SubmitEffect DEF IInv, Fit
    <3>3. TypeOK'
      BY <1>1, <1>7, <1>8, <3>2 DEF IInv, Fit, TypeOK
    <3>. QED  BY <1>1, <1>9, <1>10, <2>1, <2>2, <3>1, <3>3, SubmittedFit
  <2>4. CASE ~Pending(s.phase)
    <3>1. records' = [records EXCEPT ![k] = s] /\ UNCHANGED results
      BY <1>6, <1>11, <2>4
    <3>2. /\ records' \in [Keys -> RecordType] /\ records'[k] = s
          /\ \A q \in Keys \ {k} : records'[q] = records[q]
      BY <2>1, <3>1 DEF IInv, Fit, TypeOK
    <3>3. TypeOK'
      BY <1>1, <1>7, <1>8, <3>1, <3>2 DEF IInv, Fit, TypeOK
    <3>4. KeyInv(k)'
      BY <1>10, <2>2, <3>1, <3>2 DEF KeyInv
    <3>5. \A q \in Keys : NothingNew(q)
      <4>1. events' >= events
        BY <1>1 DEF IInv, Fit, TypeOK
      <4>. QED  BY <1>1, <1>9, <3>1, <4>1, FewerJobs
    <3>6. \A q \in Keys \ {k} : KeyInv(q)'
      BY <1>1, <3>2, <3>3, <3>5, KeepsKey
    <3>. QED  BY <3>3, <3>4, <3>6 DEF Fit
  <2>. QED  BY <2>3, <2>4
<1>12. CASE ~Current(c.job)
  <2>1. UNCHANGED <<records, results>>
    BY <1>6, <1>12
  <2>2. TypeOK'
    BY <1>1, <1>7, <1>8, <2>1 DEF IInv, Fit, TypeOK
  <2>. QED  BY <1>1, <1>9, <2>1, <2>2, PoolFit
<1>. QED  BY <1>11, <1>12

\* A record that still fits, when its chunk and the pool stay as they are.
LEMMA StillFits ==
    ASSUME NEW k \in Keys, NEW r, NEW R, Fits(k, r, R), Jobs' = Jobs, Answers' = Answers,
           UNCHANGED <<chunks, roles, refresh, given, early, events>>
    PROVE  Fits(k, r, R)'
BY DEF Fits, IssuedFits, ChunkFits, RecordFits, RefreshFits, JobFits, AnswerFits, ResultFits

LEMMA FlushResultFit ==
    ASSUME IInv, NEW k \in Keys, FlushResult(k)
    PROVE  Fit'
<1>1. /\ UNCHANGED <<chunks, roles, refresh, given, work, workers, completed, early, events>>
      /\ Pending(records[k].phase) /\ Submit(records[k], k)
  BY DEF FlushResult
<1>2. PICK r \in RecordType : r = records[k]
  BY DEF IInv, Fit, TypeOK
<1>3. r.phase \in {"MeshReady", "MeshFailedReady"} /\ Submit(r, k)
  BY <1>1, <1>2 DEF Pending
<1>4. results' \in Seq(Result) /\ records' \in [Keys -> RecordType]
  BY <1>3, SubmitEffect DEF IInv, Fit
<1>5. TypeOK'
  BY <1>1, <1>4 DEF IInv, Fit, TypeOK, Occupied
<1>6. Jobs' = Jobs /\ Answers' = Answers
  BY <1>1 DEF Jobs, Answers, Occupied, Ran, AnswerOf
<1>7. PICK R : R = ToSet(results)
  OBVIOUS
<1>8. Fits(k, r, R)'
  BY <1>1, <1>2, <1>6, <1>7, StillFits DEF IInv, Fit, KeyInv
<1>. QED  BY <1>1, <1>3, <1>5, <1>6, <1>7, <1>8, SubmittedFit

\* A deferred capture is submitted: from here on the generation was captured.
LEMMA SubmitDeferredFit ==
    ASSUME IInv, NEW k \in Keys, SubmitDeferred(k)
    PROVE  Fit'
<1>1. UNCHANGED <<chunks, roles, refresh, work, workers, completed, early, events>>
  BY DEF SubmitDeferred
<1>2. PICK r \in RecordType : r = records[k]
  BY DEF IInv, Fit, TypeOK
<1>3. r.phase \in {"AwaitingGpuCapture", "Ready"}
  BY <1>2 DEF SubmitDeferred, Deferrable
<1>4. PICK s \in RecordType :
          /\ s = Taken(r) /\ s.phase = r.phase /\ s.generation = r.generation
          /\ s.roles = r.roles /\ s.field = r.field /\ s.delivered = r.delivered
  <2> DEFINE s == [r EXCEPT !.deferred = FALSE]
  <2>1. s \in RecordType
    BY DEF RecordType
  <2>2. /\ s.phase = r.phase /\ s.generation = r.generation /\ s.roles = r.roles
        /\ s.field = r.field /\ s.delivered = r.delivered
    BY DEF RecordType
  <2>. QED  BY <2>1, <2>2 DEF Taken
<1>5. Jobs' = Jobs /\ Answers' = Answers
  BY <1>1 DEF Jobs, Answers, Occupied, Ran, AnswerOf
<1>6. PICK R : R = ToSet(results)
  OBVIOUS
<1>7. /\ given' \in [Keys -> {"nothing", "captured", "abandoned"}] /\ given'[k] = "captured"
      /\ \A q \in Keys \ {k} : given'[q] = given[q]
  BY DEF SubmitDeferred, IInv, Fit, TypeOK
<1>8. ASSUME NEW t \in RecordType, t.phase \in {"MeshReady", "Ready"},
             t.phase = "Ready" <=> r.phase = "Ready",
             t.generation = r.generation, t.roles = r.roles, t.field = r.field,
             t.delivered = r.delivered
      PROVE  Fits(k, t, R)'
  <2>1. Fits(k, r, R)
    BY <1>2, <1>6 DEF IInv, Fit, KeyInv
  <2>2. IssuedFits(k, t)' /\ ChunkFits(k, t)'
    BY <1>1, <1>3, <1>8, <2>1 DEF Fits, IssuedFits, ChunkFits
  <2>3. RecordFits(k, t)' /\ RefreshFits(k, t)'
    BY <1>1, <1>3, <1>7, <1>8, <2>1 DEF Fits, RecordFits, RefreshFits
  <2>4. \A j \in Jobs' : j.key = k => JobFits(k, t, j)'
    BY <1>1, <1>3, <1>5, <1>8, <2>1 DEF Fits, JobFits
  <2>5. \A a \in Answers' : a.job.key = k => AnswerFits(k, t, a)'
    BY <1>1, <1>5, <1>7, <1>8, <2>1 DEF Fits, AnswerFits
  <2>6. \A result \in R : result.key = k => ResultFits(k, t, result)'
    BY <1>1, <1>3, <1>8, <2>1 DEF Fits, ResultFits
  <2>. QED  BY <2>2, <2>3, <2>4, <2>5, <2>6 DEF Fits
<1>9. CASE r.phase = "Ready"
  <2>1. records' = [records EXCEPT ![k] = s] /\ UNCHANGED results
    BY <1>2, <1>4, <1>9 DEF SubmitDeferred
  <2>2. /\ records' \in [Keys -> RecordType] /\ records'[k] = s
        /\ \A q \in Keys \ {k} : records'[q] = records[q]
    BY <2>1 DEF IInv, Fit, TypeOK
  <2>3. TypeOK'
    BY <1>1, <1>7, <2>1, <2>2 DEF IInv, Fit, TypeOK, Occupied
  <2>4. KeyInv(k)'
    <3>1. Fits(k, s, R)'
      BY <1>4, <1>8, <1>9
    <3>. QED  BY <1>6, <2>1, <2>2, <3>1 DEF KeyInv
  <2>5. \A q \in Keys : NothingNew(q)
    BY <1>1, <1>5, <2>1, FewerJobs DEF IInv, Fit, TypeOK
  <2>6. \A q \in Keys \ {k} : KeyInv(q)'
    BY <1>1, <1>7, <2>2, <2>3, <2>5, KeepsKey
  <2>. QED  BY <2>3, <2>4, <2>6 DEF Fit
<1>10. CASE r.phase # "Ready"
  <2>1. PICK t \in RecordType :
            /\ t = [s EXCEPT !.phase = "MeshReady"] /\ t.phase = "MeshReady"
            /\ t.generation = r.generation /\ t.roles = r.roles /\ t.field = r.field
            /\ t.delivered = r.delivered
    <3> DEFINE t == [s EXCEPT !.phase = "MeshReady"]
    <3>1. /\ t.phase = "MeshReady" /\ t.generation = s.generation /\ t.roles = s.roles
          /\ t.field = s.field /\ t.delivered = s.delivered
      BY DEF RecordType
    <3>2. t \in RecordType
      BY DEF RecordType, Phases
    <3>. QED  BY <1>4, <3>1, <3>2
  <2>2. Submit(t, k)
    BY <1>2, <1>4, <1>10, <2>1 DEF SubmitDeferred
  <2>3. results' \in Seq(Result) /\ records' \in [Keys -> RecordType]
    BY <2>1, <2>2, SubmitEffect DEF IInv, Fit
  <2>4. TypeOK'
    BY <1>1, <1>7, <2>3 DEF IInv, Fit, TypeOK, Occupied
  <2>5. Fits(k, t, R)'
    BY <1>8, <1>10, <2>1
  <2>. QED  BY <1>1, <1>5, <1>6, <1>7, <2>1, <2>2, <2>4, <2>5, SubmittedFit
<1>. QED  BY <1>9, <1>10

-----------------------------------------------------------------------------
LEMMA FitNext ==
    ASSUME IInv, [Next]_vars
    PROVE  Fit'
<1>1. CASE Demand
  <2>1. {"visual", "collision"} = Roles
    BY DEF Roles
  <2>. QED
    BY <1>1, <2>1, RequestFit, PromoteFit, WithdrawFit, RemoveChunkFit, RepairFit,
       ReprioritizeFit DEF Demand
<1>2. CASE RunLoop
  BY <1>2, SampledFit, DispatchFit, SubmitDeferredFit, FlushResultFit, ConsumeMeshFit,
     AcceptEarlyFit, AcceptCompletionFit, ApplyResultFit DEF RunLoop
<1>3. CASE Stop
  BY <1>3, ElsewhereFit DEF Stop
<1>4. CASE Shutdown
  BY <1>4, BeginShutdownFit, NotifyAllFit DEF Shutdown
<1>5. ASSUME NEW w \in Workers, Worker(w) PROVE Fit'
  BY <1>5, TakeJobFit, ExecuteFit, CompleteFit, WaitFit DEF Worker
<1>6. CASE GpuDone
  BY <1>6, ElsewhereFit DEF GpuDone
<1>7. CASE UNCHANGED vars
  BY <1>7, ElsewhereFit DEF vars
<1>. QED  BY <1>1, <1>2, <1>3, <1>4, <1>5, <1>6, <1>7 DEF Next

-----------------------------------------------------------------------------
(* One job, and one result, of a generation at a time.                     *)

\* A step that only drops jobs of the pool, or moves the workers with theirs.
LEMMA FewerDistinct ==
    ASSUME PoolDistinct,
           work'.background \subseteq work.background,
           work'.interactive \subseteq work.interactive,
           \A w \in Workers : Occupied(w)' => Occupied(w) /\ workers'[w].job = workers[w].job,
           \A m \in 1..Len(completed') : \E a \in 1..Len(completed) : completed'[m] = completed[a],
           \A m, n \in 1..Len(completed') :
               SameVersion(completed'[m].job, completed'[n].job) => m = n
    PROVE  PoolDistinct'
<1>1. Queued' \subseteq Queued
  BY DEF Queued
<1>2. \A i, j \in Queued' : SameVersion(i, j) => i = j
  BY <1>1 DEF PoolDistinct
<1>3. \A i \in work'.background, j \in work'.interactive : ~SameVersion(i, j)
  BY DEF PoolDistinct
<1>4. \A v, w \in Workers :
          (Occupied(v)' /\ Occupied(w)' /\ SameVersion(workers'[v].job, workers'[w].job)) => v = w
  BY DEF PoolDistinct
<1>5. \A i \in Queued', w \in Workers : Occupied(w)' => ~SameVersion(i, workers'[w].job)
  BY <1>1 DEF PoolDistinct
<1>6. \A i \in Queued', n \in 1..Len(completed') : ~SameVersion(i, completed'[n].job)
  BY <1>1 DEF PoolDistinct
<1>7. \A w \in Workers, n \in 1..Len(completed') :
          Occupied(w)' => ~SameVersion(workers'[w].job, completed'[n].job)
  BY DEF PoolDistinct
<1>. QED  BY <1>2, <1>3, <1>4, <1>5, <1>6, <1>7 DEF PoolDistinct, SameVersion

\* A step that leaves the pool's workers and completions alone.
LEMMA FewerQueued ==
    ASSUME IInv, UNCHANGED <<workers, completed>>,
           \/ UNCHANGED work
           \/ \E k \in Keys : work' = Cancelled(k)
           \/ work' = [background |-> {}, interactive |-> {}]
    PROVE  PoolDistinct'
<1>1. work \in [background : SUBSET Job, interactive : SUBSET Job]
  BY DEF IInv, Fit, TypeOK
<1>2. work'.background \subseteq work.background /\ work'.interactive \subseteq work.interactive
  <2>1. ASSUME NEW k \in Keys, work' = Cancelled(k)
        PROVE  /\ work'.background \subseteq work.background
               /\ work'.interactive \subseteq work.interactive
    BY <2>1 DEF Cancelled
  <2>. QED  BY <1>1, <2>1
<1>. QED  BY <1>2, FewerDistinct DEF IInv, PoolDistinct, Occupied

\* A step in which workers wait, wake or leave.
LEMMA WorkersDistinct ==
    ASSUME IInv, UNCHANGED <<work, completed>>,
           \A w \in Workers : Occupied(w)' => Occupied(w) /\ workers'[w].job = workers[w].job
    PROVE  PoolDistinct'
BY FewerDistinct DEF IInv, PoolDistinct

\* A dispatched job is the first of its generation, or of its refresh.
LEMMA DispatchDistinct ==
    ASSUME IInv, NEW k \in Keys, Dispatch(k)
    PROVE  PoolDistinct'
<1>1. UNCHANGED <<workers, completed>> /\ chunks[k].job
  BY DEF Dispatch
<1>2. PICK j : j = PreparedJob(k, CaptureOf(k))
  OBVIOUS
<1>3. j.key = k /\ j.generation = chunks[k].generation
  BY <1>2 DEF PreparedJob
<1>4. \/ UNCHANGED work
      \/ \E queue \in {"background", "interactive"} : work' = [work EXCEPT ![queue] = @ \cup {j}]
  BY <1>2 DEF Dispatch
<1>5. CASE UNCHANGED work
  BY <1>1, <1>5, FewerQueued
<1>6. ASSUME NEW queue \in {"background", "interactive"},
             work' = [work EXCEPT ![queue] = @ \cup {j}]
      PROVE  PoolDistinct'
  <2>1. ASSUME NEW i \in Jobs PROVE ~SameVersion(i, j) /\ ~SameVersion(j, i)
    BY <1>1, <1>3 DEF SameVersion, IInv, Fit, KeyInv, Fits, JobFits
  <2>2. /\ work'.background \in {work.background, work.background \cup {j}}
        /\ work'.interactive \in {work.interactive, work.interactive \cup {j}}
        /\ work'.background = work.background \/ work'.interactive = work.interactive
    BY <1>6 DEF IInv, Fit, TypeOK
  <2>3. /\ work.background \subseteq Jobs /\ work.interactive \subseteq Jobs
        /\ \A w \in Workers : Occupied(w) => workers[w].job \in Jobs
        /\ \A n \in 1..Len(completed) : completed[n].job \in Jobs
    BY DEF Jobs
  <2>4. \A w \in Workers : Occupied(w)' = Occupied(w)
    BY <1>1 DEF Occupied
  <2>5. PoolDistinct
    BY DEF IInv
  <2>6. Queued' \subseteq Queued \cup {j} /\ Queued \subseteq Jobs
    BY <2>2, <2>3 DEF Queued
  <2>7. \A i, l \in Queued' : SameVersion(i, l) => i = l
    BY <2>1, <2>5, <2>6 DEF PoolDistinct
  <2>8. \A i \in work'.background, l \in work'.interactive : ~SameVersion(i, l)
    BY <2>1, <2>2, <2>3, <2>5 DEF PoolDistinct
  <2>9. \A i \in Queued', w \in Workers : Occupied(w) => ~SameVersion(i, workers[w].job)
    BY <2>1, <2>3, <2>5, <2>6 DEF PoolDistinct
  <2>10. \A i \in Queued', n \in 1..Len(completed) : ~SameVersion(i, completed[n].job)
    BY <2>1, <2>3, <2>5, <2>6 DEF PoolDistinct
  <2>. QED
    BY <1>1, <2>4, <2>5, <2>7, <2>8, <2>9, <2>10 DEF PoolDistinct, SameVersion
<1>. QED  BY <1>4, <1>5, <1>6

\* A job that follows its chunk's priority keeps its generation.
LEMMA ReprioritizeDistinct ==
    ASSUME IInv, NEW k \in Keys, NEW p \in Priorities, Reprioritize(k, p)
    PROVE  PoolDistinct'
<1> DEFINE mine(j) == Version(j) = <<k, chunks[k].generation>>
           background(j) == IF mine(j)
                            THEN [j EXCEPT !.priority = p,
                                           !.prewarm = /\ j.capture # "None" /\ k \in Lod0
                                                       /\ "visual" \in j.roles
                                                       /\ p >= FocusPriority]
                            ELSE j
           interactive(j) == IF mine(j) THEN [j EXCEPT !.priority = p] ELSE j
<1>1. /\ UNCHANGED <<workers, completed>>
      /\ work' = [background |-> {background(j) : j \in work.background},
                  interactive |-> {interactive(j) : j \in work.interactive}]
  BY DEF Reprioritize
<1>2. ASSUME NEW j \in Job
      PROVE  /\ background(j).key = j.key /\ background(j).generation = j.generation
             /\ interactive(j).key = j.key /\ interactive(j).generation = j.generation
  BY DEF Job
<1>. HIDE DEF background, interactive
<1>3. work.background \subseteq Job /\ work.interactive \subseteq Job
  BY DEF IInv, Fit, TypeOK
<1>4. /\ \A i \in work'.background : \E a \in work.background :
            i = background(a) /\ i.key = a.key /\ i.generation = a.generation
      /\ \A i \in work'.interactive : \E a \in work.interactive :
            i = interactive(a) /\ i.key = a.key /\ i.generation = a.generation
  BY <1>1, <1>2, <1>3
<1>5. PoolDistinct
  BY DEF IInv
<1>6. \A w \in Workers : Occupied(w)' = Occupied(w)
  BY <1>1 DEF Occupied
<1>7. \A i \in work'.background, j \in work'.interactive : ~SameVersion(i, j)
  BY <1>4, <1>5 DEF PoolDistinct, SameVersion
<1>8. \A i, j \in Queued' : SameVersion(i, j) => i = j
  <2>1. \A i, j \in work'.background : SameVersion(i, j) => i = j
    BY <1>4, <1>5 DEF PoolDistinct, SameVersion, Queued
  <2>2. \A i, j \in work'.interactive : SameVersion(i, j) => i = j
    BY <1>4, <1>5 DEF PoolDistinct, SameVersion, Queued
  <2>. QED  BY <1>7, <2>1, <2>2 DEF Queued, SameVersion
<1>9. \A i \in Queued', w \in Workers : Occupied(w) => ~SameVersion(i, workers[w].job)
  BY <1>4, <1>5 DEF PoolDistinct, SameVersion, Queued
<1>10. \A i \in Queued', n \in 1..Len(completed) : ~SameVersion(i, completed[n].job)
  BY <1>4, <1>5 DEF PoolDistinct, SameVersion, Queued
<1>. QED
  BY <1>1, <1>5, <1>6, <1>7, <1>8, <1>9, <1>10 DEF PoolDistinct, SameVersion

\* A job goes from its queue to a worker.
LEMMA TakeJobDistinct ==
    ASSUME IInv, NEW w \in Workers, TakeJob(w)
    PROVE  PoolDistinct'
<1>1. /\ work \in [background : SUBSET Job, interactive : SUBSET Job]
      /\ workers \in [Workers -> WorkerType] /\ UNCHANGED completed
  BY DEF TakeJob, IInv, Fit, TypeOK
<1>2. PICK queue \in {"background", "interactive"}, j \in Job :
          /\ j \in work[queue] /\ work' = [work EXCEPT ![queue] = @ \ {j}]
          /\ workers' = [workers EXCEPT ![w].at = "executing", ![w].job = j]
  BY <1>1 DEF TakeJob, QueueOf
<1>3. /\ workers'[w].job = j
      /\ \A v \in Workers \ {w} : workers'[v] = workers[v] /\ Occupied(v)' = Occupied(v)
  BY <1>1, <1>2 DEF WorkerType, Occupied
<1>4. /\ work'.background \subseteq work.background
      /\ work'.interactive \subseteq work.interactive
      /\ j \in Queued /\ Queued' \subseteq Queued
      /\ j \notin work'.background \/ j \in work.interactive
      /\ j \notin work'.interactive \/ j \in work.background
  BY <1>1, <1>2 DEF Queued
<1>5. PoolDistinct
  BY DEF IInv
<1>6. j \notin Queued'
  BY <1>4, <1>5 DEF PoolDistinct, Queued, SameVersion
<1>7. \A i \in Queued' : ~SameVersion(i, j)
  BY <1>4, <1>5, <1>6 DEF PoolDistinct
<1>8. \A i, l \in Queued' : SameVersion(i, l) => i = l
  BY <1>4, <1>5 DEF PoolDistinct
<1>9. \A i \in work'.background, l \in work'.interactive : ~SameVersion(i, l)
  BY <1>4, <1>5 DEF PoolDistinct
<1>10. \A u, v \in Workers :
          (Occupied(u)' /\ Occupied(v)' /\ SameVersion(workers'[u].job, workers'[v].job)) => u = v
  BY <1>3, <1>4, <1>5 DEF PoolDistinct, SameVersion
<1>11. \A i \in Queued', v \in Workers : Occupied(v)' => ~SameVersion(i, workers'[v].job)
  BY <1>3, <1>4, <1>5, <1>7 DEF PoolDistinct
<1>12. \A v \in Workers, n \in 1..Len(completed) :
          Occupied(v)' => ~SameVersion(workers'[v].job, completed[n].job)
  BY <1>3, <1>4, <1>5 DEF PoolDistinct
<1>. QED
  BY <1>1, <1>4, <1>5, <1>8, <1>9, <1>10, <1>11, <1>12 DEF PoolDistinct, SameVersion

\* A job goes from its worker to the completions, or leaves with it.
LEMMA CompleteDistinct ==
    ASSUME IInv, NEW w \in Workers, Complete(w)
    PROVE  PoolDistinct'
<1>1. /\ workers \in [Workers -> WorkerType] /\ completed \in Seq(Answer)
      /\ UNCHANGED work /\ Occupied(w) /\ workers[w].job \in Job
  BY DEF Complete, Occupied, IInv, Fit, TypeOK
<1>2. CASE /\ completed' = Append(completed, [job |-> workers[w].job, ok |-> workers[w].ok,
                                              early |-> workers[w].early])
           /\ workers' = [workers EXCEPT ![w] = NoWork]
  <2> DEFINE a == [job |-> workers[w].job, ok |-> workers[w].ok, early |-> workers[w].early]
  <2>1. a \in Answer /\ a.job = workers[w].job
    BY <1>1 DEF Answer, WorkerType
  <2>. HIDE DEF a
  <2>2. /\ Len(completed) \in Nat /\ Len(completed') = Len(completed) + 1
        /\ \A i \in 1..Len(completed) : completed'[i] = completed[i]
        /\ completed'[Len(completed) + 1] = a
    BY <1>1, <1>2, <2>1, AppendElements DEF a
  <2>3. /\ ~Occupied(w)'
        /\ \A v \in Workers \ {w} : workers'[v] = workers[v] /\ Occupied(v)' = Occupied(v)
    BY <1>1, <1>2 DEF NoWork, Occupied
  <2>4. \A n \in 1..Len(completed') :
            \/ n \in 1..Len(completed) /\ completed'[n] = completed[n]
            \/ n = Len(completed) + 1 /\ completed'[n].job = workers[w].job
    BY <2>1, <2>2
  <2>5. PoolDistinct
    BY DEF IInv
  <2>6. \A m, n \in 1..Len(completed') :
            SameVersion(completed'[m].job, completed'[n].job) => m = n
    BY <1>1, <2>4, <2>5 DEF PoolDistinct, SameVersion
  <2>7. \A i \in Queued, n \in 1..Len(completed') : ~SameVersion(i, completed'[n].job)
    BY <1>1, <2>4, <2>5 DEF PoolDistinct
  <2>8. \A v \in Workers, n \in 1..Len(completed') :
            Occupied(v)' => ~SameVersion(workers'[v].job, completed'[n].job)
    BY <1>1, <2>3, <2>4, <2>5 DEF PoolDistinct, SameVersion
  <2>9. /\ \A i \in Queued, v \in Workers : Occupied(v)' => ~SameVersion(i, workers'[v].job)
        /\ \A u, v \in Workers :
              (Occupied(u)' /\ Occupied(v)' /\ SameVersion(workers'[u].job, workers'[v].job))
                => u = v
    BY <2>3, <2>5 DEF PoolDistinct
  <2>10. Queued' = Queued
    BY <1>1 DEF Queued
  <2>. QED
    BY <1>1, <2>5, <2>6, <2>7, <2>8, <2>9, <2>10 DEF PoolDistinct, SameVersion
<1>3. CASE \E at \in {"falling", "exited"} : /\ workers' = [workers EXCEPT ![w].at = at]
                                            /\ UNCHANGED completed
  BY <1>1, <1>3, WorkersDistinct DEF Occupied, WorkerType
<1>. QED  BY <1>2, <1>3 DEF Complete

LEMMA AcceptCompletionDistinct ==
    ASSUME IInv, AcceptCompletion
    PROVE  PoolDistinct'
<1>1. /\ workers \in [Workers -> WorkerType] /\ completed \in Seq(Answer) /\ completed # <<>>
      /\ UNCHANGED work /\ completed' = RemoveAt(completed, NextCompletion)
      /\ \/ \E w \in Workers : workers[w].at = "asleep" /\ workers' = Woken(w)
         \/ UNCHANGED workers
  BY DEF AcceptCompletion, IInv, Fit, TypeOK
<1>2. PICK i \in 1..Len(completed) : i = NextCompletion
  BY <1>1, NextPlace
<1>3. \A w \in Workers : Occupied(w)' => Occupied(w) /\ workers'[w].job = workers[w].job
  <2>1. CASE UNCHANGED workers
    BY <2>1 DEF Occupied
  <2>2. ASSUME NEW v \in Workers, workers[v].at = "asleep", workers' = Woken(v)
        PROVE  \A w \in Workers : Occupied(w)' => Occupied(w) /\ workers'[w].job = workers[w].job
    BY <1>1, <2>2 DEF Woken, Occupied, WorkerType
  <2>. QED  BY <1>1, <2>1, <2>2
<1>4. \A m \in 1..Len(completed') : \E a \in 1..Len(completed) :
          completed'[m] = completed[a] /\ ((a = m /\ m < i) \/ (a = m + 1 /\ a > i))
  BY <1>1, <1>2, RemoveAtPlaces
<1>5. \A m, n \in 1..Len(completed') :
          SameVersion(completed'[m].job, completed'[n].job) => m = n
  <2>1. SUFFICES ASSUME NEW m \in 1..Len(completed'), NEW n \in 1..Len(completed'),
                        SameVersion(completed'[m].job, completed'[n].job)
                 PROVE  m = n
    OBVIOUS
  <2>2. PICK a \in 1..Len(completed) :
            completed'[m] = completed[a] /\ ((a = m /\ m < i) \/ (a = m + 1 /\ a > i))
    BY <1>4
  <2>3. PICK b \in 1..Len(completed) :
            completed'[n] = completed[b] /\ ((b = n /\ n < i) \/ (b = n + 1 /\ b > i))
    BY <1>4
  <2>4. a = b
    BY <2>1, <2>2, <2>3 DEF IInv, PoolDistinct
  <2>. QED  BY <2>2, <2>3, <2>4
<1>. QED  BY <1>1, <1>3, <1>4, <1>5, FewerDistinct DEF IInv

LEMMA PoolDistinctNext ==
    ASSUME IInv, [Next]_vars
    PROVE  PoolDistinct'
<1>1. workers \in [Workers -> WorkerType]
  BY DEF IInv, Fit, TypeOK
<1>2. CASE Demand
  <2>1. ASSUME NEW k \in Keys, NEW demand \in Demands, NEW release \in BOOLEAN,
               RequestChunk(k, demand[1], demand[2], release)
        PROVE  PoolDistinct'
    BY <2>1, FewerQueued DEF RequestChunk, Release
  <2>2. ASSUME NEW k \in Keys, NEW role \in Roles, Promote(k, role)
        PROVE  PoolDistinct'
    BY <2>2, FewerQueued DEF Promote, Release, Refreshed
  <2>3. ASSUME NEW k \in Keys, NEW role \in Roles, Withdraw(k, role)
        PROVE  PoolDistinct'
    BY <2>3, FewerQueued DEF Withdraw
  <2>4. ASSUME NEW k \in Keys, RemoveChunk(k) PROVE PoolDistinct'
    BY <2>4, FewerQueued DEF RemoveChunk, Release
  <2>5. ASSUME NEW k \in Keys, Repair(k) PROVE PoolDistinct'
    BY <2>5, FewerQueued DEF Repair, Release, Refreshed
  <2>6. {"visual", "collision"} = Roles
    BY DEF Roles
  <2>. QED
    BY <1>2, <2>1, <2>2, <2>3, <2>4, <2>5, <2>6, ReprioritizeDistinct DEF Demand
<1>3. CASE RunLoop
  <2>1. ASSUME NEW k \in Keys, Sampled(k) \/ SubmitDeferred(k) \/ FlushResult(k) \/ ConsumeMesh(k)
        PROVE  PoolDistinct'
    BY <2>1, FewerQueued DEF Sampled, SubmitDeferred, FlushResult, ConsumeMesh
  <2>2. CASE AcceptEarly \/ ApplyResult
    BY <2>2, FewerQueued DEF AcceptEarly, ApplyResult
  <2>. QED  BY <1>3, <2>1, <2>2, DispatchDistinct, AcceptCompletionDistinct DEF RunLoop
<1>4. CASE Stop \/ BeginShutdown \/ GpuDone \/ UNCHANGED vars
  BY <1>4, FewerQueued DEF Stop, BeginShutdown, GpuDone, vars
<1>5. CASE NotifyAll
  BY <1>1, <1>5, WorkersDistinct DEF NotifyAll, Occupied, WorkerType
<1>6. ASSUME NEW w \in Workers, Execute(w) \/ FallAsleep(w) \/ IdleExit(w) PROVE PoolDistinct'
  <2>1. UNCHANGED <<work, completed>>
    BY <1>6 DEF Execute, FallAsleep, IdleExit
  <2>2. CASE Execute(w)
    <3>1. PICK ok \in BOOLEAN, sent \in BOOLEAN :
              workers' = [workers EXCEPT ![w].at = "executed", ![w].ok = ok, ![w].early = sent]
      BY <2>2, ExecuteEffect
    <3>2. workers[w].at = "executing"
      BY <2>2 DEF Execute
    <3>. QED  BY <1>1, <2>1, <3>1, <3>2, WorkersDistinct DEF Occupied, WorkerType
  <2>3. CASE FallAsleep(w) \/ IdleExit(w)
    <3>1. \/ workers[w].at = "falling" /\ workers' = [workers EXCEPT ![w].at = "asleep"]
          \/ workers' = [workers EXCEPT ![w].at = "exited"]
      BY <2>3 DEF FallAsleep, IdleExit
    <3>. QED  BY <1>1, <2>1, <3>1, WorkersDistinct DEF Occupied, WorkerType
  <2>. QED  BY <1>6, <2>2, <2>3
<1>7. ASSUME NEW w \in Workers, Worker(w) PROVE PoolDistinct'
  BY <1>6, <1>7, TakeJobDistinct, CompleteDistinct DEF Worker
<1>. QED  BY <1>2, <1>3, <1>4, <1>5, <1>7 DEF Next, Shutdown

\* A record answers at most once: no result of its generation waits.
LEMMA SubmitDistinct ==
    ASSUME IInv, NEW k \in Keys, NEW r \in RecordType, Submit(r, k),
           records[k].phase # "Ready", r.generation = records[k].generation
    PROVE  ResultsDistinct'
<1>1. results \in Seq(Result) /\ Len(results) \in Nat
  BY DEF IInv, Fit, TypeOK
<1>2. CASE results' = results
  BY <1>2 DEF IInv, ResultsDistinct
<1>3. CASE \E ok \in BOOLEAN :
              results' = Append(results, [key |-> k, generation |-> r.generation, ok |-> ok])
  <2>1. PICK e \in Result : /\ e.key = k /\ e.generation = r.generation
                            /\ results' = Append(results, e)
    BY <1>3 DEF Result, RecordType
  <2>2. \A n \in 1..Len(results) : results[n] \in ToSet(results)
    BY <1>1, ToSetElements
  <2>3. \A n \in 1..Len(results) : ~SameVersion(results[n], e) /\ ~SameVersion(e, results[n])
    BY <1>1, <2>1, <2>2 DEF SameVersion, IInv, Fit, KeyInv, Fits, ResultFits
  <2>4. /\ Len(results') = Len(results) + 1
        /\ \A n \in 1..Len(results) : results'[n] = results[n]
        /\ results'[Len(results) + 1] = e
    BY <1>1, <2>1, AppendElements
  <2>5. \A n \in 1..Len(results') :
            \/ n \in 1..Len(results) /\ results'[n] = results[n]
            \/ n = Len(results) + 1 /\ results'[n] = e
    BY <1>1, <2>4
  <2>. QED  BY <2>3, <2>5 DEF IInv, ResultsDistinct, SameVersion
<1>. QED  BY <1>2, <1>3 DEF Submit, Submitted

\* The results that a removal keeps stand at places of their own.
LEMMA KeptDistinct ==
    ASSUME IInv, NEW k \in Keys, RemoveChunk(k)
    PROVE  ResultsDistinct'
<1>1. PICK N : N = Cardinality(Retained(k))
  OBVIOUS
<1>2. results \in Seq(Result) /\ Len(results) \in Nat
  BY DEF IInv, Fit, TypeOK
<1>3. Retained(k) \subseteq 1..Len(results)
  BY <1>2 DEF Retained
<1>4. N \in Nat
  <2>1. IsFiniteSet(1..Len(results))
    BY <1>2, FS_Interval
  <2>. QED  BY <1>1, <1>3, <2>1, FS_Subset, FS_CardinalityType
<1>5. PICK f \in [1..N -> Retained(k)] :
          /\ \A m, n \in 1..N : m < n => f[m] < f[n]
          /\ results' = [i \in 1..N |-> results[f[i]]]
  BY <1>1 DEF RemoveChunk, Ascending
<1>6. Len(results') = N /\ \A n \in 1..N : results'[n] = results[f[n]]
  BY <1>4, <1>5
<1>7. ASSUME NEW m \in 1..N, NEW n \in 1..N, SameVersion(results'[m], results'[n])
      PROVE  m = n
  <2>1. f[m] \in 1..Len(results) /\ f[n] \in 1..Len(results)
    BY <1>3, <1>5
  <2>2. f[m] = f[n]
    BY <1>6, <1>7, <2>1 DEF IInv, ResultsDistinct
  <2>3. f[m] \in Int /\ f[n] \in Int
    BY <1>2, <2>1
  <2>. QED  BY <1>4, <1>5, <2>2, <2>3
<1>. QED  BY <1>6, <1>7 DEF ResultsDistinct, SameVersion

LEMMA ResultsDistinctNext ==
    ASSUME IInv, [Next]_vars
    PROVE  ResultsDistinct'
<1>1. UNCHANGED results => ResultsDistinct'
  BY DEF IInv, ResultsDistinct
<1>2. CASE Demand
  BY <1>1, <1>2, KeptDistinct
     DEF Demand, RequestChunk, Promote, Withdraw, Repair, Reprioritize
<1>3. CASE RunLoop
  <2>1. ASSUME NEW k \in Keys, Dispatch(k) PROVE ResultsDistinct'
    <3>1. PICK s : s = [NoRecord EXCEPT !.phase = "MeshFailedReady",
                                        !.generation = records[k].generation,
                                        !.roles = JobRoles(k), !.field = CaptureOf(k) # "None"]
      OBVIOUS
    <3>2. /\ s \in RecordType /\ s.generation = records[k].generation
          /\ Submit(s, k) \/ UNCHANGED results
      BY <2>1, <3>1
         DEF Dispatch, NoRecord, RecordType, Phases, JobRoles, IInv, Fit, TypeOK
    <3>3. records[k].phase # "Ready"
      BY <2>1 DEF Dispatch, IInv, Fit, KeyInv, Fits, ChunkFits
    <3>. QED  BY <1>1, <3>2, <3>3, SubmitDistinct
  <2>2. ASSUME NEW k \in Keys, SubmitDeferred(k) PROVE ResultsDistinct'
    <3>1. PICK r \in RecordType : r = records[k]
      BY DEF IInv, Fit, TypeOK
    <3> DEFINE t == [r EXCEPT !.deferred = FALSE]
               s == [t EXCEPT !.phase = "MeshReady"]
    <3>2. /\ t \in RecordType /\ t = Taken(r)
          /\ s \in RecordType /\ s.generation = r.generation
      BY DEF Taken, RecordType, Phases
    <3>. HIDE DEF s, t
    <3>3. UNCHANGED results \/ (r.phase # "Ready" /\ Submit(s, k))
      BY <2>2, <3>1, <3>2 DEF SubmitDeferred, s
    <3>. QED  BY <1>1, <3>1, <3>2, <3>3, SubmitDistinct
  <2>3. ASSUME NEW k \in Keys, FlushResult(k) PROVE ResultsDistinct'
    BY <2>3, SubmitDistinct DEF FlushResult, Pending, IInv, Fit, TypeOK
  <2>4. CASE AcceptCompletion
    <3>1. completed \in Seq(Answer) /\ completed # <<>>
      BY <2>4 DEF AcceptCompletion, IInv, Fit, TypeOK
    <3>2. PICK i \in 1..Len(completed) : i = NextCompletion
      BY <3>1, NextPlace
    <3>3. PICK c \in Answer : c = completed[i]
      BY <3>1
    <3>4. PICK k \in Keys : k = c.job.key
      BY <3>3 DEF Answer, Job
    <3>5. \/ UNCHANGED results
          \/ Current(c.job) /\ Submit(AcceptedRecord(c), k)
      BY <2>4, <3>2, <3>3, <3>4 DEF AcceptCompletion
    <3>6. CASE Current(c.job) /\ Submit(AcceptedRecord(c), k)
      <4>1. PICK r \in RecordType : r = records[k]
        BY DEF IInv, Fit, TypeOK
      <4> DEFINE kept == [r EXCEPT !.deferred = c.job.capture = "Deferred", !.mesh = TRUE,
                                   !.delivered = @ \/ Delivers(c)]
      <4>2. kept \in RecordType /\ kept.generation = r.generation
        <5>1. (r.delivered \/ Delivers(c)) \in BOOLEAN /\ (c.job.capture = "Deferred") \in BOOLEAN
          BY DEF Delivers
        <5>. QED  BY <5>1 DEF RecordType
      <4>3. \A phase \in Phases :
                /\ [r EXCEPT !.phase = phase] \in RecordType
                /\ [r EXCEPT !.phase = phase].generation = r.generation
                /\ [kept EXCEPT !.phase = phase] \in RecordType
                /\ [kept EXCEPT !.phase = phase].generation = r.generation
        <5>. HIDE DEF kept
        <5>. QED  BY <4>2 DEF RecordType
      <4>4. /\ AcceptedRecord(c) \in RecordType
            /\ AcceptedRecord(c).generation = r.generation
        BY <3>4, <4>1, <4>2, <4>3 DEF AcceptedRecord, Phases
      <4>. QED  BY <3>4, <3>6, <4>1, <4>4, SubmitDistinct DEF Current
    <3>. QED  BY <1>1, <3>5, <3>6
  <2>5. CASE ApplyResult
    <3>1. results \in Seq(Result) /\ results # <<>> /\ results' = Tail(results)
      BY <2>5 DEF ApplyResult, IInv, Fit, TypeOK
    <3>2. /\ Len(results) \in Nat \ {0} /\ Len(results') = Len(results) - 1
          /\ \A n \in 1..Len(results) - 1 : results'[n] = results[n + 1]
      BY <3>1, HeadTailElements
    <3>3. ASSUME NEW m \in 1..Len(results'), NEW n \in 1..Len(results'),
                 SameVersion(results'[m], results'[n])
          PROVE  m = n
      <4>1. m + 1 \in 1..Len(results) /\ n + 1 \in 1..Len(results)
        BY <3>2
      <4>2. m + 1 = n + 1
        BY <3>2, <3>3, <4>1 DEF IInv, ResultsDistinct
      <4>. QED  BY <3>2, <4>2
    <3>. QED  BY <3>3 DEF ResultsDistinct, SameVersion
  <2>. QED
    BY <1>1, <1>3, <2>1, <2>2, <2>3, <2>4, <2>5 DEF RunLoop, Sampled, ConsumeMesh, AcceptEarly
<1>4. ASSUME NEW w \in Workers, Worker(w) PROVE ResultsDistinct'
  BY <1>1, <1>4, Zenon DEF Worker, TakeJob, Execute, Complete, FallAsleep, IdleExit
<1>5. CASE Stop \/ Shutdown \/ GpuDone \/ UNCHANGED vars
  BY <1>1, <1>5 DEF Stop, Shutdown, BeginShutdown, NotifyAll, GpuDone, vars
<1>. QED  BY <1>2, <1>3, <1>4, <1>5 DEF Next

-----------------------------------------------------------------------------
LEMMA NextInv == IInv /\ [Next]_vars => IInv'
<1>. SUFFICES ASSUME IInv, [Next]_vars PROVE IInv'
  OBVIOUS
<1>1. Fit'
  BY FitNext
<1>. QED  BY <1>1, PoolDistinctNext, ResultsDistinctNext DEF IInv

\* Inductive: the life of every generation, through demands, refreshes, the
\* pool and the capture queue: one job at a time, one result at a time.
THEOREM Inductive == Spec => []IInv
BY InitInv, NextInv, PTL DEF Spec

\* ReadyIsDrawable: a chunk that is Ready while its viewers want it drawn was
\* captured, or still holds its capture, or lost it to a refresh of a record
\* that held one, whatever promotions, withdrawals, refreshes and new
\* generations met it on its way (owned_generation_accepts_role_promotion,
\* begin_collision_only_refresh).
THEOREM ReadyIsDrawable == Spec => []VisualServed
<1>1. IInv => VisualServed
  <2>. SUFFICES ASSUME IInv, NEW k \in Keys, records[k].phase = "Ready",
                       records[k].generation = chunks[k].generation, "visual" \in roles[k]
                PROVE  records[k].deferred \/ given[k] \in {"captured", "abandoned"}
    BY DEF VisualServed
  <2>1. RecordFits(k, records[k]) /\ given[k] \in {"nothing", "captured", "abandoned"}
    BY DEF IInv, Fit, TypeOK, KeyInv, Fits
  <2>. QED  BY <2>1 DEF RecordFits
<1>. QED  BY <1>1, Inductive, PTL

\* CollisionDelivered: no collision is lost between the worker that built it
\* and the record that owed it, with the early queue full or not, also when a
\* refresh meshes the generation again (accept_prepared_mesh_completion).
THEOREM CollisionDelivered == Spec => []CollisionNotLost
<1>1. IInv => CollisionNotLost
  BY DEF IInv, Fit, KeyInv, Fits, RecordFits, CollisionNotLost
<1>. QED  BY <1>1, Inductive, PTL
=============================================================================
