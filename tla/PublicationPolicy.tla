--------------------------- MODULE PublicationPolicy ---------------------------
(***************************************************************************)
(* The geometry of atomic publication: which chunks must be swapped in and *)
(* out together, and whether the new ones cover the old.  Chunks lie on a  *)
(* line: Cover gives the cells of a chunk, Lod its level, and each chunk   *)
(* has a "Low" and a "High" face (the code has three axes and six faces,   *)
(* and the same rules on each).  A transition mask is the set of faces on  *)
(* which a chunk is sewn to a neighbour one level finer.                   *)
(***************************************************************************)
EXTENDS Integers, FiniteSets, FiniteSetsExt

CONSTANTS Keys, Lod, Cover

ASSUME GeometryAssumption ==
    /\ Keys \subseteq Nat \ {0} /\ IsFiniteSet(Keys)
    /\ \A k \in Keys : Lod[k] \in Nat /\ Cover[k] # {} /\ Cover[k] \subseteq Nat

Face == {"Low", "High"}

Opposite(f) == IF f = "Low" THEN "High" ELSE "Low"

Overlapping == {jk \in Keys \X Keys : Cover[jk[1]] \cap Cover[jk[2]] # {}}

Overlaps(j, k) == <<j, k>> \in Overlapping

\* n touches face f of k.
Touches(k, f, n) ==
    IF f = "Low" THEN Max(Cover[n]) + 1 = Min(Cover[k]) ELSE Max(Cover[k]) + 1 = Min(Cover[n])

Adjacent == [k \in Keys |-> [f \in Face |-> {n \in Keys : Touches(k, f, n)}]]

FaceNeighbours(k, f, lod) == {n \in Adjacent[k][f] : Lod[n] = lod}

\* The transition mask a plan gives a chunk: its faces that meet finer chunks.
PlannedMasks ==
    [plan \in SUBSET Keys |-> [k \in Keys |->
        {f \in Face : FaceNeighbours(k, f, Lod[k] - 1) \cap plan # {}}]]

PlannedMask(plan, k) == PlannedMasks[plan][k]

-----------------------------------------------------------------------------
(* Overlap components and coverage.                                        *)

\* An old face neighbour more than one level away is retired with a replacement.
UnsafeFace(r, old) ==
    /\ \E f \in Face : Touches(r, f, old)
    /\ Lod[r] - Lod[old] > 1 \/ Lod[old] - Lod[r] > 1

\* As many rounds as there are keys reach the fixed point of a closure.
Rounds == 1..Cardinality(Keys)

\* build_indexed_publication_region: a replacement requires the retirements it
\* overlaps or touches unsafely, a retirement requires the replacements over it.
Regions ==
    [seed \in Keys |-> [replacements \in SUBSET Keys |-> [retirements \in SUBSET Keys |->
        LET grow(acc) ==
                LET out == acc.out \cup {o \in retirements : \E r \in acc.in :
                                            Overlaps(r, o) \/ UnsafeFace(r, o)}
                IN  [out |-> out,
                     in |-> acc.in \cup {r \in replacements : \E o \in out : Overlaps(r, o)}]
        IN  FoldSet(LAMBDA i, acc : grow(acc), [in |-> {seed}, out |-> {}], Rounds)]]]

Region(seed, replacements, retirements) == Regions[seed][replacements][retirements]

\* valid_non_overlapping_region_replacements and replacement_set_covers
CompleteCoverage(in, out) ==
    /\ \A j, k \in in : j # k => ~Overlaps(j, k)
    /\ out \cap in = {}
    /\ \A o \in out : Cover[o] \subseteq UNION {Cover[k] : k \in in}

-----------------------------------------------------------------------------
(* wt_build_gpu_chunk_publication_cohort: the closure of a seed under       *)
(* overlaps and boundary dependencies.  bound[k] is k's                    *)
(* WtGpuPublicationBoundary: its target mask, whether what is drawn        *)
(* already has it (compatible) and whether that content is current; keys   *)
(* with no boundary are not in DOMAIN bound.                               *)

\* The faces where k meets a chunk of the given lod that has a boundary.
Neighbours(k, f, lod, bound) == FaceNeighbours(k, f, lod) \cap DOMAIN bound

\* On each face the neighbour of the same level is looked for first, then the
\* coarser one, then the finer ones.
Meets(k, f, bound) ==
    LET same == Neighbours(k, f, Lod[k], bound)
        coarse == Neighbours(k, f, Lod[k] + 1, bound)
    IN  IF same # {} THEN same ELSE IF coarse # {} THEN coarse
        ELSE Neighbours(k, f, Lod[k] - 1, bound)

\* Variant: a coarser neighbour is never a dependency.
RequiresNotCoarse(k, bound) ==
    UNION {{n \in Meets(k, f, bound) :
                LET sewn == Opposite(f) \in bound[n].mask
                IN  CASE Lod[n] = Lod[k] -> sewn \/ ~bound[n].current
                      [] Lod[n] > Lod[k] -> FALSE
                      [] OTHER -> ~bound[n].compatible \/ sewn} : f \in Face}

\* The neighbours that must be in the cohort with k.
Requires(k, bound) ==
    UNION {{n \in Meets(k, f, bound) :
                LET sewn == Opposite(f) \in bound[n].mask
                IN  CASE Lod[n] = Lod[k] -> sewn \/ ~bound[n].current
                      [] Lod[n] > Lod[k] -> ~bound[n].compatible \/ ~sewn
                      [] OTHER -> ~bound[n].compatible \/ sewn} : f \in Face}

\* The chunks whose target mask does not fit the face between k and n.
Unfit(k, f, n, bound) ==
    LET own == f \in bound[k].mask
        other == Opposite(f) \in bound[n].mask
    IN  (IF Lod[n] < Lod[k] <=> own THEN {} ELSE {k})
        \cup (IF Lod[n] > Lod[k] <=> other THEN {} ELSE {n})

Cohort(seed, candidates, retirements, bound) ==
    LET open(k) == k \in DOMAIN bound /\ ~bound[k].compatible
        swapped == {k \in Keys : open(k) /\ \E o \in retirements : Overlaps(k, o)}
        region(k) == Region(k, candidates, retirements)
        needs == [k \in Keys |-> IF ~open(k) THEN {}
                    ELSE Requires(k, bound) \cup IF k \in swapped THEN region(k).in ELSE {}]
        reached[i \in Nat] ==
            IF i = 0 THEN {seed}
            ELSE LET before == reached[i - 1] IN before \cup UNION {needs[k] : k \in before}
        selected == reached[Cardinality(Keys)]
        worked == {k \in selected : open(k)}
        blockers == (worked \cap swapped) \ candidates
    IN  [built |-> seed \in DOMAIN bound /\ blockers = {},
         in |-> selected, blockers |-> blockers,
         out |-> UNION {region(k).out : k \in worked \cap swapped},
         waiting |-> UNION {UNION {UNION {Unfit(k, f, n, bound) : n \in Meets(k, f, bound)}
                                   : f \in Face} : k \in worked}]
=============================================================================
