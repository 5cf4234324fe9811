----------------------------- MODULE LodPlanner -----------------------------
(* The LOD map and the balanced planner (src/addons/world_transvoxel/src/    *)
(* streaming/wt_lod_map.cpp, wt_balanced_lod_planner.cpp): pure functions    *)
(* from viewers, a drawn cut and what of it is visible to the next cut.  A   *)
(* plan is [leaves, priority]; its transition masks are a function of its    *)
(* leaves.  The collision flag of a visual demand is left out.               *)
EXTENDS ChunkKeys, FiniteSetsExt, SequencesExt

CONSTANTS
  Capacity,        \* active_capacity_
  ColdRoots,       \* kColdRootAdmissionLimit
  Hysteresis,      \* kWtLodRefinementHysteresisChunks
  GlobalCoverage   \* global_coarse_lod_coverage_

ASSUME PlannerAssumption ==
  /\ {Capacity, ColdRoots} \subseteq Nat \ {0}
  /\ Hysteresis \in Nat
  /\ GlobalCoverage \in BOOLEAN

FamilyGrowth == 1      \* leaves a split adds: two children for one (seven in three axes)
PriorityBand == 1000   \* kWtLodPriorityBand
NoPlan == [leaves |-> {}, priority |-> [key \in {} |-> 0]]
Leaves(status, leaves) == [status |-> status, leaves |-> leaves]

----------------------------------------------------------------------------
(* The LOD map. *)

CoarserNeighbours(leaf, leaves) ==
  {n \in leaves : Lod(n) > Lod(leaf) /\ \E side \in NextTo(leaf) : Encloses(n, side)}

LodMapStatus(leaves) ==
  IF Cardinality(leaves) > Capacity THEN "CapacityExceeded"
  ELSE IF \E a, b \in leaves : a # b /\ Overlap(a, b) THEN "OverlappingLeaves"
  ELSE IF \E leaf \in leaves : \E n \in CoarserNeighbours(leaf, leaves) : Lod(n) - Lod(leaf) > 1
       THEN "LodDifferenceExceeded"
  ELSE "Ok"

\* The sides of a leaf that have a finer neighbour.
TransitionMask(leaf, leaves) ==
  {side \in NextTo(leaf) : \E fine \in leaves :
      Lod(fine) < Lod(leaf) /\ Encloses(side, fine)
      /\ \E touching \in NextTo(fine) : Encloses(leaf, touching)}

----------------------------------------------------------------------------
(* Splitting and balancing. *)

RefineLeaf(leaves, leaf) ==
  LET family == RefinableChildren(leaf) IN
  IF Lod(leaf) = 0 THEN Leaves("InvalidLodMap", leaves)
  ELSE IF family = {} THEN Leaves("IncompleteHierarchy", leaves)
  ELSE IF Cardinality(leaves) - 1 + Cardinality(family) > Capacity
       THEN Leaves("CapacityExceeded", leaves)
  ELSE Leaves("Ok", (leaves \ {leaf}) \cup family)

\* The coarse side of the first pair of neighbours more than one level apart.
UnbalancedCoarseLeaf(leaves) ==
  LET far(leaf) == {n \in CoarserNeighbours(leaf, leaves) : Lod(n) - Lod(leaf) > 1}
  IN Least(far(Least({leaf \in leaves : far(leaf) # {}})))

RECURSIVE BalanceWithin(_, _)
BalanceOn(next, passes) ==
  IF next.status # "Ok" THEN next
  ELSE IF passes = 0 THEN Leaves("InvalidLodMap", next.leaves)
  ELSE BalanceWithin(next.leaves, passes - 1)

BalanceWithin(leaves, passes) ==
  LET status == LodMapStatus(leaves) IN
  IF status = "Ok" THEN Leaves("Ok", leaves)
  ELSE IF status # "LodDifferenceExceeded" THEN Leaves("InvalidLodMap", leaves)
  ELSE BalanceOn(RefineLeaf(leaves, UnbalancedCoarseLeaf(leaves)), passes)

Balance(leaves) ==
  BalanceWithin(leaves, (Capacity - Cardinality(leaves)) \div FamilyGrowth)

----------------------------------------------------------------------------
(* plan: the cut the viewers ask for.  A viewer is [at, radius, lod, refine]. *)

HighestLod(viewers) == Max({0} \cup {v.lod : v \in viewers})

ShouldRefine(key, viewers, refined, forced) ==
  /\ Lod(key) # 0
  /\ \/ \E leaf \in forced : Encloses(key, leaf) /\ key # leaf
     \/ \E v \in viewers :
          /\ v.refine # 0
          /\ DistanceTo(v.at, key) <
               Extent(Lod(key) - 1) * (v.refine + (IF key \in refined THEN Hysteresis ELSE 0))

RECURSIVE Subtree(_, _, _, _)
Subtree(key, viewers, refined, forced) ==
  LET family == RefinableChildren(key) IN
  IF ShouldRefine(key, viewers, refined, forced) /\ family # {}
  THEN UNION {Subtree(child, viewers, refined, forced) : child \in family}
  ELSE {key}

PlanRoots(viewers, lod, forced) ==
  LET coarse == {key \in Catalog : Lod(key) = lod} IN
  (IF GlobalCoverage /\ Cardinality(coarse) <= Capacity THEN coarse ELSE {})
  \cup UNION {ViewerRoots(v.at, lod, v.radius) : v \in viewers}
  \cup {AncestorAt(leaf, lod) : leaf \in forced}

\* Coarse chunks first, then the nearest.
DemandPriority(key, viewers) ==
  Lod(key) * PriorityBand + PriorityBand - 1
    - Min({PriorityBand - 1} \cup {DistanceTo(v.at, key) : v \in viewers})

Unplanned(status) == [status |-> status, plan |-> NoPlan]

Prioritised(balanced, viewers) ==
  IF balanced.status # "Ok" THEN Unplanned(balanced.status)
  ELSE [status |-> "Ok",
        plan |-> [leaves |-> balanced.leaves,
                  priority |-> [key \in balanced.leaves |-> DemandPriority(key, viewers)]]]

PlanOf(leaves, viewers) ==
  IF Cardinality(leaves) > Capacity THEN Unplanned("CapacityExceeded")
  ELSE Prioritised(Balance(leaves), viewers)

\* drawn: the visual leaves of the desired set, for hysteresis.
Plan(viewers, drawn, forced) ==
  LET lod == HighestLod(viewers)
      refined == UNION {ProperAncestors(leaf, lod) : leaf \in drawn}
  IN IF viewers = {} THEN [status |-> "Ok", plan |-> NoPlan]
     ELSE PlanOf(UNION {Subtree(root, viewers, refined, forced) :
                          root \in PlanRoots(viewers, lod, forced)}, viewers)

----------------------------------------------------------------------------
(* What staging knows of a target. *)

RootOf(key, lod) == IF Lod(key) < lod THEN AncestorAt(key, lod) ELSE key
TargetRoots(target, lod) == {RootOf(key, lod) : key \in target.leaves}

Below(key, target) == {leaf \in target.leaves : leaf # key /\ Encloses(key, leaf)}
DeepestLod(key, target) == Min({Lod(leaf) : leaf \in Below(key, target)})
Highest(keys, target) == Max({target.priority[key] : key \in keys})
DeepestPriority(key, target) ==
  Highest({leaf \in Below(key, target) : Lod(leaf) = DeepestLod(key, target)}, target)

\* append_staged_demand: a demand of its own, that of the target leaves it
\* overlaps, or the one it was retained with; 0 when there is none.
StagedPriority(key, target, current) ==
  LET over == {leaf \in target.leaves : Overlap(key, leaf)} IN
  IF key \in target.leaves THEN target.priority[key]
  ELSE IF over # {} THEN Highest(over, target)
  ELSE IF key \in current.leaves THEN current.priority[key] ELSE 0

Staged(leaves, target, current) ==
  LET priority == [key \in leaves |-> StagedPriority(key, target, current)] IN
  IF leaves = target.leaves
  THEN [status |-> "Ok", plan |-> target, complete |-> TRUE]
  ELSE IF \E key \in leaves : priority[key] = 0
       THEN [status |-> "InvalidLodMap", plan |-> NoPlan, complete |-> FALSE]
  ELSE [status |-> "Ok", plan |-> [leaves |-> leaves, priority |-> priority], complete |-> FALSE]

Unstaged(status) == [status |-> status, plan |-> NoPlan, complete |-> FALSE]
=============================================================================
