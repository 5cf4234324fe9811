------------------------------ MODULE LodStaging ------------------------------
(* From the accepted cut towards the target, one family at a time: the       *)
(* stage_toward, stage_foreground and project_foreground_target of           *)
(* src/addons/world_transvoxel/src/streaming/wt_balanced_lod_planner.cpp.    *)
(* Their result is [status, plan, complete].                                 *)
EXTENDS LodPlanner

\* A pass has the knobs of stage_toward: [changes, preferred, only, unready,
\* coarsen], where "preferred" are the LOD0 keys to split towards first.

----------------------------------------------------------------------------
(* Where a pass starts: the current leaves, a few cold roots of the target,  *)
(* and without the obsolete leaves once the target is wholly drawn.          *)

ColdRootBefore(a, b, target, lod, preferred) ==
  LET focused(root) == \E key \in preferred : Encloses(root, key)
      priority(root) == Highest({leaf \in target.leaves : RootOf(leaf, lod) = root}, target)
  IN IF focused(a) # focused(b) THEN focused(a)
     ELSE IF priority(a) # priority(b) THEN priority(a) > priority(b)
     ELSE Precedes(a, b)

AdmittedRoots(target, current, lod, preferred) ==
  LET cold == {root \in TargetRoots(target, lod) :
                 ~\E leaf \in current.leaves : Overlap(root, leaf)}
      earlier(root) == {o \in cold \ {root} : ColdRootBefore(o, root, target, lod, preferred)}
  IN {root \in cold : Cardinality(earlier(root)) < ColdRoots}

TargetDrawn(target, leaves, ready, lod) ==
  \A root \in TargetRoots(target, lod) :
    LET inside == {leaf \in leaves : Encloses(root, leaf)}
    IN inside # {} /\ inside \subseteq ready

\* Variant: obsolete leaves go as soon as the target is covered.
WithoutObsoleteEarly(target, leaves, ready, lod) ==
  {leaf \in leaves : \E root \in TargetRoots(target, lod) : Encloses(root, leaf)}

WithoutObsolete(target, leaves, ready, lod) ==
  IF TargetDrawn(target, leaves, ready, lod)
  THEN {leaf \in leaves : \E root \in TargetRoots(target, lod) : Encloses(root, leaf)}
  ELSE leaves

----------------------------------------------------------------------------
(* One topology change: a collapse when there is one, else a split. *)

\* Variant: any leaf the target does not have.
CollapsibleUnlessWanted(leaves, target) ==
  {leaf \in leaves \ target.leaves : Lod(leaf) < MaximumLod /\ Parent(leaf) \in Catalog
     /\ \E t \in target.leaves : Overlap(Parent(leaf), t)}

\* Leaves whose parent the target covers.
Collapsible(leaves, target) ==
  {leaf \in leaves : Lod(leaf) < MaximumLod /\ Covered(Parent(leaf), target.leaves)}

WholeFamily(leaf, leaves, ready) ==
  RefinableChildren(Parent(leaf)) \subseteq leaves \cap ready

\* The first leaf that collapses its family, or stops the pass because its
\* parent has no family.
FirstCollapse(leaves, target, ready) ==
  {leaf \in Collapsible(leaves, target) : WholeFamily(leaf, leaves, ready)}

Prefers(leaf, preferred) == \E key \in preferred : Encloses(leaf, key)

BordersCoarser(leaf, leaves) == CoarserNeighbours(leaf, leaves) # {}

\* The leaves a pass may split.
Splittable(leaves, target, ready, pass) ==
  {leaf \in leaves :
     LET wanted == Prefers(leaf, pass.preferred) IN
     /\ Lod(leaf) # 0
     /\ leaf \in ready \/ (pass.unready /\ wanted)
     /\ ~BordersCoarser(leaf, leaves) \/ wanted
     /\ Below(leaf, target) # {}
     /\ pass.only => wanted}

\* Wanted leaves first, those with the deepest target first; the others from
\* the coarsest; then by priority and by place.
SplitsBefore(a, b, target, preferred) ==
  LET wants(leaf) == Prefers(leaf, preferred)
      depth(leaf) == IF wants(leaf) THEN DeepestLod(leaf, target) ELSE - Lod(leaf)
      priority(leaf) == IF wants(leaf) THEN DeepestPriority(leaf, target)
                        ELSE Highest(Below(leaf, target), target)
  IN IF wants(a) # wants(b) THEN wants(a)
     ELSE IF depth(a) # depth(b) THEN depth(a) < depth(b)
     ELSE IF priority(a) # priority(b) THEN priority(a) > priority(b)
     ELSE Precedes(a, b)

FirstSplit(open, target, preferred) ==
  CHOOSE leaf \in open :
    \A o \in open \ {leaf} : SplitsBefore(leaf, o, target, preferred)

RECURSIVE TopologyChanges(_, _, _, _, _)
Changed(next, target, ready, pass, left) ==
  IF next.status # "Ok" THEN next
  ELSE TopologyChanges(next.leaves, target, ready, pass, left - 1)

CollapseTo(parent, leaves) ==
  IF RefinableChildren(parent) = {} THEN Leaves("IncompleteHierarchy", leaves)
  ELSE Leaves("Ok", (leaves \ RefinableChildren(parent)) \cup {parent})

SplitOne(leaves, open, target, ready, pass, left) ==
  IF open = {} THEN Leaves("Ok", leaves)
  ELSE IF \E leaf \in open : RefinableChildren(leaf) = {} THEN Leaves("IncompleteHierarchy", leaves)
  ELSE Changed(RefineLeaf(leaves, FirstSplit(open, target, pass.preferred)),
               target, ready, pass, left)

SplitBalanced(balanced, target, ready, pass, left) ==
  IF balanced.status # "Ok" THEN balanced
  ELSE SplitOne(balanced.leaves, Splittable(balanced.leaves, target, ready, pass),
                target, ready, pass, left)

ChangeWith(collapses, leaves, target, ready, pass, left) ==
  IF collapses = {} \/ (pass.only /\ ~pass.coarsen)
  THEN SplitBalanced(Balance(leaves), target, ready, pass, left)
  ELSE Changed(CollapseTo(Parent(Least(collapses)), leaves), target, ready, pass, left)

TopologyChanges(leaves, target, ready, pass, left) ==
  IF left = 0 THEN Leaves("Ok", leaves)
  ELSE ChangeWith(FirstCollapse(leaves, target, ready), leaves, target, ready, pass, left)

----------------------------------------------------------------------------
(* A staged pass. *)

StageBalanced(balanced, target, current) ==
  IF balanced.status # "Ok" THEN Unstaged(balanced.status)
  ELSE Staged(balanced.leaves, target, current)

StageChanged(changed, target, current) ==
  IF changed.status # "Ok" THEN Unstaged(changed.status)
  ELSE StageBalanced(Balance(changed.leaves), target, current)

StageFrom(opened, target, current, ready, lod, pass) ==
  IF Cardinality(opened) > Capacity THEN Unstaged("CapacityExceeded")
  ELSE StageChanged(TopologyChanges(WithoutObsolete(target, opened, ready, lod),
                                    target, ready, pass, pass.changes),
                    target, current)

StageToward(target, current, ready, lod, pass) ==
  IF target.leaves = {} THEN [status |-> "Ok", plan |-> target, complete |-> TRUE]
  ELSE IF \E key \in target.leaves \cup current.leaves :
            key \notin Catalog \/ (key \in target.leaves /\ Lod(key) > lod)
       THEN Unstaged("InvalidLodMap")
  ELSE StageFrom(current.leaves \cup AdmittedRoots(target, current, lod, pass.preferred),
                 target, current, ready, lod, pass)

----------------------------------------------------------------------------
(* The foreground: coarse cover first, then the focus at the target's level. *)

FocusCovered(target, base, ready, lod, focus) ==
  \A key \in focus :
    (\E root \in TargetRoots(target, lod) : Encloses(root, key))
      => \E leaf \in base.leaves : Encloses(leaf, key) /\ leaf \in ready

RECURSIVE Projected(_, _, _)
Projected(key, focus, split) ==
  LET family == RefinableChildren(key) IN
  IF Prefers(key, focus) /\ Lod(key) > 0 /\ key \in split /\ family # {}
  THEN UNION {Projected(child, focus, split) : child \in family}
  ELSE {key}

Splits(target, lod) == UNION {ProperAncestors(leaf, lod) : leaf \in target.leaves}

\* Without the room for it, the coarse base is published and staging goes on.
StageFocus(leaves, balanced, coarse, target, current) ==
  IF Cardinality(leaves) > Capacity \/ balanced.status = "CapacityExceeded" THEN coarse
  ELSE StageBalanced(balanced, target, current)

\* A catalog that cannot split a key the target splits is IncompleteHierarchy.
StageProjection(leaves, coarse, target, current, lod, focus) ==
  IF \E key \in leaves : Prefers(key, focus) /\ Lod(key) > 0 /\ key \in Splits(target, lod)
  THEN Unstaged("IncompleteHierarchy")
  ELSE StageFocus(leaves, Balance(leaves), coarse, target, current)

StageOver(base, target, current, ready, lod, focus) ==
  LET coarse == [base EXCEPT !.complete = FALSE] IN
  IF base.status # "Ok" THEN base
  ELSE IF ~FocusCovered(target, base.plan, ready, lod, focus) THEN coarse
  ELSE StageProjection(UNION {Projected(key, focus, Splits(target, lod)) : key \in base.plan.leaves},
                       coarse, target, current, lod, focus)

BasePass == [changes |-> 1, preferred |-> {}, only |-> TRUE, unready |-> FALSE, coarsen |-> TRUE]
StageForeground(target, current, ready, lod, focus) ==
  StageOver(StageToward(target, current, ready, lod, BasePass), target, current, ready, lod, focus)

\* project_foreground_target: split the accepted cut down to the focus.
CoverRoot(key, leaves) ==
  LET root == AncestorAt(key, Max({0} \cup {Lod(leaf) : leaf \in leaves}))
  IN IF root \in Catalog THEN root ELSE key

RECURSIVE SplitTo(_, _)
SplitTo(cut, key) ==
  LET over == {leaf \in cut.leaves : Encloses(leaf, key) /\ Lod(leaf) > 0} IN
  IF cut.status # "Ok" \/ over = {} THEN cut
  ELSE SplitTo(RefineLeaf(cut.leaves, Least(over)), key)

Opened(cut, key, accepted) ==
  IF Covered(key, cut.leaves) THEN cut
  ELSE IF Cardinality(cut.leaves) >= Capacity THEN Leaves("CapacityExceeded", cut.leaves)
  ELSE Leaves("Ok", cut.leaves \cup {CoverRoot(key, accepted)})

RECURSIVE SplitToAll(_, _, _)
SplitToAll(cut, keys, accepted) ==
  IF keys = {} \/ cut.status # "Ok" THEN cut
  ELSE SplitToAll(SplitTo(Opened(cut, Least(keys), accepted), Least(keys)),
                  keys \ {Least(keys)}, accepted)

FocusPlan(leaves, split, current, focus, focusPriority) ==
  LET near(key) == key \in focus \/ \E root \in split : Encloses(root, key)
      retained(key) == StagedPriority(key, current, current)
  IN [leaves |-> leaves,
      priority |-> [key \in leaves |->
         IF near(key) \/ retained(key) = 0
         THEN Max({retained(key), focusPriority}) ELSE retained(key)]]

FocusBalanced(balanced, split, current, focus, focusPriority) ==
  IF balanced.status # "Ok" THEN Unplanned(balanced.status)
  ELSE [status |-> "Ok",
        plan |-> FocusPlan(balanced.leaves, split, current, focus, focusPriority)]

FocusCut(cut, current, focus, focusPriority) ==
  IF cut.status # "Ok" THEN Unplanned(cut.status)
  ELSE FocusBalanced(Balance(cut.leaves), current.leaves \ cut.leaves, current, focus, focusPriority)

ForegroundTarget(current, focus, focusPriority) ==
  IF current.leaves = {} THEN [status |-> "Ok", plan |-> current]
  ELSE FocusCut(SplitToAll(Leaves("Ok", current.leaves), focus \cap Catalog, current.leaves),
                current, focus, focusPriority)
=============================================================================
