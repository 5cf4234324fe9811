--------------------------- MODULE FoldInduction ---------------------------
(***************************************************************************)
(* Induction over a fold.  Step(c, a, x) is what one round does to the     *)
(* accumulator a for the element x, c standing for what the rounds share;  *)
(* Choice(s) is the element of s whose turn comes last.  The laws hold for *)
(* every Step, Choice and Holds: a module about a fold of its own          *)
(* INSTANCEs this one and cites FoldHolds.                                 *)
(***************************************************************************)
EXTENDS Folds, SequenceLemmas

CONSTANTS Step(_, _, _), Choice(_), Holds(_, _, _)

Fold(c, base, S) ==
    MapThenFoldSet(LAMBDA x, a : Step(c, a, x), base, LAMBDA x : x, Choice, S)

\* A function on the subsets of S with at most n elements that follows the
\* equation of the fold.
Small(S, n) == {s \in SUBSET S : Cardinality(s) <= n}

Rounds(c, base, D, g) ==
    g = [s \in D |-> IF s = {} THEN base ELSE Step(c, g[s \ {Choice(s)}], Choice(s))]

\* The equation has a solution on the small subsets.
LEMMA RoundsExist ==
    ASSUME NEW c, NEW base, NEW S, IsFiniteSet(S),
           \A s \in SUBSET S : s # {} => Choice(s) \in s
    PROVE  \A n \in Nat : \E g : Rounds(c, base, Small(S, n), g)
<1> DEFINE N == {n \in Nat : \E g : Rounds(c, base, Small(S, n), g)}
<1>1. \A s \in SUBSET S : /\ IsFiniteSet(s) /\ Cardinality(s) \in Nat
                          /\ Cardinality(s) = 0 <=> s = {}
  BY FS_Subset, FS_CardinalityType, FS_EmptySet
<1>2. \A s \in SUBSET S : s # {} => /\ s \ {Choice(s)} \in SUBSET S
                                    /\ Cardinality(s \ {Choice(s)}) = Cardinality(s) - 1
  BY <1>1, FS_RemoveElement
<1>3. 0 \in N
  <2> DEFINE g == [s \in Small(S, 0) |-> base]
  <2>1. \A s \in Small(S, 0) : s = {}
    BY <1>1 DEF Small
  <2>2. g = [s \in Small(S, 0) |->
                IF s = {} THEN base ELSE Step(c, g[s \ {Choice(s)}], Choice(s))]
    BY <2>1
  <2>3. Rounds(c, base, Small(S, 0), g)
    BY <2>2 DEF Rounds
  <2>. QED  BY <2>3
<1>4. ASSUME NEW n \in Nat, n \in N PROVE n + 1 \in N
  <2>1. PICK g : Rounds(c, base, Small(S, n), g)
    BY <1>4
  <2> DEFINE h == [s \in Small(S, n + 1) |->
                      IF s = {} THEN base ELSE Step(c, g[s \ {Choice(s)}], Choice(s))]
  <2>2. \A s \in Small(S, n) : s \in Small(S, n + 1) /\ h[s] = g[s]
    <3>1. \A s \in Small(S, n) : s \in Small(S, n + 1)
      BY <1>1 DEF Small
    <3>2. \A s \in Small(S, n) :
              g[s] = IF s = {} THEN base ELSE Step(c, g[s \ {Choice(s)}], Choice(s))
      BY <2>1 DEF Rounds
    <3>. QED  BY <3>1, <3>2
  <2>3. \A s \in Small(S, n + 1) : s # {} => s \ {Choice(s)} \in Small(S, n)
    BY <1>1, <1>2 DEF Small
  <2>4. \A s \in Small(S, n + 1) : s # {} => h[s \ {Choice(s)}] = g[s \ {Choice(s)}]
    BY <2>2, <2>3
  <2>5. h = [s \in Small(S, n + 1) |->
                IF s = {} THEN base ELSE Step(c, h[s \ {Choice(s)}], Choice(s))]
    BY <2>4
  <2>6. Rounds(c, base, Small(S, n + 1), h)
    BY <2>5 DEF Rounds
  <2>. QED  BY <2>6
<1>. HIDE DEF N
<1>5. Nat \subseteq N
  BY <1>3, <1>4, SetInduction
<1>. QED  BY <1>5 DEF N

\* What holds before the first round, and after each round if it held before
\* it, holds after the last one: Holds(c, done, a) says it of the accumulator a
\* when the elements of done have had their round.
LEMMA FoldHolds ==
    ASSUME NEW c, NEW base, NEW S, IsFiniteSet(S),
           \A s \in SUBSET S : s # {} => Choice(s) \in s,
           Holds(c, {}, base),
           \A done \in SUBSET S, x \in S : \A a :
               x \notin done /\ Holds(c, done, a) => Holds(c, done \cup {x}, Step(c, a, x))
    PROVE  Holds(c, S, Fold(c, base, S))
<1>1. S \in SUBSET S /\ Cardinality(S) \in Nat
  BY FS_CardinalityType
<1>2. \A s \in SUBSET S : /\ IsFiniteSet(s) /\ Cardinality(s) \in Nat
                          /\ Cardinality(s) = 0 <=> s = {}
  BY FS_Subset, FS_CardinalityType, FS_EmptySet
<1>3. \A s \in SUBSET S : Cardinality(s) <= Cardinality(S)
  BY FS_Subset
<1>4. Small(S, Cardinality(S)) = SUBSET S
  BY <1>3 DEF Small
<1>5. PICK f : Rounds(c, base, SUBSET S, f)
  <2>1. \E g : Rounds(c, base, Small(S, Cardinality(S)), g)
    BY <1>1, RoundsExist
  <2>. QED  BY <2>1, <1>4
<1> DEFINE iter == CHOOSE g : g = [s \in SUBSET S |->
                      IF s = {} THEN base ELSE Step(c, g[s \ {Choice(s)}], Choice(s))]
<1>6. iter = [s \in SUBSET S |->
                 IF s = {} THEN base ELSE Step(c, iter[s \ {Choice(s)}], Choice(s))]
  <2>1. \E g : g = [s \in SUBSET S |->
                   IF s = {} THEN base ELSE Step(c, g[s \ {Choice(s)}], Choice(s))]
    BY <1>5 DEF Rounds
  <2>. QED  BY <2>1
<1>7. Fold(c, base, S) = iter[S]
  BY DEF Fold, MapThenFoldSet
<1>. HIDE DEF iter
<1> DEFINE N == {n \in Nat : \A s \in SUBSET S : Cardinality(s) <= n => Holds(c, s, iter[s])}
<1>8. 0 \in N
  <2>1. \A s \in SUBSET S : Cardinality(s) <= 0 => s = {}
    BY <1>2
  <2>2. iter[{}] = base
    BY <1>6
  <2>. QED  BY <2>1, <2>2
<1>9. ASSUME NEW n \in Nat, n \in N PROVE n + 1 \in N
  <2>1. SUFFICES ASSUME NEW s \in SUBSET S, Cardinality(s) <= n + 1
                 PROVE  Holds(c, s, iter[s])
    OBVIOUS
  <2>2. CASE s = {}
    BY <2>2, <1>6
  <2>3. CASE s # {}
    <3> DEFINE x == Choice(s)
               rest == s \ {x}
    <3>1. x \in s /\ x \in S /\ rest \in SUBSET S /\ x \notin rest /\ rest \cup {x} = s
      BY <2>3
    <3>2. Cardinality(rest) <= n
      BY <2>1, <1>2, <3>1, FS_RemoveElement
    <3>3. Holds(c, rest, iter[rest])
      BY <1>9, <3>1, <3>2
    <3>4. iter[s] = Step(c, iter[rest], x)
      BY <1>6, <2>3
    <3>5. Holds(c, rest \cup {x}, Step(c, iter[rest], x))
      BY <3>1, <3>3
    <3>. QED  BY <3>1, <3>4, <3>5
  <2>. QED  BY <2>2, <2>3
<1>. HIDE DEF N
<1>10. Nat \subseteq N
  BY <1>8, <1>9, SetInduction
<1>11. Cardinality(S) \in N
  BY <1>1, <1>10
<1>12. Holds(c, S, iter[S])
  BY <1>1, <1>11 DEF N
<1>. QED  BY <1>7, <1>12

=============================================================================
