--------------------------- MODULE SequenceLemmas ---------------------------
(***************************************************************************)
(* What the sequence operators of the queues, rings and files return,      *)
(* element by element: the proofs about the components cite these facts    *)
(* instead of expanding SubSeq and concatenation.                          *)
(***************************************************************************)
EXTENDS Integers, Sequences, SequencesExt, SequenceTheorems, FiniteSetTheorems,
        WellFoundedInduction, TLAPS

\* A sequence with one element put in at a place.
LEMMA InsertAtElements ==
    ASSUME NEW S, NEW s \in Seq(S), NEW at \in 1..Len(s) + 1, NEW e \in S
    PROVE  /\ InsertAt(s, at, e) \in Seq(S)
           /\ Len(InsertAt(s, at, e)) = Len(s) + 1
           /\ \A i \in 1..at - 1 : InsertAt(s, at, e)[i] = s[i]
           /\ InsertAt(s, at, e)[at] = e
           /\ \A i \in at + 1..Len(s) + 1 : InsertAt(s, at, e)[i] = s[i - 1]
<1> DEFINE before == SubSeq(s, 1, at - 1)
           after == SubSeq(s, at, Len(s))
<1>1. /\ before \in Seq(S) /\ Len(before) = at - 1
      /\ \A i \in 1..at - 1 : before[i] = s[i]
  BY SubSeqProperties
<1>2. /\ after \in Seq(S) /\ Len(after) = Len(s) - at + 1
      /\ \A i \in 1..Len(s) - at + 1 : after[i] = s[at + i - 1]
  BY SubSeqProperties
<1>3. /\ before \o <<e>> \in Seq(S) /\ Len(before \o <<e>>) = at
      /\ \A i \in 1..at - 1 : (before \o <<e>>)[i] = s[i]
      /\ (before \o <<e>>)[at] = e
  BY <1>1
<1>. HIDE DEF before, after
<1>4. InsertAt(s, at, e) = (before \o <<e>>) \o after
  BY DEF InsertAt, before, after
<1> DEFINE front == before \o <<e>>
<1>. HIDE DEF front
<1>5. front \in Seq(S) /\ Len(front) = at
  BY <1>3 DEF front
<1>6. /\ front \o after \in Seq(S) /\ Len(front \o after) = Len(s) + 1
      /\ \A i \in 1..Len(s) + 1 :
             (front \o after)[i] = IF i <= at THEN front[i] ELSE after[i - at]
  BY <1>2, <1>5, ConcatProperties
<1>7. \A i \in 1..Len(s) + 1 :
          InsertAt(s, at, e)[i] = IF i <= at THEN front[i] ELSE after[i - at]
  BY <1>4, <1>6 DEF front
<1>8. \A i \in at + 1..Len(s) + 1 : after[i - at] = s[i - 1]
  BY <1>2
<1>9. /\ \A i \in 1..at - 1 : front[i] = s[i]
      /\ front[at] = e
  BY <1>3 DEF front
<1>10. InsertAt(s, at, e) = front \o after
  BY <1>4 DEF front
<1>11. \A i \in at + 1..Len(s) + 1 : i \in 1..Len(s) + 1 /\ ~(i <= at)
  OBVIOUS
<1>12. \A i \in 1..at : i \in 1..Len(s) + 1 /\ i <= at
  OBVIOUS
<1>. QED  BY <1>6, <1>7, <1>8, <1>9, <1>10, <1>11, <1>12

\* A sequence without the element at a place.
LEMMA RemoveAtElements ==
    ASSUME NEW S, NEW s \in Seq(S), NEW at \in 1..Len(s)
    PROVE  /\ RemoveAt(s, at) \in Seq(S)
           /\ Len(RemoveAt(s, at)) = Len(s) - 1
           /\ \A i \in 1..at - 1 : RemoveAt(s, at)[i] = s[i]
           /\ \A i \in at..Len(s) - 1 : RemoveAt(s, at)[i] = s[i + 1]
<1> DEFINE before == SubSeq(s, 1, at - 1)
           after == SubSeq(s, at + 1, Len(s))
<1>1. /\ before \in Seq(S) /\ Len(before) = at - 1
      /\ \A i \in 1..at - 1 : before[i] = s[i]
  BY SubSeqProperties
<1>2. /\ after \in Seq(S) /\ Len(after) = Len(s) - at
      /\ \A i \in 1..Len(s) - at : after[i] = s[at + i]
  BY SubSeqProperties
<1>. HIDE DEF before, after
<1>3. RemoveAt(s, at) = before \o after
  BY DEF RemoveAt, before, after
<1>4. /\ before \o after \in Seq(S) /\ Len(before \o after) = Len(s) - 1
      /\ \A i \in 1..Len(s) - 1 :
             (before \o after)[i] = IF i <= at - 1 THEN before[i] ELSE after[i - (at - 1)]
  <2>1. /\ before \o after \in Seq(S)
        /\ Len(before \o after) = Len(before) + Len(after)
        /\ \A i \in 1..Len(before) + Len(after) :
               (before \o after)[i] =
                   IF i <= Len(before) THEN before[i] ELSE after[i - Len(before)]
    BY <1>1, <1>2, ConcatProperties
  <2>2. Len(before) + Len(after) = Len(s) - 1
    BY <1>1, <1>2
  <2>. QED  BY <1>1, <2>1, <2>2
<1>5. \A i \in at..Len(s) - 1 : after[i - (at - 1)] = s[i + 1]
  BY <1>2
<1>6. \A i \in at..Len(s) - 1 : i \in 1..Len(s) - 1 /\ ~(i <= at - 1)
  OBVIOUS
<1>7. \A i \in 1..at - 1 : i \in 1..Len(s) - 1 /\ i <= at - 1
  OBVIOUS
<1>. QED  BY <1>1, <1>3, <1>4, <1>5, <1>6, <1>7

\* A beginning of a sequence.
LEMMA PrefixElements ==
    ASSUME NEW S, NEW s \in Seq(S), NEW n \in 0..Len(s)
    PROVE  /\ SubSeq(s, 1, n) \in Seq(S) /\ Len(SubSeq(s, 1, n)) = n
           /\ \A i \in 1..n : SubSeq(s, 1, n)[i] = s[i]
BY SubSeqProperties

\* Two sequences of one length that agree at every place are the same.
LEMMA EqualElements ==
    ASSUME NEW S, NEW s \in Seq(S), NEW t \in Seq(S), Len(s) = Len(t),
           \A i \in 1..Len(s) : s[i] = t[i]
    PROVE  s = t
BY SeqEqual

\* The elements of a sequence, as a set.
LEMMA ToSetElements ==
    ASSUME NEW S, NEW s \in Seq(S)
    PROVE  /\ \A e : e \in ToSet(s) <=> \E i \in 1..Len(s) : s[i] = e
           /\ ToSet(s) \subseteq S
BY DEF ToSet

\* The first element of a sequence and what follows it.
LEMMA HeadTailElements ==
    ASSUME NEW S, NEW s \in Seq(S), s # <<>>
    PROVE  /\ Len(s) \in Nat \ {0}
           /\ Head(s) = s[1] /\ Head(s) \in S
           /\ Tail(s) \in Seq(S) /\ Len(Tail(s)) = Len(s) - 1
           /\ \A i \in 1..Len(s) - 1 : Tail(s)[i] = s[i + 1]
BY HeadTailProperties

\* A sequence with an element added at its end.
LEMMA AppendElements ==
    ASSUME NEW S, NEW s \in Seq(S), NEW e \in S
    PROVE  /\ Append(s, e) \in Seq(S) /\ Len(Append(s, e)) = Len(s) + 1
           /\ \A i \in 1..Len(s) : Append(s, e)[i] = s[i]
           /\ Append(s, e)[Len(s) + 1] = e
BY AppendProperties

\* A set of places has a first one: what Min returns for it.
LEMMA MinElement ==
    ASSUME NEW I, I \subseteq Nat, I # {}
    PROVE  Min(I) \in I /\ \A i \in I : Min(I) <= i
<1> DEFINE Less == OpToRel(<, Nat)
<1>1. Less = {ss \in Nat \X Nat : ss[1] < ss[2]}
  BY DEF OpToRel
<1>2. IsWellFoundedOn(Less, Nat)
  BY NatLessThanWellFounded
<1>. HIDE DEF Less
<1>3. PICK m \in I : \A i \in I : <<i, m>> \notin Less
  BY <1>2, WFMin
<1>4. \A i \in I : m <= i
  <2>1. ASSUME NEW i \in I, ~(m <= i) PROVE FALSE
    <3>1. i \in Nat /\ m \in Nat /\ i < m
      BY <2>1
    <3>2. <<i, m>> \in Less
      BY <1>1, <3>1
    <3>. QED  BY <1>3, <3>2
  <2>. QED  BY <2>1
<1>. QED  BY <1>4 DEF Min

\* Induction over the naturals for a set instead of a predicate.
LEMMA SetInduction ==
    ASSUME NEW S, 0 \in S, \A n \in Nat : n \in S => n + 1 \in S
    PROVE  Nat \subseteq S
<1> DEFINE T == {n \in Nat : n \notin S}
<1>. SUFFICES ASSUME T # {} PROVE FALSE
  OBVIOUS
<1>1. IsWellFoundedOn(OpToRel(<, Nat), Nat)
  BY NatLessThanWellFounded
<1>2. PICK m \in T : \A y \in T : ~ (<<y, m>> \in OpToRel(<, Nat))
  BY <1>1, WFMin
<1>3. \A y \in T : ~ (y < m)
  BY <1>2 DEF OpToRel
<1>4. m # 0 /\ m - 1 \in Nat /\ (m - 1) + 1 = m
  OBVIOUS
<1>5. m - 1 \in T
  BY <1>4
<1>. QED  BY <1>3, <1>5

\* A finite set of naturals has a last one: what Max returns for it.
LEMMA MaxElement ==
    ASSUME NEW I, I \subseteq Nat, IsFiniteSet(I), I # {}
    PROVE  Max(I) \in I /\ \A i \in I : i <= Max(I)
<1> DEFINE Bounded(s) == \E b \in Nat : \A x \in s : x <= b
           N == {n \in Nat : \A s \in SUBSET I : Cardinality(s) = n => Bounded(s)}
<1>1. \A s \in SUBSET I : /\ IsFiniteSet(s) /\ Cardinality(s) \in Nat
                          /\ Cardinality(s) = 0 <=> s = {}
  BY FS_Subset, FS_CardinalityType, FS_EmptySet
<1>2. 0 \in N
  BY <1>1
<1>3. ASSUME NEW n \in Nat, n \in N PROVE n + 1 \in N
  <2>. HIDE DEF Bounded
  <2>1. SUFFICES ASSUME NEW s \in SUBSET I, Cardinality(s) = n + 1 PROVE Bounded(s)
    OBVIOUS
  <2>. USE DEF Bounded
  <2>2. PICK e \in s : TRUE
    BY <1>1, <2>1
  <2>3. s \ {e} \in SUBSET I /\ Cardinality(s \ {e}) = n
    <3>1. IsFiniteSet(s) /\ Cardinality(s) = n + 1
      BY <1>1, <2>1
    <3>2. Cardinality(s \ {e}) = Cardinality(s) - 1
      BY <3>1, FS_RemoveElement
    <3>. QED  BY <3>1, <3>2
  <2>4. PICK b \in Nat : \A x \in s \ {e} : x <= b
    BY <1>3, <2>3
  <2>5. e \in Nat /\ \A x \in s : x \in Nat
    BY <2>1
  <2>6. CASE e <= b
    BY <2>4, <2>6
  <2>7. CASE b <= e
    BY <2>4, <2>5, <2>7
  <2>. QED  BY <2>5, <2>6, <2>7
<1>. HIDE DEF N
<1>4. Nat \subseteq N
  BY <1>2, <1>3, SetInduction
<1>5. Cardinality(I) \in N
  BY <1>1, <1>4
<1>6. Bounded(I)
  BY <1>5 DEF N
<1> DEFINE B == {b \in Nat : \A x \in I : x <= b}
<1>7. Min(B) \in B /\ \A b \in B : Min(B) <= b
  <2>1. B \subseteq Nat /\ B # {}
    BY <1>6
  <2>. QED  BY <2>1, MinElement
<1>8. Min(B) \in I
  <2>1. SUFFICES ASSUME \A x \in I : x # Min(B) PROVE FALSE
    OBVIOUS
  <2>2. PICK e \in I : TRUE
    OBVIOUS
  <2>3. Min(B) - 1 \in B
    BY <1>7, <2>1, <2>2
  <2>. QED  BY <1>7, <2>3
<1>9. \A i \in I : Min(B) >= i
  BY <1>7
<1>. QED  BY <1>8, <1>9 DEF Max

\* Where the elements of a sequence are after one was taken out.
LEMMA RemoveAtPlaces ==
    ASSUME NEW S, NEW s \in Seq(S), NEW at \in 1..Len(s)
    PROVE  /\ \A a \in 1..Len(RemoveAt(s, at)) : \E b \in 1..Len(s) :
                 RemoveAt(s, at)[a] = s[b] /\ ((b = a /\ a < at) \/ (b = a + 1 /\ b > at))
           /\ \A b \in 1..Len(s) : b # at => \E a \in 1..Len(RemoveAt(s, at)) :
                 RemoveAt(s, at)[a] = s[b] /\ ((a = b /\ b < at) \/ (a = b - 1 /\ b > at))
<1> DEFINE t == RemoveAt(s, at)
<1>1. /\ t \in Seq(S) /\ Len(t) = Len(s) - 1
      /\ \A i \in 1..at - 1 : t[i] = s[i]
      /\ \A i \in at..Len(s) - 1 : t[i] = s[i + 1]
  BY RemoveAtElements
<1>. HIDE DEF t
<1>2. Len(s) \in Nat
  OBVIOUS
<1>3. ASSUME NEW a \in 1..Len(t)
      PROVE  \E b \in 1..Len(s) : t[a] = s[b] /\ ((b = a /\ a < at) \/ (b = a + 1 /\ b > at))
  <2>1. CASE a < at
    <3>1. a \in 1..at - 1 /\ a \in 1..Len(s) /\ a # at
      BY <1>2, <2>1
    <3>2. t[a] = s[a]
      BY <1>1, <3>1
    <3>. QED  BY <2>1, <3>1, <3>2
  <2>2. CASE a >= at
    <3>1. a \in at..Len(s) - 1 /\ a + 1 \in 1..Len(s) /\ a + 1 > at
      BY <1>1, <1>2, <2>2
    <3>2. t[a] = s[a + 1]
      BY <1>1, <3>1
    <3>. QED  BY <3>1, <3>2
  <2>. QED  BY <2>1, <2>2
<1>4. ASSUME NEW b \in 1..Len(s), b # at
      PROVE  \E a \in 1..Len(t) : t[a] = s[b] /\ ((a = b /\ b < at) \/ (a = b - 1 /\ b > at))
  <2>1. CASE b < at
    <3>1. b \in 1..at - 1 /\ b \in 1..Len(t)
      BY <1>1, <1>2, <2>1
    <3>2. t[b] = s[b]
      BY <1>1, <3>1
    <3>. QED  BY <2>1, <3>1, <3>2
  <2>2. CASE b > at
    <3>1. b - 1 \in at..Len(s) - 1 /\ b - 1 \in 1..Len(t) /\ b > at /\ (b - 1) + 1 = b
      BY <1>1, <1>2, <2>2
    <3>2. t[b - 1] = s[b]
      BY <1>1, <3>1
    <3>. QED  BY <3>1, <3>2
  <2>. QED  BY <1>4, <2>1, <2>2
<1>. QED  BY <1>3, <1>4 DEF t

\* The elements after one was added, taken from the front, or taken out.
LEMMA ToSetChanges ==
    ASSUME NEW S, NEW s \in Seq(S)
    PROVE  /\ \A e \in S : ToSet(Append(s, e)) = ToSet(s) \cup {e}
           /\ s # <<>> => ToSet(s) = ToSet(Tail(s)) \cup {Head(s)}
           /\ \A at \in 1..Len(s) : ToSet(RemoveAt(s, at)) \subseteq ToSet(s)
<1>1. Len(s) \in Nat /\ (\A e : e \in ToSet(s) <=> \E i \in 1..Len(s) : s[i] = e)
  BY ToSetElements
<1>2. ASSUME NEW e \in S PROVE ToSet(Append(s, e)) = ToSet(s) \cup {e}
  <2> DEFINE t == Append(s, e)
  <2>1. /\ t \in Seq(S) /\ Len(t) = Len(s) + 1 /\ t[Len(s) + 1] = e
        /\ \A i \in 1..Len(s) : t[i] = s[i]
    BY AppendElements
  <2>. HIDE DEF t
  <2>2. \A x : x \in ToSet(t) <=> \E i \in 1..Len(t) : t[i] = x
    BY <2>1, ToSetElements
  <2>3. \A i \in 1..Len(t) : i \in 1..Len(s) \/ i = Len(s) + 1
    BY <1>1, <2>1
  <2>4. Len(s) + 1 \in 1..Len(t) /\ \A i \in 1..Len(s) : i \in 1..Len(t)
    BY <1>1, <2>1
  <2>5. ToSet(t) = ToSet(s) \cup {e}
    BY <1>1, <2>1, <2>2, <2>3, <2>4
  <2>. QED  BY <2>5 DEF t
<1>3. ASSUME s # <<>> PROVE ToSet(s) = ToSet(Tail(s)) \cup {Head(s)}
  <2> DEFINE t == Tail(s)
  <2>1. /\ Len(s) \in Nat \ {0} /\ Head(s) = s[1] /\ t \in Seq(S) /\ Len(t) = Len(s) - 1
        /\ \A i \in 1..Len(s) - 1 : t[i] = s[i + 1]
    BY <1>3, HeadTailElements
  <2>. HIDE DEF t
  <2>2. \A x : x \in ToSet(t) <=> \E i \in 1..Len(t) : t[i] = x
    BY <2>1, ToSetElements
  <2>3. 1 \in 1..Len(s) /\ \A i \in 1..Len(t) : i + 1 \in 1..Len(s) /\ t[i] = s[i + 1]
    BY <2>1
  <2>4. \A b \in 1..Len(s) : b = 1 \/ (b - 1 \in 1..Len(t) /\ t[b - 1] = s[b])
    <3>1. TAKE b \in 1..Len(s)
    <3>2. CASE b = 1
      BY <3>2
    <3>3. CASE b # 1
      <4>1. b - 1 \in 1..Len(s) - 1 /\ (b - 1) + 1 = b
        BY <2>1, <3>3
      <4>. QED  BY <2>1, <4>1
    <3>. QED  BY <3>2, <3>3
  <2>5. ToSet(s) = ToSet(t) \cup {Head(s)}
    BY <1>1, <2>1, <2>2, <2>3, <2>4
  <2>. QED  BY <2>5 DEF t
<1>4. ASSUME NEW at \in 1..Len(s) PROVE ToSet(RemoveAt(s, at)) \subseteq ToSet(s)
  <2> DEFINE t == RemoveAt(s, at)
  <2>1. /\ \A a \in 1..Len(t) : \E b \in 1..Len(s) :
               t[a] = s[b] /\ ((b = a /\ a < at) \/ (b = a + 1 /\ b > at))
        /\ t \in Seq(S)
    BY RemoveAtPlaces, RemoveAtElements
  <2>. HIDE DEF t
  <2>2. \A x : x \in ToSet(t) <=> \E i \in 1..Len(t) : t[i] = x
    BY <2>1, ToSetElements
  <2>3. ToSet(t) \subseteq ToSet(s)
    BY <1>1, <2>1, <2>2
  <2>. QED  BY <2>3 DEF t
<1>. QED  BY <1>2, <1>3, <1>4
=============================================================================
