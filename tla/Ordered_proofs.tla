---------------------------- MODULE Ordered_proofs ----------------------------
(* What the proofs share: least elements, sums over sets, concatenation, and *)
(* the walk of module Ordered.                                               *)
EXTENDS Ordered, FiniteSetTheorems, SequenceTheorems, WellFoundedInduction, TLAPS

-----------------------------------------------------------------------------
(* Numbers.                                                                *)

\* Every nonempty set of naturals has a least element.
LEMMA LeastOf ==
  ASSUME NEW W \in SUBSET Nat, W # {}
  PROVE  \E w \in W : \A v \in W : w <= v
<1> DEFINE less == {ss \in Nat \X Nat : ss[1] < ss[2]}
<1>1. IsWellFoundedOn(less, Nat)
  BY NatLessThanWellFounded DEF OpToRel
<1>2. PICK w \in W : \A v \in W : <<v, w>> \notin less
  <2> HIDE DEF less
  <2> QED
    BY <1>1, WFMin, Zenon
<1>3. ASSUME NEW v \in W PROVE w <= v
  <2>1. v \in Nat /\ w \in Nat /\ <<v, w>> \notin less
    BY <1>2
  <2>2. ~ (v < w)
    BY <2>1
  <2> QED
    BY <2>1, <2>2
<1> QED
  BY <1>3

\* Every nonempty set of naturals that has a bound has a greatest element.
LEMMA GreatestOf ==
  ASSUME NEW n \in Nat, NEW W \in SUBSET (0 .. n), W # {}
  PROVE  \E w \in W : \A v \in W : w >= v
<1> DEFINE V == {m \in 0 .. n : n - m \in W}
<1>1. V \in SUBSET Nat
  OBVIOUS
<1>2. PICK x \in W : x \in 0 .. n
  OBVIOUS
<1>3. n - x \in V
  BY <1>2
<1>4. PICK m \in V : \A v \in V : m <= v
  <2> HIDE DEF V
  <2> QED
    BY <1>1, <1>3, LeastOf
<1>5. m \in 0 .. n /\ n - m \in W
  BY <1>4
<1>6. ASSUME NEW v \in W PROVE n - m >= v
  <2>1. v \in 0 .. n /\ n - (n - v) = v
    OBVIOUS
  <2>2. n - v \in V
    BY <2>1
  <2>3. m <= n - v
    BY <1>4, <2>2
  <2> QED
    BY <1>5, <2>1, <2>3
<1> QED
  BY <1>5, <1>6

-----------------------------------------------------------------------------
(* Sums over finite sets.                                                  *)

\* What an element taken out of a set leaves is smaller.
LEMMA LessOne ==
  ASSUME NEW s, IsFiniteSet(s)
  PROVE  /\ Cardinality(s) \in Nat /\ (Cardinality(s) = 0 <=> s = {})
         /\ \A x \in s : /\ IsFiniteSet(s \ {x}) /\ Cardinality(s \ {x}) \in Nat
                         /\ Cardinality(s \ {x}) < Cardinality(s)
<1>1. Cardinality(s) \in Nat /\ (Cardinality(s) = 0 <=> s = {})
  BY FS_CardinalityType, FS_EmptySet
<1>2. ASSUME NEW x \in s
      PROVE  /\ IsFiniteSet(s \ {x}) /\ Cardinality(s \ {x}) \in Nat
             /\ Cardinality(s \ {x}) < Cardinality(s)
  <2>1. IsFiniteSet(s \ {x}) /\ Cardinality(s \ {x}) = Cardinality(s) - 1
    BY FS_RemoveElement
  <2>2. Cardinality(s \ {x}) \in Nat
    BY <2>1, FS_CardinalityType
  <2> QED
    BY <1>1, <2>1, <2>2
<1> QED
  BY <1>1, <1>2

\* Among the subsets of a finite set that are wrong, one is so that nothing can be
\* taken out of it that leaves another.
LEMMA MinimalOf ==
  ASSUME NEW S, IsFiniteSet(S), NEW W \in SUBSET SUBSET S, W # {}
  PROVE  \E w \in W : \A x \in w : w \ {x} \notin W
<1>1. \A w \in W : IsFiniteSet(w)
  BY FS_Subset
<1> DEFINE N == {Cardinality(w) : w \in W}
<1>2. N \in SUBSET Nat /\ N # {}
  BY <1>1, LessOne
<1>3. PICK n \in N : \A m \in N : n <= m
  <2> HIDE DEF N
  <2> QED
    BY <1>2, LeastOf
<1>4. PICK w \in W : n = Cardinality(w)
  BY <1>3
<1>5. ASSUME NEW x \in w, w \ {x} \in W PROVE FALSE
  <2>1. Cardinality(w \ {x}) \in N
    BY <1>5
  <2>2. n <= Cardinality(w \ {x})
    BY <1>3, <2>1
  <2>3. /\ Cardinality(w) \in Nat /\ Cardinality(w \ {x}) \in Nat
        /\ Cardinality(w \ {x}) < Cardinality(w)
    BY <1>1, <1>5, LessOne
  <2> QED
    BY <1>4, <2>2, <2>3
<1> QED
  BY <1>5

\* The element that a fold takes, and one step of a sum.
AnyOf(s) == CHOOSE x \in s : TRUE

AddedBy(f, S, g) ==
  [s \in SUBSET S |-> IF s = {} THEN 0 ELSE f[AnyOf(s)] + g[s \ {AnyOf(s)}]]

SumAt(f, S) == (CHOOSE g : g = AddedBy(f, S, g))[S]

LEMMA TakenIs == \A s : s # {} => AnyOf(s) \in s
BY Zenon DEF AnyOf

LEMMA AddedExists ==
  ASSUME NEW f, NEW S, IsFiniteSet(S)
  PROVE  \E g : g = AddedBy(f, S, g)
<1>0. \A s \in SUBSET S : IsFiniteSet(s) /\ Cardinality(s) \in Nat /\ Cardinality(s) <= Cardinality(S)
  BY FS_Subset, FS_CardinalityType
<1>1. Cardinality(S) \in Nat
  BY <1>0
<1> DEFINE Below(g, k) == \A s \in SUBSET S : Cardinality(s) < k => g[s] = AddedBy(f, S, g)[s]
           W == {k \in Nat : ~ \E g : g = [s \in SUBSET S |-> g[s]] /\ Below(g, k)}
<1>2. CASE Cardinality(S) + 1 \notin W
  <2>1. PICK g : g = [s \in SUBSET S |-> g[s]] /\ Below(g, Cardinality(S) + 1)
    <3>1. Cardinality(S) + 1 \in Nat
      BY <1>1
    <3> HIDE DEF Below
    <3> QED
      BY <3>1, <1>2
  <2>2. \A s \in SUBSET S : Cardinality(s) < Cardinality(S) + 1
    BY <1>0, <1>1
  <2>3. \A s \in SUBSET S : g[s] = AddedBy(f, S, g)[s]
    BY <2>1, <2>2
  <2>4. g = AddedBy(f, S, g)
    BY <2>1, <2>3, Zenon DEF AddedBy
  <2> QED
    BY <2>4
<1>3. CASE W # {}
  <2>0. W \in SUBSET Nat
    OBVIOUS
  <2>1. PICK k \in W : \A v \in W : k <= v
    <3> HIDE DEF W
    <3> QED
      BY <1>3, <2>0, LeastOf
  <2>2. k # 0
    <3> DEFINE g == [s \in SUBSET S |-> 0]
    <3>1. g = [s \in SUBSET S |-> g[s]] /\ Below(g, 0)
      BY <1>0
    <3> QED
      BY <3>1
  <2>3. k \in Nat /\ k - 1 \in Nat /\ k - 1 \notin W
    <3> HIDE DEF W
    <3>1. k \in Nat /\ k - 1 \in Nat /\ ~(k <= k - 1)
      BY <2>0, <2>1, <2>2
    <3> QED
      BY <3>1, <2>1
  <2>4. PICK g : g = [s \in SUBSET S |-> g[s]] /\ Below(g, k - 1)
    <3> HIDE DEF Below
    <3> QED
      BY <2>3
  <2> DEFINE h == [s \in SUBSET S |-> IF Cardinality(s) < k THEN AddedBy(f, S, g)[s] ELSE 0]
  <2>5. h = [s \in SUBSET S |-> h[s]]
    OBVIOUS
  <2>6. ASSUME NEW s \in SUBSET S, Cardinality(s) < k
        PROVE  h[s] = AddedBy(f, S, h)[s]
    <3>1. h[s] = AddedBy(f, S, g)[s]
      BY <2>6
    <3>2. CASE s = {}
      BY <3>1, <3>2 DEF AddedBy
    <3>3. CASE s # {}
      <4> DEFINE r == s \ {AnyOf(s)}
      <4>1. AnyOf(s) \in s
        BY <3>3, TakenIs
      <4>2. r \in SUBSET S /\ Cardinality(r) \in Nat /\ Cardinality(r) < Cardinality(s)
        BY <4>1, <1>0, LessOne
      <4>3. Cardinality(r) < k - 1 /\ Cardinality(r) < k
        BY <4>2, <2>3, <2>6, <1>0
      <4>4. h[r] = g[r]
        <5> HIDE DEF r
        <5> QED
          BY <4>2, <4>3, <2>4
      <4> HIDE DEF h
      <4> QED
        BY <3>1, <3>3, <4>4, Zenon DEF AddedBy
    <3> QED
      BY <3>2, <3>3
  <2>7. k \notin W
    BY <2>3, <2>5, <2>6
  <2> QED
    BY <2>1, <2>7
<1> QED
  BY <1>2, <1>3

\* How the sum of a subset is found does not depend on what it is a subset of.
LEMMA AddedAgree ==
  ASSUME NEW e, NEW f, NEW S, NEW T, IsFiniteSet(S), S \subseteq T, \A x \in S : e[x] = f[x],
         NEW g, NEW h, g = AddedBy(e, S, g), h = AddedBy(f, T, h)
  PROVE  \A s \in SUBSET S : g[s] = h[s]
<1>1. \A s \in SUBSET S : g[s] = IF s = {} THEN 0 ELSE e[AnyOf(s)] + g[s \ {AnyOf(s)}]
  BY Zenon DEF AddedBy
<1>2. \A s \in SUBSET T : h[s] = IF s = {} THEN 0 ELSE f[AnyOf(s)] + h[s \ {AnyOf(s)}]
  BY Zenon DEF AddedBy
<1> DEFINE W == {s \in SUBSET S : g[s] # h[s]}
<1>3. ASSUME W # {} PROVE FALSE
  <2>0. W \in SUBSET SUBSET S
    OBVIOUS
  <2>1. PICK s \in W : \A x \in s : s \ {x} \notin W
    <3> HIDE DEF W
    <3> QED
      BY <1>3, <2>0, MinimalOf
  <2>2. s \in SUBSET S /\ s \in SUBSET T /\ g[s] # h[s]
    BY <2>1
  <2>3. s # {}
    BY <1>1, <1>2, <2>2
  <2>4. AnyOf(s) \in s
    BY <2>3, TakenIs
  <2>5. g[s \ {AnyOf(s)}] = h[s \ {AnyOf(s)}]
    BY <2>1, <2>2, <2>4
  <2>6. e[AnyOf(s)] = f[AnyOf(s)]
    BY <2>2, <2>4
  <2> HIDE DEF W
  <2> QED
    BY <1>1, <1>2, <2>2, <2>3, <2>5, <2>6
<1> QED
  BY <1>3

LEMMA AddedWithin ==
  \A f, S, T, g, h :
    IsFiniteSet(S) /\ S \subseteq T /\ g = AddedBy(f, S, g) /\ h = AddedBy(f, T, h) =>
      g[S] = h[S]
<1> SUFFICES ASSUME NEW f, NEW S, NEW T, NEW g, NEW h, IsFiniteSet(S), S \subseteq T,
                    g = AddedBy(f, S, g), h = AddedBy(f, T, h)
             PROVE  g[S] = h[S]
  OBVIOUS
<1>1. \A s \in SUBSET S : g[s] = h[s]
  BY AddedAgree
<1> QED
  BY <1>1

\* Values that are the same have the same sum.
LEMMA SumSame ==
  ASSUME NEW e, NEW f, NEW S, IsFiniteSet(S), \A x \in S : e[x] = f[x]
  PROVE  SumAt(e, S) = SumAt(f, S)
<1>1. (CHOOSE g : g = AddedBy(e, S, g)) = AddedBy(e, S, CHOOSE g : g = AddedBy(e, S, g))
  BY AddedExists
<1>2. (CHOOSE g : g = AddedBy(f, S, g)) = AddedBy(f, S, CHOOSE g : g = AddedBy(f, S, g))
  BY AddedExists
<1> DEFINE g == CHOOSE i : i = AddedBy(e, S, i)
           h == CHOOSE i : i = AddedBy(f, S, i)
<1>3. \A s \in SUBSET S : g[s] = h[s]
  <2>1. g = AddedBy(e, S, g) /\ h = AddedBy(f, S, h) /\ S \subseteq S
    BY <1>1, <1>2
  <2> HIDE DEF g, h
  <2> QED
    BY <2>1, AddedAgree
<1> QED
  BY <1>3 DEF SumAt

LEMMA SumOfEmpty == \A f : SumAt(f, {}) = 0
<1> SUFFICES ASSUME NEW f PROVE SumAt(f, {}) = 0
  OBVIOUS
<1>1. \E g : g = AddedBy(f, {}, g)
  BY FS_EmptySet, AddedExists
<1> DEFINE g == CHOOSE i : i = AddedBy(f, {}, i)
<1>2. g = AddedBy(f, {}, g)
  BY <1>1
<1> HIDE DEF g
<1>3. g[{}] = 0
  BY <1>2 DEF AddedBy
<1> QED
  BY <1>3 DEF g, SumAt

LEMMA SumPart ==
  ASSUME NEW f, NEW S, IsFiniteSet(S), NEW R \in SUBSET S,
         NEW h, h = AddedBy(f, S, h)
  PROVE  h[R] = SumAt(f, R)
<1>1. IsFiniteSet(R) /\ R \subseteq S
  BY FS_Subset
<1> DEFINE g == CHOOSE i : i = AddedBy(f, R, i)
<1>2. g = AddedBy(f, R, g)
  BY <1>1, AddedExists
<1>3. SumAt(f, R) = g[R]
  BY DEF SumAt
<1> HIDE DEF g
<1>4. g[R] = h[R]
  BY <1>1, <1>2, AddedWithin
<1> QED
  BY <1>3, <1>4

LEMMA SumUnfolds ==
  ASSUME NEW f, NEW S, IsFiniteSet(S), S # {}
  PROVE  SumAt(f, S) = f[AnyOf(S)] + SumAt(f, S \ {AnyOf(S)})
<1> DEFINE h == CHOOSE i : i = AddedBy(f, S, i)
<1>1. h = AddedBy(f, S, h)
  BY AddedExists
<1> HIDE DEF h
<1>2. h[S] = f[AnyOf(S)] + h[S \ {AnyOf(S)}]
  BY <1>1, Zenon DEF AddedBy
<1>3. h[S] = SumAt(f, S) /\ h[S \ {AnyOf(S)}] = SumAt(f, S \ {AnyOf(S)})
  <2>1. S \in SUBSET S /\ S \ {AnyOf(S)} \in SUBSET S
    OBVIOUS
  <2> QED
    BY <2>1, <1>1, SumPart
<1> QED
  BY <1>2, <1>3

LEMMA SumIsNat ==
  ASSUME NEW f, NEW S, IsFiniteSet(S), \A x \in S : f[x] \in Nat
  PROVE  \A s \in SUBSET S : SumAt(f, s) \in Nat
<1> DEFINE W == {s \in SUBSET S : SumAt(f, s) \notin Nat}
<1>1. ASSUME W # {} PROVE FALSE
  <2>0. W \in SUBSET SUBSET S
    OBVIOUS
  <2>1. PICK s \in W : \A x \in s : s \ {x} \notin W
    <3> HIDE DEF W
    <3> QED
      BY <1>1, <2>0, MinimalOf
  <2>2. s \in SUBSET S /\ SumAt(f, s) \notin Nat /\ IsFiniteSet(s)
    BY <2>1, FS_Subset
  <2>3. s # {}
    BY <2>2, SumOfEmpty
  <2>4. AnyOf(s) \in s /\ f[AnyOf(s)] \in Nat
    BY <2>2, <2>3, TakenIs
  <2>5. SumAt(f, s \ {AnyOf(s)}) \in Nat
    BY <2>1, <2>2, <2>4
  <2>6. SumAt(f, s) = f[AnyOf(s)] + SumAt(f, s \ {AnyOf(s)})
    BY <2>2, <2>3, SumUnfolds
  <2> QED
    BY <2>2, <2>4, <2>5, <2>6
<1> QED
  BY <1>1

\* Any element can be taken out first.
LEMMA SumWithout ==
  ASSUME NEW f, NEW S, IsFiniteSet(S), \A x \in S : f[x] \in Nat
  PROVE  \A x \in S : /\ SumAt(f, S) = f[x] + SumAt(f, S \ {x})
                      /\ SumAt(f, S \ {x}) \in Nat /\ SumAt(f, S) \in Nat
<1>0. \A s \in SUBSET S : SumAt(f, s) \in Nat /\ IsFiniteSet(s)
  BY SumIsNat, FS_Subset
<1> DEFINE W == {s \in SUBSET S : ~ \A x \in s : SumAt(f, s) = f[x] + SumAt(f, s \ {x})}
<1>1. ASSUME W # {} PROVE FALSE
  <2>0. W \in SUBSET SUBSET S
    OBVIOUS
  <2>1. PICK s \in W : \A x \in s : s \ {x} \notin W
    <3> HIDE DEF W
    <3> QED
      BY <1>1, <2>0, MinimalOf
  <2>2. PICK x \in s : ~(SumAt(f, s) = f[x] + SumAt(f, s \ {x}))
    BY <2>1
  <2>3. s \in SUBSET S /\ IsFiniteSet(s) /\ s # {}
    BY <1>0, <2>1, <2>2
  <2> DEFINE y == AnyOf(s)
  <2>4. y \in s /\ SumAt(f, s) = f[y] + SumAt(f, s \ {y})
    BY <2>3, TakenIs, SumUnfolds
  <2> HIDE DEF y
  <2>5. x # y
    BY <2>2, <2>4
  <2>6. SumAt(f, s \ {y}) = f[x] + SumAt(f, (s \ {y}) \ {x})
    <3>1. s \ {y} \notin W /\ s \ {y} \in SUBSET S /\ x \in s \ {y}
      BY <2>1, <2>3, <2>4, <2>5
    <3> QED
      BY <3>1
  <2>7. SumAt(f, s \ {x}) = f[y] + SumAt(f, (s \ {x}) \ {y})
    <3>1. s \ {x} \notin W /\ s \ {x} \in SUBSET S /\ y \in s \ {x}
      BY <2>1, <2>3, <2>4, <2>5
    <3> QED
      BY <3>1
  <2>8. (s \ {y}) \ {x} = (s \ {x}) \ {y}
    OBVIOUS
  <2> DEFINE rest == SumAt(f, (s \ {x}) \ {y})
  <2>9. f[x] \in Nat /\ f[y] \in Nat /\ rest \in Nat
    <3>1. (s \ {x}) \ {y} \in SUBSET S
      BY <2>3
    <3> QED
      BY <1>0, <2>3, <2>4, <3>1
  <2>10. SumAt(f, s) = f[y] + (f[x] + rest) /\ SumAt(f, s \ {x}) = f[y] + rest
    BY <2>4, <2>6, <2>7, <2>8, Zenon
  <2> HIDE DEF rest, W
  <2>11. f[y] + (f[x] + rest) = f[x] + (f[y] + rest)
    BY <2>9
  <2> QED
    BY <2>2, <2>10, <2>11
<1>2. \A x \in S : SumAt(f, S) = f[x] + SumAt(f, S \ {x})
  <2>1. S \in SUBSET S /\ S \notin W
    BY <1>1
  <2> QED
    BY <2>1
<1>3. \A x \in S : SumAt(f, S \ {x}) \in Nat /\ SumAt(f, S) \in Nat
  <2>1. S \in SUBSET S /\ \A x \in S : S \ {x} \in SUBSET S
    OBVIOUS
  <2> QED
    BY <2>1, <1>0
<1> QED
  BY <1>2, <1>3

-----------------------------------------------------------------------------
(* Sequences.                                                              *)

\* Concatenation under a name of its own: what follows needs only its laws.
Cat(s, t) == s \o t

LEMMA CatType ==
  \A S : \A x, y \in Seq(S) : Cat(x, y) \in Seq(S) /\ Len(Cat(x, y)) = Len(x) + Len(y)
BY ConcatProperties DEF Cat

LEMMA CatAssoc == \A S : \A x, y, z \in Seq(S) : Cat(Cat(x, y), z) = Cat(x, Cat(y, z))
BY ConcatAssociative DEF Cat

LEMMA CatEmpty == \A S : \A x \in Seq(S) : Cat(x, <<>>) = x /\ Cat(<<>>, x) = x
BY ConcatEmptySeq DEF Cat

LEMMA CatAt ==
  ASSUME NEW S, NEW x \in Seq(S), NEW y \in Seq(S)
  PROVE  /\ Cat(x, y) \in Seq(S) /\ Len(Cat(x, y)) = Len(x) + Len(y)
         /\ \A i \in 1 .. Len(x) + Len(y) :
              Cat(x, y)[i] = IF i <= Len(x) THEN x[i] ELSE y[i - Len(x)]
<1>1. /\ x \o y \in Seq(S) /\ Len(x \o y) = Len(x) + Len(y)
      /\ \A i \in 1 .. Len(x) + Len(y) :
           (x \o y)[i] = IF i <= Len(x) THEN x[i] ELSE y[i - Len(x)]
  BY ConcatProperties
<1> QED
  BY <1>1, Zenon DEF Cat

\* A function of 1 .. n is a sequence of that length.
LEMMA SeqFrom ==
  ASSUME NEW S, NEW n \in Nat, NEW s \in [1 .. n -> S]
  PROVE  s \in Seq(S) /\ Len(s) = n /\ DOMAIN s = 1 .. n
BY SeqDef, LenProperties

\* A sequence is cut in two after its first n.
LEMMA CutAfter ==
  ASSUME NEW S, NEW s \in Seq(S), NEW n \in 0 .. Len(s)
  PROVE  /\ SubSeq(s, 1, n) \in Seq(S) /\ Len(SubSeq(s, 1, n)) = n
         /\ \A i \in 1 .. n : SubSeq(s, 1, n)[i] = s[i]
         /\ SubSeq(s, n + 1, Len(s)) \in Seq(S) /\ Len(SubSeq(s, n + 1, Len(s))) = Len(s) - n
         /\ \A i \in 1 .. Len(s) - n : SubSeq(s, n + 1, Len(s))[i] = s[n + i]
         /\ Cat(SubSeq(s, 1, n), SubSeq(s, n + 1, Len(s))) = s
<1> DEFINE a == SubSeq(s, 1, n)
           b == SubSeq(s, n + 1, Len(s))
<1>1. Len(s) \in Nat /\ n \in Nat /\ n <= Len(s) /\ \A i \in 1 .. Len(s) : s[i] \in S
  BY ElementOfSeq, LenProperties
<1>2. a \in Seq(S) /\ Len(a) = n /\ \A i \in 1 .. n : a[i] = s[i]
  <2>1. \A i \in 1 .. n : s[i] \in S
    BY <1>1
  <2>2. /\ a \in Seq(S)
        /\ Len(a) = IF 1 <= n THEN n - 1 + 1 ELSE 0
        /\ \A i \in 1 .. n - 1 + 1 : a[i] = s[1 + i - 1]
    BY <1>1, <2>1, SubSeqProperties
  <2> QED
    BY <1>1, <2>2
<1>3. b \in Seq(S) /\ Len(b) = Len(s) - n /\ \A i \in 1 .. Len(s) - n : b[i] = s[n + i]
  <2>1. \A i \in n + 1 .. Len(s) : s[i] \in S
    BY <1>1
  <2>2. n + 1 \in Int /\ Len(s) \in Int
    BY <1>1
  <2>3. /\ b \in Seq(S)
        /\ Len(b) = IF n + 1 <= Len(s) THEN Len(s) - (n + 1) + 1 ELSE 0
        /\ \A i \in 1 .. Len(s) - (n + 1) + 1 : b[i] = s[(n + 1) + i - 1]
    BY <2>1, <2>2, SubSeqProperties
  <2> QED
    BY <1>1, <2>3
<1> HIDE DEF a, b
<1>0. /\ Cat(a, b) \in Seq(S) /\ Len(Cat(a, b)) = Len(a) + Len(b)
      /\ \A i \in 1 .. Len(a) + Len(b) :
           Cat(a, b)[i] = IF i <= Len(a) THEN a[i] ELSE b[i - Len(a)]
  BY <1>2, <1>3, CatAt
<1>4. Cat(a, b) \in Seq(S) /\ Len(Cat(a, b)) = Len(s)
  BY <1>0, <1>1, <1>2, <1>3
<1>5. ASSUME NEW i \in 1 .. Len(s) PROVE Cat(a, b)[i] = s[i]
  <2>1. CASE i <= n
    BY <1>0, <1>1, <1>2, <1>3, <2>1
  <2>2. CASE ~ (i <= n)
    <3>1. i - n \in 1 .. Len(s) - n /\ n + (i - n) = i
      BY <1>1, <2>2
    <3> QED
      BY <1>0, <1>1, <1>2, <1>3, <2>2, <3>1
  <2> QED
    BY <2>1, <2>2
<1>6. Cat(a, b) = s
  BY <1>4, <1>5, SeqEqual
<1> QED
  BY <1>2, <1>3, <1>6 DEF a, b

-----------------------------------------------------------------------------
(* The walk.                                                               *)

UpTo(S, i) == {j \in S : j <= i}
RankIn(S, i) == Cardinality(UpTo(S, i))

\* A number of the set has one rank more than the one before it.
LEMMA RankOf ==
  ASSUME NEW n \in Nat, NEW S \in SUBSET (1 .. n)
  PROVE  /\ Cardinality(S) \in Nat /\ RankIn(S, 0) = 0 /\ RankIn(S, n) = Cardinality(S)
         /\ \A i \in 0 .. n : RankIn(S, i) \in Nat /\ RankIn(S, i) <= Cardinality(S)
         /\ \A i \in 1 .. n : RankIn(S, i) = RankIn(S, i - 1) + (IF i \in S THEN 1 ELSE 0)
         /\ \A i, j \in 0 .. n : i <= j => RankIn(S, i) <= RankIn(S, j)
<1>1. IsFiniteSet(S)
  <2>1. IsFiniteSet(1 .. n)
    BY FS_Interval
  <2> QED
    BY <2>1, FS_Subset
<1>2. \A T \in SUBSET S : IsFiniteSet(T) /\ Cardinality(T) \in Nat
  BY <1>1, FS_Subset, FS_CardinalityType
<1>3. \A T \in SUBSET S : \A U \in SUBSET T : Cardinality(U) <= Cardinality(T)
  BY <1>2, FS_Subset
<1>0. \A j \in S : j \in Nat /\ 1 <= j /\ j <= n
  OBVIOUS
<1>4. UpTo(S, 0) = {} /\ UpTo(S, n) = S /\ Cardinality({}) = 0
  <2>1. \A j \in S : ~ (j <= 0)
    BY <1>0
  <2>2. UpTo(S, 0) = {}
    BY <2>1, Zenon DEF UpTo
  <2>3. UpTo(S, n) = S
    BY <1>0, Zenon DEF UpTo
  <2> QED
    BY <2>2, <2>3, FS_EmptySet
<1>5. \A i : UpTo(S, i) \in SUBSET S
  BY DEF UpTo
<1>6. ASSUME NEW i \in 1 .. n
      PROVE  RankIn(S, i) = RankIn(S, i - 1) + (IF i \in S THEN 1 ELSE 0)
  <2>1. CASE i \in S
    <3>0. \A j \in S : j <= i <=> j <= i - 1 \/ j = i
      BY <1>0
    <3>4. ~ (i <= i - 1)
      OBVIOUS
    <3>5. i \notin UpTo(S, i - 1)
      BY <3>4, Zenon DEF UpTo
    <3>6. UpTo(S, i) = UpTo(S, i - 1) \union {i}
      BY <2>1, <3>0, Zenon DEF UpTo
    <3>1. UpTo(S, i) = UpTo(S, i - 1) \union {i} /\ i \notin UpTo(S, i - 1)
      BY <3>5, <3>6
    <3>2. IsFiniteSet(UpTo(S, i - 1))
      BY <1>2, <1>5
    <3>3. Cardinality(UpTo(S, i - 1) \union {i}) = Cardinality(UpTo(S, i - 1)) + 1
      BY <3>1, <3>2, FS_AddElement
    <3> QED
      BY <2>1, <3>1, <3>3 DEF RankIn
  <2>2. CASE i \notin S
    <3>0. \A j \in S : j <= i <=> j <= i - 1
      BY <1>0, <2>2
    <3>1. UpTo(S, i) = UpTo(S, i - 1)
      BY <3>0 DEF UpTo
    <3>2. Cardinality(UpTo(S, i - 1)) \in Nat
      BY <1>2, <1>5
    <3> QED
      BY <2>2, <3>1, <3>2 DEF RankIn
  <2> QED
    BY <2>1, <2>2
<1>7. ASSUME NEW i \in 0 .. n, NEW j \in 0 .. n, i <= j
      PROVE  RankIn(S, i) <= RankIn(S, j)
  <2>1. UpTo(S, i) \in SUBSET UpTo(S, j)
    <3>1. \A x \in S : x <= i => x <= j
      BY <1>0, <1>7
    <3> QED
      BY <3>1, Zenon DEF UpTo
  <2> QED
    BY <1>3, <1>5, <2>1 DEF RankIn
<1>8. \A i : RankIn(S, i) \in Nat /\ RankIn(S, i) <= Cardinality(S)
  BY <1>2, <1>3, <1>5 DEF RankIn
<1> QED
  BY <1>2, <1>4, <1>6, <1>7, <1>8 DEF RankIn

\* Every rank from 1 on is that of one number of the set.
LEMMA OfRank ==
  ASSUME NEW n \in Nat, NEW S \in SUBSET (1 .. n), NEW k \in 1 .. Cardinality(S)
  PROVE  \E i \in S : RankIn(S, i) = k
<1> DEFINE W == {i \in 0 .. n : k <= RankIn(S, i)}
<1>0. /\ Cardinality(S) \in Nat /\ RankIn(S, 0) = 0 /\ RankIn(S, n) = Cardinality(S)
      /\ \A i \in 0 .. n : RankIn(S, i) \in Nat
      /\ \A i \in 1 .. n : RankIn(S, i) = RankIn(S, i - 1) + (IF i \in S THEN 1 ELSE 0)
  BY RankOf
<1>1. W \in SUBSET Nat /\ n \in W
  BY <1>0
<1>2. PICK i \in W : \A j \in W : i <= j
  <2> HIDE DEF W
  <2> QED
    BY <1>1, LeastOf
<1>3. i \in 0 .. n /\ k <= RankIn(S, i)
  BY <1>2
<1>4. i # 0
  BY <1>0, <1>3
<1>5. i \in 1 .. n /\ i - 1 \in 0 .. n
  BY <1>3, <1>4
<1>6. ~ (k <= RankIn(S, i - 1))
  <2>1. i - 1 \notin W
    BY <1>2, <1>5
  <2> QED
    BY <1>5, <2>1
<1>7. RankIn(S, i - 1) \in Nat /\ RankIn(S, i) = RankIn(S, i - 1) + (IF i \in S THEN 1 ELSE 0)
  BY <1>0, <1>5
<1>8. k \in Nat
  BY <1>0
<1> QED
  BY <1>3, <1>6, <1>7, <1>8

\* InOrder goes through the set, upwards and over every number of it.
LEMMA InOrderIs ==
  ASSUME NEW n \in Nat, NEW S \in SUBSET (1 .. n)
  PROVE  /\ Cardinality(S) \in Nat /\ Cardinality(S) <= n
         /\ InOrder(S) \in Seq(S) /\ Len(InOrder(S)) = Cardinality(S)
         /\ DOMAIN InOrder(S) = 1 .. Cardinality(S)
         /\ \A k \in 1 .. Cardinality(S) : InOrder(S)[k] \in S
         /\ \A j, k \in 1 .. Cardinality(S) : j < k => InOrder(S)[j] < InOrder(S)[k]
         /\ \A i \in S : \E k \in 1 .. Cardinality(S) : InOrder(S)[k] = i
<1> DEFINE c == Cardinality(S)
           m == InOrder(S)
<1>1. /\ c \in Nat
      /\ \A i \in 0 .. n : RankIn(S, i) \in Nat /\ RankIn(S, i) <= c
      /\ \A i \in 1 .. n : RankIn(S, i) = RankIn(S, i - 1) + (IF i \in S THEN 1 ELSE 0)
      /\ \A i, j \in 0 .. n : i <= j => RankIn(S, i) <= RankIn(S, j)
  BY RankOf
<1>2. m = [k \in 1 .. c |-> CHOOSE i \in S : RankIn(S, i) = k]
  BY DEF InOrder, RankIn, UpTo
<1> HIDE DEF c, m
<1>3. \A k \in 1 .. c : m[k] \in S /\ RankIn(S, m[k]) = k
  <2> SUFFICES ASSUME NEW k \in 1 .. c PROVE m[k] \in S /\ RankIn(S, m[k]) = k
    OBVIOUS
  <2>1. \E i \in S : RankIn(S, i) = k
    BY OfRank DEF c
  <2>2. m[k] = CHOOSE i \in S : RankIn(S, i) = k
    BY <1>2
  <2> QED
    BY <2>1, <2>2
<1>4. ASSUME NEW j \in 1 .. c, NEW k \in 1 .. c, j < k
      PROVE  m[j] < m[k]
  <2>1. m[j] \in 1 .. n /\ m[k] \in 1 .. n /\ RankIn(S, m[j]) = j /\ RankIn(S, m[k]) = k
    BY <1>3
  <2>2. m[k] <= m[j] => RankIn(S, m[k]) <= RankIn(S, m[j])
    BY <1>1, <2>1
  <2>3. ~ (k <= j)
    BY <1>1, <1>4
  <2> QED
    BY <2>1, <2>2, <2>3
<1>5. ASSUME NEW i \in S
      PROVE  \E k \in 1 .. c : m[k] = i
  <2> DEFINE k == RankIn(S, i)
  <2>1. i \in 1 .. n /\ k \in Nat /\ k <= c /\ k = RankIn(S, i - 1) + 1
    BY <1>1
  <2>2. i - 1 \in 0 .. n
    BY <2>1
  <2>3. RankIn(S, i - 1) \in Nat
    BY <1>1, <2>2
  <2>4. k \in 1 .. c
    BY <1>1, <2>1, <2>3
  <2>5. m[k] \in S /\ RankIn(S, m[k]) = k
    BY <1>3, <2>4
  <2>6. ASSUME NEW a \in S, NEW b \in S, a < b
        PROVE  RankIn(S, a) # RankIn(S, b)
    <3>1. a \in 1 .. n /\ b \in 1 .. n /\ b - 1 \in 0 .. n /\ a \in 0 .. n /\ a <= b - 1
      BY <2>6
    <3>2. RankIn(S, a) <= RankIn(S, b - 1) /\ RankIn(S, b) = RankIn(S, b - 1) + 1
      BY <1>1, <3>1
    <3>3. RankIn(S, a) \in Nat /\ RankIn(S, b - 1) \in Nat
      BY <1>1, <3>1
    <3> QED
      BY <3>2, <3>3
  <2>7. ~ (m[k] < i) /\ ~ (i < m[k])
    <3> HIDE DEF k
    <3> QED
      BY <2>5, <2>6 DEF k
  <2>9. m[k] \in Nat /\ i \in Nat
    <3>1. \A j \in S : j \in Nat
      OBVIOUS
    <3> QED
      BY <2>5, <3>1, Zenon
  <2>8. m[k] = i
    BY <2>7, <2>9
  <2> QED
    BY <2>4, <2>8
<1>6. m \in Seq(S) /\ Len(m) = c /\ DOMAIN m = 1 .. c
  <2>1. m \in [1 .. c -> S]
    BY <1>2, <1>3
  <2> QED
    BY <1>1, <2>1, SeqFrom
<1>7. c <= n
  <2>1. IsFiniteSet(1 .. n) /\ Cardinality(1 .. n) = n
    BY FS_Interval
  <2>2. c <= Cardinality(1 .. n)
    BY <2>1, FS_Subset DEF c
  <2> QED
    BY <2>1, <2>2
<1> QED
  BY <1>1, <1>3, <1>4, <1>5, <1>6, <1>7 DEF c, m

\* What AtPlaces keeps of a sequence, and what comes first of it.
LEMMA AtPlacesIs ==
  ASSUME NEW S, NEW s \in Seq(S), NEW P \in SUBSET DOMAIN s
  PROVE  LET a == AtPlaces(s, P)
         IN /\ a \in Seq(S) /\ Len(a) \in Nat /\ DOMAIN a = 1 .. Len(a)
            /\ IsFiniteSet(P) /\ Len(a) = Cardinality(P) /\ Len(s) \in Nat
            /\ \A k \in 1 .. Len(a) : \E i \in P : a[k] = s[i] /\ (i = 1 => k = 1)
            /\ \A i \in P : \E k \in 1 .. Len(a) : a[k] = s[i]
<1> DEFINE a == AtPlaces(s, P)
           m == InOrder(P)
           c == Cardinality(P)
<1>1. Len(s) \in Nat /\ DOMAIN s = 1 .. Len(s) /\ \A i \in 1 .. Len(s) : s[i] \in S
  BY LenProperties, ElementOfSeq
<1>2. /\ c \in Nat /\ DOMAIN m = 1 .. c
      /\ \A k \in 1 .. c : m[k] \in P
      /\ \A j, k \in 1 .. c : j < k => m[j] < m[k]
      /\ \A i \in P : \E k \in 1 .. c : m[k] = i
  <2>1. P \in SUBSET (1 .. Len(s))
    BY <1>1
  <2> QED
    BY <1>1, <2>1, InOrderIs
<1>3. a = [k \in 1 .. c |-> s[m[k]]]
  <2>1. a = [k \in DOMAIN m |-> s[m[k]]]
    BY DEF AtPlaces
  <2> QED
    BY <1>2, <2>1
<1> HIDE DEF a, m, c
<1>4. a \in Seq(S) /\ Len(a) = c /\ DOMAIN a = 1 .. c
  <2>1. \A k \in 1 .. c : s[m[k]] \in S
    BY <1>1, <1>2
  <2>2. a \in [1 .. c -> S]
    BY <1>3, <2>1
  <2> QED
    BY <1>2, <2>2, SeqFrom
<1>5. ASSUME NEW k \in 1 .. c
      PROVE  m[k] \in P /\ a[k] = s[m[k]] /\ (m[k] = 1 => k = 1)
  <2>1. m[k] \in P /\ a[k] = s[m[k]]
    BY <1>2, <1>3
  <2>2. ASSUME m[k] = 1, k # 1 PROVE FALSE
    <3>1. 1 \in 1 .. c /\ 1 < k
      BY <1>2, <2>2
    <3>2. m[1] < m[k] /\ m[1] \in 1 .. Len(s)
      BY <1>1, <1>2, <3>1
    <3> QED
      BY <1>1, <2>2, <3>2
  <2> QED
    BY <2>1, <2>2
<1>6. ASSUME NEW i \in P PROVE \E k \in 1 .. c : a[k] = s[i]
  BY <1>2, <1>5
<1>7. IsFiniteSet(P)
  <2>1. IsFiniteSet(1 .. Len(s)) /\ P \in SUBSET (1 .. Len(s))
    BY <1>1, FS_Interval
  <2> QED
    BY <2>1, FS_Subset
<1>8. c = Cardinality(P)
  BY DEF c
<1> QED
  BY <1>1, <1>2, <1>4, <1>5, <1>6, <1>7, <1>8 DEF a
=============================================================================
