--------------------------- MODULE Listing_proofs ---------------------------
(***************************************************************************)
(* What is listed and what is there: the enumeration of a directory        *)
(* (DirScan), the picker of archives (Picker), the index of an archive and *)
(* the root of the share (ArchiveIndex).                                   *)
(***************************************************************************)
EXTENDS DirScan, Picker, ArchiveIndex, Ordered_proofs

-----------------------------------------------------------------------------
(* DirScan: what a page holds.                                             *)

\* The entries that match after the cursor, upwards and all of them.
LEMMA MatchedIs ==
  ASSUME NEW p \in SUBSET EntryPositions, NEW pos \in Nat
  PROVE  LET m == MatchedAfter(pos, p)
         IN /\ m \in Seq(EntryPositions) /\ Len(m) \in Nat /\ DOMAIN m = 1 .. Len(m)
            /\ \A k \in 1 .. Len(m) : m[k] \in p /\ m[k] > pos
            /\ \A j, k \in 1 .. Len(m) : j < k => m[j] < m[k]
            /\ \A i \in p : i > pos => \E k \in 1 .. Len(m) : m[k] = i
<1> DEFINE S == {i \in p : i > pos}
           m == MatchedAfter(pos, p)
<1>1. EntryCount \in Nat /\ EntryPositions = 1 .. EntryCount
  BY DirScanAssumption, LenProperties DEF EntryPositions, EntryCount
<1>2. S \in SUBSET (1 .. EntryCount)
  BY <1>1
<1>3. m = InOrder(S)
  BY DEF MatchedAfter
<1>4. S \subseteq EntryPositions
  OBVIOUS
<1> HIDE DEF S, m
<1>5. /\ Cardinality(S) \in Nat
      /\ m \in Seq(S) /\ Len(m) = Cardinality(S) /\ DOMAIN m = 1 .. Cardinality(S)
      /\ \A k \in 1 .. Cardinality(S) : m[k] \in S
      /\ \A j, k \in 1 .. Cardinality(S) : j < k => m[j] < m[k]
      /\ \A i \in S : \E k \in 1 .. Cardinality(S) : m[k] = i
  BY <1>1, <1>2, <1>3, InOrderIs
<1>6. m \in Seq(EntryPositions)
  BY <1>4, <1>5, SeqMonotonic
<1> QED
  BY <1>5, <1>6 DEF S, m

\* A page is what a match begins with.
LEMMA PageIs ==
  ASSUME NEW m \in Seq(EntryPositions), NEW buffer \in Buffers, NEW single \in BOOLEAN,
         m # << >>
  PROVE  \E n \in 0 .. Len(m) : Page(m, buffer, single) = SubSeq(m, 1, n)
<1>1. Len(m) \in Nat /\ Len(m) > 0
  BY LenProperties, EmptySeq
<1> DEFINE cap == PageCap(m, buffer, single)
<1>2. cap \in 0 .. Len(m)
  <2>1. CASE single
    BY <1>1, <2>1 DEF PageCap
  <2>2. CASE ~single
    <3> DEFINE most == Max({1, buffer \div Fixed})
    <3>1. buffer \div Fixed \in Nat
      <4>1. buffer \in Nat /\ Fixed \in Nat /\ Fixed > 0
        BY DirScanAssumption
      <4> QED
        BY <4>1
    <3>2. most \in {1, buffer \div Fixed}
      <4>1. \E x \in {1, buffer \div Fixed} : \A y \in {1, buffer \div Fixed} : x >= y
        BY <3>1
      <4> QED
        BY <4>1 DEF Max
    <3>3. most \in Nat
      BY <3>1, <3>2
    <3>4. cap = Min({Len(m), most})
      BY <2>2 DEF PageCap
    <3> HIDE DEF most
    <3>5. \E x \in {Len(m), most} : \A y \in {Len(m), most} : x <= y
      BY <1>1, <3>3
    <3>6. cap \in {Len(m), most} /\ \A y \in {Len(m), most} : cap <= y
      BY <3>4, <3>5 DEF Min
    <3> QED
      BY <1>1, <3>3, <3>6
  <2> QED
    BY <2>1, <2>2
<1> HIDE DEF cap
<1> DEFINE copied == SubSeq(m, 1, cap)
<1>3. copied \in Seq(EntryPositions) /\ Len(copied) = cap
      /\ \A i \in 1 .. cap : copied[i] = m[i]
  BY <1>2, CutAfter
<1> DEFINE fits == {n \in 1 .. Len(copied) : \A k \in 1 .. n : EndOf(copied, k) <= buffer}
           last == Max(fits \cup {0})
<1>4. last \in 0 .. cap
  <2> DEFINE W == fits \cup {0}
  <2>1. cap \in Nat /\ W \in SUBSET (0 .. cap) /\ W # {}
    BY <1>2, <1>3
  <2> HIDE DEF W
  <2>2. \E x \in W : \A y \in W : x >= y
    BY <2>1, GreatestOf
  <2>3. Max(W) \in W
    BY <2>2 DEF Max
  <2> QED
    BY <2>1, <2>3 DEF W
<1>5. Page(m, buffer, single) = SubSeq(copied, 1, last)
  BY DEF Page, Encoded, cap
<1> HIDE DEF copied, last
<1>6. SubSeq(copied, 1, last) = SubSeq(m, 1, last)
  <2>1. last \in 0 .. Len(m) /\ last \in 0 .. Len(copied)
    BY <1>2, <1>3, <1>4
  <2>2. /\ SubSeq(copied, 1, last) \in Seq(EntryPositions)
        /\ Len(SubSeq(copied, 1, last)) = last
        /\ \A i \in 1 .. last : SubSeq(copied, 1, last)[i] = copied[i]
    BY <1>3, <2>1, CutAfter
  <2>3. /\ SubSeq(m, 1, last) \in Seq(EntryPositions)
        /\ Len(SubSeq(m, 1, last)) = last
        /\ \A i \in 1 .. last : SubSeq(m, 1, last)[i] = m[i]
    BY <2>1, CutAfter
  <2>4. \A i \in 1 .. last : copied[i] = m[i]
    BY <1>2, <1>3, <1>4
  <2> QED
    BY <2>2, <2>3, <2>4, SeqEqual
<1> QED
  BY <1>1, <1>2, <1>4, <1>5, <1>6

-----------------------------------------------------------------------------
(* DirScan: where the entries of a page end.                               *)

\* What the entries of a page take if padded.
PaddedAt(page) == [i \in DOMAIN page |-> Padded(EntrySize[page[i]])]

SumStep(page, S, g) ==
  [s \in SUBSET S |-> IF s = {} THEN 0
                      ELSE Padded(EntrySize[page[AnyOf(s)]]) + g[s \ {AnyOf(s)}]]

LEMMA SumStepIs ==
  ASSUME NEW page, NEW S \in SUBSET DOMAIN page
  PROVE  \A g : SumStep(page, S, g) = AddedBy(PaddedAt(page), S, g)
<1> TAKE g
<1>1. ASSUME NEW s \in SUBSET S, s # {}
      PROVE  Padded(EntrySize[page[AnyOf(s)]]) = PaddedAt(page)[AnyOf(s)]
  <2>1. AnyOf(s) \in DOMAIN page
    BY <1>1, TakenIs
  <2> QED
    BY <2>1 DEF PaddedAt
<1> QED
  BY <1>1, Zenon DEF SumStep, AddedBy

LEMMA ChosenIs ==
  ASSUME NEW page, NEW S \in SUBSET DOMAIN page
  PROVE  (CHOOSE g : g = SumStep(page, S, g)) = (CHOOSE g : g = AddedBy(PaddedAt(page), S, g))
BY SumStepIs, Zenon

LEMMA EndIs ==
  \A page, n : EndOf(page, n) =
    (CHOOSE g : g = SumStep(page, 1 .. n - 1, g))[1 .. n - 1] + EntrySize[page[n]]
BY Zenon DEF EndOf, MapThenSumSet, MapThenFoldSet, SumStep, AnyOf

LEMMA DivIs ==
  \A x \in Nat : \A a \in Nat \ {0} :
     /\ x \div a \in Nat /\ x % a \in Nat /\ x % a < a /\ x = ((x \div a) * a) + (x % a)
BY SMTT(30)

LEMMA PaddedIs ==
  ASSUME NEW n \in Nat
  PROVE  Padded(n) \in Nat /\ Padded(n) >= n
<1>1. EntryAlign \in Nat \ {0}
  BY DirScanAssumption
<1> DEFINE x == n + EntryAlign - 1
           q == x \div EntryAlign
           r == x % EntryAlign
<1>2. x \in Nat
  BY <1>1
<1>3. q \in Nat /\ r \in Nat /\ r < EntryAlign /\ x = q * EntryAlign + r
  <2> HIDE DEF x
  <2> QED
    BY <1>1, <1>2, DivIs
<1>4. Padded(n) = q * EntryAlign
  BY DEF Padded
<1> DEFINE w == q * EntryAlign
<1>5. w \in Nat
  BY <1>1, <1>3
<1> HIDE DEF q, r, w
<1> QED
  BY <1>1, <1>3, <1>4, <1>5 DEF w

LEMMA SizeIs ==
  ASSUME NEW page \in Seq(EntryPositions), NEW n \in 1 .. Len(page)
  PROVE  /\ EntrySize[page[n]] \in Nat /\ EntrySize[page[n]] >= Fixed /\ Fixed \in Nat
         /\ PaddedAt(page)[n] \in Nat /\ PaddedAt(page)[n] >= Fixed
<1>1. page[n] \in EntryPositions /\ n \in DOMAIN page
  BY ElementOfSeq, LenProperties
<1>2. EntrySize \in Seq(Nat) /\ Fixed \in Nat /\ \A i \in DOMAIN EntrySize : EntrySize[i] >= Fixed
  BY DirScanAssumption
<1>3. EntrySize[page[n]] \in Nat /\ EntrySize[page[n]] >= Fixed
  BY <1>1, <1>2, ElementOfSeq, LenProperties DEF EntryPositions
<1>4. PaddedAt(page)[n] = Padded(EntrySize[page[n]])
  BY <1>1 DEF PaddedAt
<1> HIDE DEF EntryPositions
<1>5. Padded(EntrySize[page[n]]) \in Nat /\ Padded(EntrySize[page[n]]) >= EntrySize[page[n]]
  BY <1>3, PaddedIs
<1> QED
  BY <1>2, <1>3, <1>4, <1>5

LEMMA EndIsSum ==
  ASSUME NEW page \in Seq(EntryPositions), NEW n \in 1 .. Len(page)
  PROVE  EndOf(page, n) = SumAt(PaddedAt(page), 1 .. n - 1) + EntrySize[page[n]]
<1>1. 1 .. n - 1 \in SUBSET DOMAIN page
  BY LenProperties
<1>2. (CHOOSE g : g = SumStep(page, 1 .. n - 1, g))
        = (CHOOSE g : g = AddedBy(PaddedAt(page), 1 .. n - 1, g))
  BY <1>1, ChosenIs
<1> QED
  BY <1>2, EndIs, Zenon DEF SumAt

\* A sum of so many values that are so large at least.
LEMMA SumAtLeast ==
  ASSUME NEW f, NEW N \in Nat, NEW least \in Nat,
         \A i \in 1 .. N : f[i] \in Nat /\ f[i] >= least
  PROVE  \A n \in 0 .. N : SumAt(f, 1 .. n) \in Nat /\ SumAt(f, 1 .. n) >= n * least
<1>1. \A n \in 0 .. N : IsFiniteSet(1 .. n) /\ \A i \in 1 .. n : f[i] \in Nat /\ f[i] >= least
  BY FS_Interval
<1> DEFINE W == {n \in 0 .. N : ~(SumAt(f, 1 .. n) \in Nat /\ SumAt(f, 1 .. n) >= n * least)}
<1>2. ASSUME W # {} PROVE FALSE
  <2>0. W \in SUBSET Nat
    OBVIOUS
  <2>1. PICK n \in W : \A v \in W : n <= v
    <3> HIDE DEF W
    <3> QED
      BY <1>2, <2>0, LeastOf
  <2>2. n \in 0 .. N /\ ~(SumAt(f, 1 .. n) \in Nat /\ SumAt(f, 1 .. n) >= n * least)
    BY <2>1
  <2>3. n # 0
    <3>1. 1 .. 0 = {}
      OBVIOUS
    <3>2. SumAt(f, 1 .. 0) = 0
      BY <3>1, SumOfEmpty
    <3> QED
      BY <2>2, <3>2
  <2>4. n - 1 \in 0 .. N /\ n - 1 \notin W /\ n \in 1 .. n
    BY <2>0, <2>1, <2>2, <2>3
  <2>5. SumAt(f, 1 .. n - 1) \in Nat /\ SumAt(f, 1 .. n - 1) >= (n - 1) * least
    BY <2>4
  <2>6. (1 .. n) \ {n} = 1 .. n - 1
    BY <2>2
  <2>7. SumAt(f, 1 .. n) = f[n] + SumAt(f, 1 .. n - 1)
    <3>1. IsFiniteSet(1 .. n) /\ \A i \in 1 .. n : f[i] \in Nat
      BY <1>1, <2>2
    <3>2. SumAt(f, 1 .. n) = f[n] + SumAt(f, (1 .. n) \ {n})
      BY <2>4, <3>1, SumWithout
    <3> QED
      BY <2>6, <3>2
  <2>8. f[n] \in Nat /\ f[n] >= least
    BY <1>1, <2>2, <2>4
  <2>9. n * least = (n - 1) * least + least
    BY <2>2
  <2>10. (n - 1) * least \in Nat
    BY <2>2, <2>3
  <2> DEFINE rest == SumAt(f, 1 .. n - 1)
             fixed == (n - 1) * least
  <2> HIDE DEF rest, fixed, W
  <2>11. /\ rest \in Nat /\ fixed \in Nat /\ rest >= fixed
         /\ SumAt(f, 1 .. n) = f[n] + rest /\ n * least = fixed + least
    BY <2>5, <2>7, <2>9, <2>10 DEF rest, fixed
  <2> QED
    BY <2>2, <2>8, <2>11
<1> QED
  BY <1>2

LEMMA EndAtLeast ==
  ASSUME NEW page \in Seq(EntryPositions), NEW n \in 1 .. Len(page)
  PROVE  EndOf(page, n) \in Nat /\ EndOf(page, n) >= n * Fixed
<1>1. /\ Len(page) \in Nat /\ Fixed \in Nat
      /\ \A i \in 1 .. Len(page) : PaddedAt(page)[i] \in Nat /\ PaddedAt(page)[i] >= Fixed
  BY SizeIs, LenProperties
<1>2. \A k \in 0 .. Len(page) :
        SumAt(PaddedAt(page), 1 .. k) \in Nat /\ SumAt(PaddedAt(page), 1 .. k) >= k * Fixed
  <2> DEFINE f == PaddedAt(page)
  <2> HIDE DEF f
  <2>1. \A i \in 1 .. Len(page) : f[i] \in Nat /\ f[i] >= Fixed
    BY <1>1 DEF f
  <2>2. \A k \in 0 .. Len(page) : SumAt(f, 1 .. k) \in Nat /\ SumAt(f, 1 .. k) >= k * Fixed
    BY <1>1, <2>1, SumAtLeast
  <2> QED
    BY <2>2 DEF f
<1> DEFINE rest == SumAt(PaddedAt(page), 1 .. n - 1)
           fixed == (n - 1) * Fixed
<1>3. rest \in Nat /\ rest >= fixed
  <2>1. n - 1 \in 0 .. Len(page)
    BY <1>1
  <2> QED
    BY <1>2, <2>1
<1>4. EndOf(page, n) = rest + EntrySize[page[n]]
  BY EndIsSum
<1>5. EntrySize[page[n]] \in Nat /\ EntrySize[page[n]] >= Fixed
  BY SizeIs
<1>6. n * Fixed = fixed + Fixed /\ fixed \in Nat
  BY <1>1
<1> HIDE DEF rest, fixed
<1> QED
  BY <1>1, <1>3, <1>4, <1>5, <1>6

\* Where an entry ends depends only on those before it.
LEMMA EndSame ==
  ASSUME NEW m \in Seq(EntryPositions), NEW k \in 0 .. Len(m), NEW n \in 1 .. k
  PROVE  EndOf(SubSeq(m, 1, k), n) = EndOf(m, n)
<1> DEFINE page == SubSeq(m, 1, k)
<1>1. /\ page \in Seq(EntryPositions) /\ Len(page) = k /\ \A i \in 1 .. k : page[i] = m[i]
  BY CutAfter
<1>2. Len(m) \in Nat /\ n \in 1 .. Len(m) /\ n \in 1 .. Len(page)
  BY <1>1, LenProperties
<1> HIDE DEF page
<1>3. /\ EndOf(page, n) = SumAt(PaddedAt(page), 1 .. n - 1) + EntrySize[page[n]]
      /\ EndOf(m, n) = SumAt(PaddedAt(m), 1 .. n - 1) + EntrySize[m[n]]
  BY <1>1, <1>2, EndIsSum
<1>4. \A i \in 1 .. n - 1 : PaddedAt(page)[i] = PaddedAt(m)[i]
  <2>1. DOMAIN page = 1 .. k /\ DOMAIN m = 1 .. Len(m)
    BY <1>1, LenProperties
  <2>2. \A i \in 1 .. n - 1 : i \in DOMAIN page /\ i \in DOMAIN m /\ page[i] = m[i]
    BY <1>1, <1>2, <2>1
  <2> QED
    BY <2>2 DEF PaddedAt
<1>5. IsFiniteSet(1 .. n - 1)
  BY <1>2, FS_Interval
<1>6. SumAt(PaddedAt(page), 1 .. n - 1) = SumAt(PaddedAt(m), 1 .. n - 1)
  BY <1>4, <1>5, SumSame
<1>7. page[n] = m[n]
  BY <1>1
<1> QED
  BY <1>3, <1>6, <1>7 DEF page

\* How many are copied, if not one: all, or as many as could fit if none had a name.
LEMMA CapIs ==
  ASSUME NEW m \in Seq(EntryPositions), NEW buffer \in Buffers, NEW single \in BOOLEAN,
         m # << >>
  PROVE  LET cap == PageCap(m, buffer, single)
         IN /\ cap \in 0 .. Len(m) /\ buffer \in Nat
            /\ ~single => cap = Len(m) \/ (cap + 1) * Fixed > buffer
<1>1. Len(m) \in Nat /\ Len(m) > 0
  BY LenProperties, EmptySeq
<1>2. buffer \in Nat /\ Fixed \in Nat \ {0}
  BY DirScanAssumption
<1> DEFINE cap == PageCap(m, buffer, single)
<1>3. CASE single
  BY <1>1, <1>2, <1>3 DEF PageCap
<1>4. CASE ~single
  <2> DEFINE d == buffer \div Fixed
             r == buffer % Fixed
             most == Max({1, d})
  <2>1. d \in Nat /\ r \in Nat /\ r < Fixed /\ buffer = (d * Fixed) + r
    BY <1>2, DivIs
  <2>2. most \in Nat /\ d <= most
    <3> HIDE DEF d
    <3>1. \E x \in {1, d} : \A y \in {1, d} : x >= y
      BY <2>1
    <3>2. most \in {1, d} /\ \A y \in {1, d} : most >= y
      BY <3>1 DEF Max
    <3> QED
      BY <2>1, <3>2
  <2>3. cap = Min({Len(m), most})
    BY <1>4 DEF PageCap
  <2> HIDE DEF most, d, r
  <2>4. cap \in {Len(m), most} /\ \A y \in {Len(m), most} : cap <= y
    <3>1. \E x \in {Len(m), most} : \A y \in {Len(m), most} : x <= y
      BY <1>1, <2>2
    <3> QED
      BY <2>3, <3>1 DEF Min
  <2> HIDE DEF cap
  <2>5. cap \in 0 .. Len(m)
    BY <1>1, <2>2, <2>4
  <2>6. CASE cap = most
    <3>1. (cap + 1) * Fixed >= (d + 1) * Fixed
      BY <1>2, <2>1, <2>2, <2>6, SMTT(30)
    <3>2. (d + 1) * Fixed = d * Fixed + Fixed
      BY <1>2, <2>1
    <3>3. d * Fixed \in Nat /\ (cap + 1) * Fixed \in Int
      BY <1>2, <2>1, <2>5
    <3>4. (cap + 1) * Fixed > buffer
      <4> DEFINE a == (cap + 1) * Fixed
                 b == d * Fixed
      <4>1. a \in Int /\ b \in Nat /\ a >= b + Fixed /\ buffer = b + r
        BY <3>1, <3>2, <3>3, <2>1
      <4> HIDE DEF a, b
      <4>2. a > buffer
        BY <4>1, <2>1, <1>2
      <4> QED
        BY <4>2 DEF a
    <3> QED
      BY <2>5, <3>4, <1>2 DEF cap
  <2> QED
    BY <1>2, <2>4, <2>5, <2>6 DEF cap
<1> QED
  BY <1>3, <1>4

\* A page holds every match that fits.
LEMMA PageIsFull ==
  ASSUME NEW m \in Seq(EntryPositions), NEW buffer \in Buffers, m # << >>
  PROVE  LET n == Len(Page(m, buffer, FALSE))
         IN n = Len(m) \/ EndOf(m, n + 1) > buffer
<1> DEFINE cap == PageCap(m, buffer, FALSE)
           copied == SubSeq(m, 1, cap)
           fits == {n \in 1 .. Len(copied) : \A k \in 1 .. n : EndOf(copied, k) <= buffer}
           W == fits \cup {0}
           last == Max(W)
<1>1. /\ Len(m) \in Nat /\ cap \in 0 .. Len(m) /\ buffer \in Nat
      /\ cap = Len(m) \/ (cap + 1) * Fixed > buffer
  BY CapIs, LenProperties
<1> HIDE DEF cap
<1>2. /\ copied \in Seq(EntryPositions) /\ Len(copied) = cap
      /\ \A n \in 1 .. cap : EndOf(copied, n) = EndOf(m, n)
  BY <1>1, CutAfter, EndSame
<1> HIDE DEF copied
<1>3. cap \in Nat /\ W \in SUBSET (0 .. cap) /\ W # {}
  BY <1>1, <1>2
<1>4. last \in W /\ \A y \in W : last >= y
  <2> HIDE DEF W
  <2>1. \E x \in W : \A y \in W : x >= y
    BY <1>3, GreatestOf
  <2> QED
    BY <2>1 DEF Max
<1>5. last \in 0 .. cap
  BY <1>3, <1>4
<1>6. Page(m, buffer, FALSE) = SubSeq(copied, 1, last)
  BY DEF Page, Encoded, cap, copied
<1> HIDE DEF last
<1>7. Len(Page(m, buffer, FALSE)) = last
  BY <1>2, <1>5, <1>6, CutAfter
<1>8. CASE last < cap
  <2>1. last + 1 \in 1 .. Len(copied) /\ last + 1 \notin W
    BY <1>2, <1>3, <1>4, <1>5, <1>8
  <2>2. PICK k \in 1 .. last + 1 : ~(EndOf(copied, k) <= buffer)
    BY <2>1
  <2>3. k = last + 1
    <3>1. CASE last = 0
      BY <3>1
    <3>2. CASE last # 0
      <4>1. last \in fits
        BY <1>4, <3>2
      <4>2. \A j \in 1 .. last : EndOf(copied, j) <= buffer
        BY <4>1
      <4> QED
        BY <2>2, <4>2, <1>5
    <3> QED
      BY <3>1, <3>2
  <2>4. EndOf(copied, last + 1) \in Nat
    BY <1>2, <2>1, EndAtLeast
  <2>5. EndOf(m, last + 1) = EndOf(copied, last + 1)
    BY <1>2, <2>1
  <2> HIDE DEF W, fits
  <2>6. EndOf(m, last + 1) > buffer
    BY <1>1, <2>2, <2>3, <2>4, <2>5
  <2> QED
    BY <1>7, <2>6
<1>9. CASE last = cap /\ cap # Len(m)
  <2>1. cap + 1 \in 1 .. Len(m)
    BY <1>1, <1>9
  <2>2. EndOf(m, cap + 1) \in Nat /\ EndOf(m, cap + 1) >= (cap + 1) * Fixed
    BY <2>1, EndAtLeast
  <2>3. (cap + 1) * Fixed \in Nat
    <3>1. Fixed \in Nat
      BY DirScanAssumption
    <3> QED
      BY <3>1, <1>3
  <2>4. EndOf(m, cap + 1) > buffer
    <3> DEFINE a == (cap + 1) * Fixed
    <3> HIDE DEF a
    <3>1. a \in Nat /\ a > buffer /\ EndOf(m, cap + 1) >= a
      BY <1>1, <1>9, <2>2, <2>3 DEF a
    <3> QED
      BY <1>1, <2>2, <3>1
  <2> QED
    BY <1>7, <1>9, <2>4
<1>10. CASE last = cap /\ cap = Len(m)
  BY <1>7, <1>10
<1> HIDE DEF fits, W
<1>11. last < cap \/ last = cap
  BY <1>3, <1>5
<1> QED
  BY <1>8, <1>9, <1>10, <1>11

-----------------------------------------------------------------------------
(* DirScan: the inductive invariant.                                       *)

\* What has been returned is behind the cursor; before the scan has come to
\* anything, nothing is.
BehindCursor == /\ \A i \in DOMAIN returned : returned[i] <= dir_pos
                /\ ~scanned => dir_pos = 0 /\ returned = << >>

ScanInv == ScanTypeOK /\ BehindCursor /\ ReturnedOnce /\ NothingSkipped /\ AnswersTrue

LEMMA InitScan == ScanInit => ScanInv
<1> SUFFICES ASSUME ScanInit PROVE ScanInv
  OBVIOUS
<1>1. EntryCount \in Nat
  BY DirScanAssumption, LenProperties DEF EntryCount
<1>2. ScanTypeOK
  <2>1. returned \in Seq(EntryPositions) /\ wanted \subseteq EntryPositions
    BY DEF ScanInit
  <2>2. status \in Statuses /\ dir_pos \in 0 .. EntryCount
    BY <1>1 DEF ScanInit, Statuses
  <2> QED
    BY <2>1, <2>2 DEF ScanInit, ScanTypeOK
<1>3. BehindCursor /\ ReturnedOnce
  BY DEF ScanInit, BehindCursor, ReturnedOnce
<1>4. NothingSkipped /\ AnswersTrue
  BY DEF ScanInit, NothingSkipped, AnswersTrue
<1> QED
  BY <1>2, <1>3, <1>4 DEF ScanInv

\* The page goes on where the scan was, and leaves nothing behind the cursor out.
LEMMA PageKeeps ==
  ASSUME NEW pos \in 0 .. EntryCount, NEW before \in Seq(EntryPositions),
         NEW w \in SUBSET EntryPositions, NEW p \in SUBSET EntryPositions,
         \A i \in DOMAIN before : before[i] <= pos,
         \A i, j \in DOMAIN before : i < j => before[i] < before[j],
         w \cap (1 .. pos) \subseteq ToSet(before),
         NEW n \in 1 .. Len(MatchedAfter(pos, p))
  PROVE  LET page == SubSeq(MatchedAfter(pos, p), 1, n)
             all == Cat(before, page)
         IN /\ Last(page) \in EntryPositions
            /\ all \in Seq(EntryPositions)
            /\ \A i \in DOMAIN all : all[i] <= Last(page)
            /\ \A i, j \in DOMAIN all : i < j => all[i] < all[j]
            /\ (p \cap w) \cap (1 .. Last(page)) \subseteq ToSet(all)
<1> DEFINE m == MatchedAfter(pos, p)
           page == SubSeq(m, 1, n)
           all == Cat(before, page)
           b == Len(before)
<1>1. pos \in Nat /\ EntryCount \in Nat /\ EntryPositions = 1 .. EntryCount
  BY DirScanAssumption, LenProperties DEF EntryPositions, EntryCount
<1>2. /\ m \in Seq(EntryPositions) /\ Len(m) \in Nat /\ DOMAIN m = 1 .. Len(m)
      /\ \A k \in 1 .. Len(m) : m[k] \in p /\ m[k] > pos
      /\ \A j, k \in 1 .. Len(m) : j < k => m[j] < m[k]
      /\ \A i \in p : i > pos => \E k \in 1 .. Len(m) : m[k] = i
  BY <1>1, MatchedIs
<1> HIDE DEF m
<1>3. n \in Nat /\ 1 <= n /\ n <= Len(m) /\ n \in 0 .. Len(m)
  BY <1>2 DEF m
<1>4. /\ page \in Seq(EntryPositions) /\ Len(page) = n
      /\ \A i \in 1 .. n : page[i] = m[i]
  BY <1>2, <1>3, CutAfter
<1> HIDE DEF page
<1>5. /\ all \in Seq(EntryPositions) /\ Len(all) = b + n
      /\ \A i \in 1 .. b + n : all[i] = IF i <= b THEN before[i] ELSE page[i - b]
  BY <1>4, CatAt
<1> HIDE DEF all
<1>6. b \in Nat /\ DOMAIN before = 1 .. b /\ DOMAIN all = 1 .. b + n
  BY <1>5, LenProperties
<1> HIDE DEF b
<1>7. Last(page) = m[n]
  BY <1>3, <1>4 DEF Last
<1>8. /\ \A i \in 1 .. b : all[i] = before[i]
      /\ \A i \in b + 1 .. b + n : i - b \in 1 .. n /\ all[i] = m[i - b]
  BY <1>3, <1>4, <1>5, <1>6
<1>9. /\ m[n] \in EntryPositions /\ m[n] \in Nat /\ m[n] > pos
      /\ \A k \in 1 .. Len(m) : m[k] \in Nat
      /\ \A k \in 1 .. b : before[k] \in Nat
  BY <1>1, <1>2, <1>3, <1>6, ElementOfSeq
<1>10. \A k \in 1 .. n : m[k] <= m[n]
  <2> SUFFICES ASSUME NEW k \in 1 .. n PROVE m[k] <= m[n]
    OBVIOUS
  <2>1. k = n \/ (k < n /\ k \in 1 .. Len(m) /\ n \in 1 .. Len(m))
    BY <1>2, <1>3
  <2> QED
    BY <1>2, <1>9, <2>1
<1>11. ASSUME NEW i \in 1 .. b + n PROVE all[i] <= m[n]
  <2>1. CASE i <= b
    <3>1. i \in 1 .. b /\ all[i] = before[i]
      BY <1>6, <1>8, <2>1
    <3>2. before[i] <= pos
      BY <1>6, <3>1
    <3> QED
      BY <1>1, <1>9, <3>1, <3>2
  <2>2. CASE ~ (i <= b)
    <3>1. i \in b + 1 .. b + n
      BY <1>3, <1>6, <2>2
    <3> QED
      BY <1>8, <1>10, <3>1
  <2> QED
    BY <2>1, <2>2
<1>12. ASSUME NEW i \in 1 .. b + n, NEW j \in 1 .. b + n, i < j
       PROVE  all[i] < all[j]
  <2>1. CASE j <= b
    <3>1. i \in 1 .. b /\ j \in 1 .. b
      BY <1>3, <1>6, <1>12, <2>1
    <3> QED
      BY <1>6, <1>8, <1>12, <3>1
  <2>2. CASE i <= b /\ ~ (j <= b)
    <3>1. i \in 1 .. b /\ j \in b + 1 .. b + n
      BY <1>3, <1>6, <2>2
    <3>2. all[i] <= pos /\ all[i] \in Nat /\ all[j] > pos /\ all[j] \in Nat
      <4>1. all[i] = before[i] /\ all[j] = m[j - b] /\ j - b \in 1 .. Len(m)
        BY <1>2, <1>3, <1>6, <1>8, <3>1
      <4> QED
        BY <1>2, <1>6, <1>9, <3>1, <4>1
    <3> QED
      BY <1>1, <3>2
  <2>3. CASE ~ (i <= b)
    <3>1. i \in b + 1 .. b + n /\ j \in b + 1 .. b + n
      BY <1>3, <1>6, <1>12, <2>3
    <3>2. /\ i - b \in 1 .. Len(m) /\ j - b \in 1 .. Len(m) /\ i - b < j - b
          /\ all[i] = m[i - b] /\ all[j] = m[j - b]
      BY <1>2, <1>3, <1>6, <1>8, <1>12, <3>1
    <3> QED
      BY <1>2, <3>2
  <2> QED
    BY <2>1, <2>2, <2>3
<1>13. ASSUME NEW x \in p \cap w, x \in 1 .. m[n]
       PROVE  x \in ToSet(all)
  <2>1. CASE x <= pos
    <3>1. x \in ToSet(before)
      BY <1>1, <1>9, <1>13, <2>1
    <3>2. PICK i \in 1 .. b : before[i] = x
      BY <1>6, <3>1 DEF ToSet
    <3>3. i \in 1 .. b + n /\ all[i] = x
      BY <1>3, <1>6, <1>8, <3>2
    <3> QED
      BY <1>6, <3>3 DEF ToSet
  <2>2. CASE ~ (x <= pos)
    <3>1. x > pos
      BY <1>1, <2>2
    <3>2. PICK k \in 1 .. Len(m) : m[k] = x
      BY <1>2, <3>1
    <3>3. k <= n
      <4>1. ~ (n < k)
        <5>1. n < k => m[n] < m[k]
          BY <1>2, <1>3
        <5> QED
          BY <1>9, <1>13, <3>2, <5>1
      <4> QED
        BY <1>2, <1>3, <4>1
    <3>4. k + b \in b + 1 .. b + n /\ k + b \in 1 .. b + n /\ (k + b) - b = k
      BY <1>2, <1>3, <1>6, <3>3
    <3>5. all[k + b] = x
      BY <1>8, <3>2, <3>4
    <3> QED
      BY <1>6, <3>4, <3>5 DEF ToSet
  <2> QED
    BY <2>1, <2>2
<1>14. \A i \in DOMAIN all : all[i] <= Last(page)
  BY <1>6, <1>7, <1>11
<1>15. \A i, j \in DOMAIN all : i < j => all[i] < all[j]
  BY <1>6, <1>12
<1>16. (p \cap w) \cap (1 .. Last(page)) \subseteq ToSet(all)
  BY <1>7, <1>13
<1> QED
  BY <1>5, <1>7, <1>9, <1>14, <1>15, <1>16, Zenon DEF all, page, m

\* A request that finds nothing past the cursor ends the scan with the truth.
LEMMA ExhaustedKeeps ==
  ASSUME ScanInv, NEW p \in SUBSET EntryPositions, NEW restart \in BOOLEAN,
         MatchedAfter(IF restart THEN 0 ELSE dir_pos, p) = << >>,
         captured' = TRUE,
         wanted' = p \cap IF restart THEN EntryPositions ELSE wanted,
         status' = Exhausted(IF restart THEN FALSE ELSE scanned),
         dir_pos' = (IF restart THEN 0 ELSE dir_pos),
         scanned' = (IF restart THEN FALSE ELSE scanned),
         returned' = (IF restart THEN << >> ELSE returned)
  PROVE  ScanInv'
<1> DEFINE pos == IF restart THEN 0 ELSE dir_pos
<1>1. EntryCount \in Nat /\ EntryPositions = 1 .. EntryCount /\ pos \in Nat
      /\ pos \in 0 .. EntryCount
  BY DirScanAssumption, LenProperties
     DEF EntryPositions, EntryCount, ScanInv, ScanTypeOK
<1>2. ASSUME NEW i \in p, i > pos PROVE FALSE
  <2>1. \E k \in 1 .. Len(MatchedAfter(pos, p)) : MatchedAfter(pos, p)[k] = i
    BY <1>1, <1>2, MatchedIs
  <2>2. Len(MatchedAfter(pos, p)) = 0
    OBVIOUS
  <2> QED
    BY <2>1, <2>2
<1>3. \A i \in p : i \in 1 .. pos
  BY <1>1, <1>2
<1>4. << >> \in Seq(EntryPositions)
  OBVIOUS
<1>5. ScanTypeOK'
  <2>1. status' \in Statuses
    BY DEF Exhausted, Statuses
  <2>2. dir_pos' \in 0 .. EntryCount /\ scanned' \in BOOLEAN
    BY <1>1 DEF ScanInv, ScanTypeOK
  <2>3. returned' \in Seq(EntryPositions) /\ wanted' \subseteq EntryPositions
    BY <1>4 DEF ScanInv, ScanTypeOK
  <2> QED
    BY <2>1, <2>2, <2>3, Zenon DEF ScanTypeOK
<1>6. CASE restart
  <2>1. p = {}
    BY <1>1, <1>3, <1>6
  <2>2. wanted' = {} /\ returned' = << >> /\ dir_pos' = 0 /\ ~scanned'
        /\ status' = "no_such_file" /\ DOMAIN returned' = {}
    BY <1>6, <2>1 DEF Exhausted
  <2>3. BehindCursor' /\ ReturnedOnce' /\ NothingSkipped' /\ AnswersTrue'
    BY <2>2 DEF BehindCursor, ReturnedOnce, NothingSkipped, AnswersTrue
  <2> QED
    BY <1>5, <2>3, Zenon DEF ScanInv
<1>7. CASE ~restart
  <2>1. /\ wanted' = p \cap wanted /\ returned' = returned /\ dir_pos' = dir_pos
        /\ scanned' = scanned /\ status' = Exhausted(scanned) /\ pos = dir_pos
    BY <1>7
  <2>2. BehindCursor' /\ ReturnedOnce' /\ NothingSkipped'
    BY <2>1 DEF ScanInv, BehindCursor, ReturnedOnce, NothingSkipped
  <2>3. wanted' \subseteq ToSet(returned)
    BY <1>3, <2>1 DEF ScanInv, NothingSkipped
  <2>4. ASSUME ~scanned PROVE returned' = << >> /\ wanted' = {}
    <3>1. dir_pos = 0 /\ returned = << >>
      BY <2>4 DEF ScanInv, BehindCursor
    <3> QED
      BY <1>3, <2>1, <3>1
  <2>5. AnswersTrue'
    BY <2>1, <2>3, <2>4 DEF AnswersTrue, Exhausted
  <2> QED
    BY <1>5, <2>2, <2>5, Zenon DEF ScanInv
<1> QED
  BY <1>6, <1>7

\* A request that is refused leaves the scan where it was, or rewinds it.
LEMMA RefusedScanKeeps ==
  ASSUME ScanInv, NEW p \in SUBSET EntryPositions, NEW restart \in BOOLEAN,
         captured' = TRUE,
         wanted' = p \cap IF restart THEN EntryPositions ELSE wanted,
         status' \in {"mismatch", "invalid_class"},
         dir_pos' = (IF restart THEN 0 ELSE dir_pos),
         scanned' = TRUE,
         returned' = (IF restart THEN << >> ELSE returned)
  PROVE  ScanInv'
<1>1. EntryCount \in Nat
  BY DirScanAssumption, LenProperties DEF EntryCount
<1>2. << >> \in Seq(EntryPositions)
  OBVIOUS
<1>3. ScanTypeOK'
  <2>1. status' \in Statuses
    BY DEF Statuses
  <2>2. dir_pos' \in 0 .. EntryCount
    BY <1>1 DEF ScanInv, ScanTypeOK
  <2>3. returned' \in Seq(EntryPositions) /\ wanted' \subseteq EntryPositions
    BY <1>2 DEF ScanInv, ScanTypeOK
  <2> QED
    BY <2>1, <2>2, <2>3, Zenon DEF ScanTypeOK
<1>4. AnswersTrue'
  BY DEF AnswersTrue
<1>5. CASE restart
  <2>1. returned' = << >> /\ DOMAIN returned' = {} /\ dir_pos' = 0 /\ scanned'
    BY <1>5
  <2>2. BehindCursor' /\ ReturnedOnce' /\ NothingSkipped'
    BY <2>1 DEF BehindCursor, ReturnedOnce, NothingSkipped
  <2> QED
    BY <1>3, <1>4, <2>2, Zenon DEF ScanInv
<1>6. CASE ~restart
  <2>1. returned' = returned /\ dir_pos' = dir_pos /\ scanned' /\ wanted' = p \cap wanted
    BY <1>6
  <2>2. BehindCursor' /\ ReturnedOnce' /\ NothingSkipped'
    BY <2>1 DEF ScanInv, BehindCursor, ReturnedOnce, NothingSkipped
  <2> QED
    BY <1>3, <1>4, <2>2, Zenon DEF ScanInv
<1> QED
  BY <1>5, <1>6

\* A request that is answered with a page.
LEMMA AnsweredScanKeeps ==
  ASSUME ScanInv, NEW p \in SUBSET EntryPositions, NEW restart \in BOOLEAN,
         NEW n \in 1 .. Len(MatchedAfter(IF restart THEN 0 ELSE dir_pos, p)),
         captured' = TRUE,
         wanted' = p \cap IF restart THEN EntryPositions ELSE wanted,
         status' = "ok",
         scanned' = TRUE,
         dir_pos' = Last(SubSeq(MatchedAfter(IF restart THEN 0 ELSE dir_pos, p), 1, n)),
         returned' = Cat(IF restart THEN << >> ELSE returned,
                         SubSeq(MatchedAfter(IF restart THEN 0 ELSE dir_pos, p), 1, n))
  PROVE  ScanInv'
<1> DEFINE pos == IF restart THEN 0 ELSE dir_pos
           before == IF restart THEN << >> ELSE returned
           w == IF restart THEN EntryPositions ELSE wanted
           page == SubSeq(MatchedAfter(pos, p), 1, n)
<1>1. EntryCount \in Nat /\ EntryPositions = 1 .. EntryCount
  BY DirScanAssumption, LenProperties DEF EntryPositions, EntryCount
<1>2. /\ pos \in 0 .. EntryCount /\ before \in Seq(EntryPositions)
      /\ w \in SUBSET EntryPositions
      /\ \A i \in DOMAIN before : before[i] <= pos
      /\ \A i, j \in DOMAIN before : i < j => before[i] < before[j]
      /\ w \cap (1 .. pos) \subseteq ToSet(before)
  <2>1. CASE restart
    <3>1. pos = 0 /\ before = << >> /\ w = EntryPositions /\ DOMAIN before = {}
          /\ << >> \in Seq(EntryPositions)
      BY <2>1
    <3>2. 1 .. 0 = {} /\ 0 \in 0 .. EntryCount
      BY <1>1
    <3> HIDE DEF pos, before, w
    <3>3. w \cap (1 .. pos) = {}
      BY <3>1, <3>2, Zenon
    <3> QED
      BY <3>1, <3>2, <3>3
  <2>2. CASE ~restart
    <3>1. pos = dir_pos /\ before = returned /\ w = wanted
      BY <2>2
    <3> HIDE DEF pos, before, w
    <3> QED
      BY <3>1 DEF ScanInv, ScanTypeOK, BehindCursor, ReturnedOnce, NothingSkipped
  <2> QED
    BY <2>1, <2>2
<1>3. /\ wanted' = p \cap w /\ dir_pos' = Last(page) /\ returned' = Cat(before, page)
      /\ n \in 1 .. Len(MatchedAfter(pos, p))
  BY Zenon
<1> HIDE DEF pos, before, w
<1>4. /\ Last(page) \in EntryPositions
      /\ Cat(before, page) \in Seq(EntryPositions)
      /\ \A i \in DOMAIN Cat(before, page) : Cat(before, page)[i] <= Last(page)
      /\ \A i, j \in DOMAIN Cat(before, page) : i < j => Cat(before, page)[i] < Cat(before, page)[j]
      /\ (p \cap w) \cap (1 .. Last(page)) \subseteq ToSet(Cat(before, page))
  BY <1>2, <1>3, PageKeeps, Zenon
<1> HIDE DEF page
<1>5. ScanTypeOK'
  <2>3. \A i \in EntryPositions : i \in 0 .. EntryCount
    BY <1>1
  <2>1. Last(page) \in 0 .. EntryCount /\ p \cap w \subseteq EntryPositions
    BY <1>4, <2>3, Zenon
  <2>2. status' \in Statuses
    BY DEF Statuses
  <2> QED
    BY <1>3, <1>4, <2>1, <2>2, Zenon DEF ScanTypeOK
<1>6. BehindCursor' /\ ReturnedOnce' /\ NothingSkipped'
  BY <1>3, <1>4, Zenon DEF BehindCursor, ReturnedOnce, NothingSkipped
<1>7. AnswersTrue'
  BY DEF AnswersTrue
<1> QED
  BY <1>5, <1>6, <1>7, Zenon DEF ScanInv

LEMMA QueryKeeps ==
  ASSUME ScanInv, NEW p \in SUBSET EntryPositions, NEW buffer \in Buffers,
         NEW single \in BOOLEAN, NEW restart \in BOOLEAN, NEW known \in BOOLEAN,
         Query(p, buffer, single, restart, known)
  PROVE  ScanInv'
<1> DEFINE pos == IF restart THEN 0 ELSE dir_pos
           scanning == IF restart THEN FALSE ELSE scanned
           before == IF restart THEN << >> ELSE returned
           matched == MatchedAfter(pos, p)
           page == Page(matched, buffer, single)
<1>1. /\ captured' = TRUE /\ wanted' = p \cap IF restart THEN EntryPositions ELSE wanted
      /\ IF matched = << >>
           THEN /\ status' = Exhausted(scanning) /\ dir_pos' = pos
                /\ scanned' = scanning /\ returned' = before
           ELSE /\ scanned' = TRUE
                /\ IF known /\ page # << >>
                     THEN /\ status' = "ok" /\ dir_pos' = CursorAfter(page)
                          /\ returned' = before \o page
                     ELSE /\ status' = IF known THEN "mismatch" ELSE "invalid_class"
                          /\ dir_pos' = pos /\ returned' = before
  BY Zenon DEF Query
<1>2. CASE matched = << >>
  BY <1>1, <1>2, ExhaustedKeeps, Zenon
<1>3. CASE matched # << >> /\ ~ (known /\ page # << >>)
  <2>1. status' \in {"mismatch", "invalid_class"}
    BY <1>1, <1>3
  <2> QED
    BY <1>1, <1>3, <2>1, RefusedScanKeeps, Zenon
<1>4. CASE matched # << >> /\ known /\ page # << >>
  <2>1. pos \in Nat
    BY DEF ScanInv, ScanTypeOK
  <2>2. matched \in Seq(EntryPositions) /\ Len(matched) \in Nat
    BY <2>1, MatchedIs
  <2>3. PICK n \in 0 .. Len(matched) : page = SubSeq(matched, 1, n)
    BY <1>4, <2>2, PageIs
  <2>4. n # 0
    <3> SUFFICES ASSUME n = 0 PROVE FALSE
      OBVIOUS
    <3>1. Len(SubSeq(matched, 1, 0)) = 0 /\ SubSeq(matched, 1, 0) \in Seq(EntryPositions)
      BY <2>2, <2>3, CutAfter
    <3>2. SubSeq(matched, 1, 0) = << >>
      BY <3>1, EmptySeq
    <3> QED
      BY <1>4, <2>3, <3>2
  <2>5. n \in 1 .. Len(matched)
    BY <2>2, <2>3, <2>4
  <2>6. /\ status' = "ok" /\ scanned' = TRUE /\ dir_pos' = Last(SubSeq(matched, 1, n))
        /\ returned' = Cat(before, SubSeq(matched, 1, n))
    BY <1>1, <1>4, <2>3, Zenon DEF CursorAfter, Cat
  <2> QED
    BY <1>1, <2>5, <2>6, AnsweredScanKeeps, Zenon
<1> QED
  BY <1>2, <1>3, <1>4

LEMMA ScanStep == ASSUME ScanInv, [ScanNext]_scanVars PROVE ScanInv'
<1>1. CASE ListFails
  BY <1>1 DEF ListFails, ScanInv, ScanTypeOK, Statuses, BehindCursor, ReturnedOnce,
              NothingSkipped, AnswersTrue
<1>2. CASE UNCHANGED scanVars
  BY <1>2 DEF scanVars, ScanInv, ScanTypeOK, BehindCursor, ReturnedOnce,
              NothingSkipped, AnswersTrue
<1> QED
  BY <1>1, <1>2, QueryKeeps DEF ScanNext

\* query_directory: however many requests a client enumerates a directory with,
\* whatever their patterns, buffers and flags, the scan returns every entry that
\* all of them ask for, each once and in order; the end is told when there is
\* nothing left, and that nothing was found when nothing is there.
THEOREM DirectoryIsAnswered == ScanSpec => []ScanAnswers
<1>1. ScanInv => ScanAnswers
  BY DEF ScanInv, ScanAnswers
<1> QED
  BY <1>1, InitScan, ScanStep, PTL DEF ScanSpec

\* What a step that returns entries returns.
LEMMA FullByStep ==
  ASSUME ScanInv, status' = "ok", NEW p \in SUBSET EntryPositions, NEW buffer \in Buffers,
         NEW restart \in BOOLEAN, Query(p, buffer, FALSE, restart, TRUE)
  PROVE  LET matched == MatchedAfter(IF restart THEN 0 ELSE dir_pos, p)
             n == Len(returned') - IF restart THEN 0 ELSE Len(returned)
         IN n = Len(matched) \/ EndOf(matched, n + 1) > buffer
<1> DEFINE pos == IF restart THEN 0 ELSE dir_pos
           before == IF restart THEN << >> ELSE returned
           matched == MatchedAfter(pos, p)
           page == Page(matched, buffer, FALSE)
<1>1. /\ pos \in Nat /\ before \in Seq(EntryPositions) /\ Len(before) \in Nat
      /\ Len(before) = IF restart THEN 0 ELSE Len(returned)
  <2>1. returned \in Seq(EntryPositions) /\ dir_pos \in Nat
    <3>1. EntryCount \in Nat
      BY DirScanAssumption, LenProperties DEF EntryCount
    <3> QED
      BY <3>1 DEF ScanInv, ScanTypeOK
  <2>2. Len(returned) \in Nat /\ << >> \in Seq(EntryPositions) /\ Len(<< >>) = 0
    BY <2>1, LenProperties, EmptySeq
  <2> QED
    BY <2>1, <2>2
<1>2. matched \in Seq(EntryPositions)
  BY <1>1, MatchedIs
<1>3. matched # << >> /\ returned' = before \o page
  BY Zenon DEF Query, Exhausted
<1> HIDE DEF pos, before, matched
<1>4. PICK k \in 0 .. Len(matched) : page = SubSeq(matched, 1, k)
  BY <1>2, <1>3, PageIs
<1>5. page \in Seq(EntryPositions) /\ Len(page) = k
  BY <1>2, <1>4, CutAfter
<1> HIDE DEF page
<1>6. Len(returned') = Len(before) + Len(page)
  BY <1>1, <1>3, <1>5, ConcatProperties
<1>7. Len(page) = Len(matched) \/ EndOf(matched, Len(page) + 1) > buffer
  BY <1>2, <1>3, PageIsFull DEF page
<1>8. Len(returned') - (IF restart THEN 0 ELSE Len(returned)) = Len(page)
  <2>1. Len(page) \in Nat
    BY <1>5, LenProperties
  <2> QED
    BY <2>1, <1>1, <1>6
<1>9. matched = MatchedAfter(IF restart THEN 0 ELSE dir_pos, p)
  BY DEF matched, pos
<1> QED
  BY <1>7, <1>8, <1>9, Zenon

\* query_directory, encode_dir_entries: whatever the sizes of entries, buffers and
\* padding, a page leaves no match out that would still have fit.
THEOREM PagesHoldAll == ScanSpec => PagesFull
<1> DEFINE Full ==
      status' = "ok" =>
        \A p \in SUBSET EntryPositions, buffer \in Buffers, restart \in BOOLEAN :
          LET matched == MatchedAfter(IF restart THEN 0 ELSE dir_pos, p)
              n == Len(returned') - IF restart THEN 0 ELSE Len(returned)
          IN  Query(p, buffer, FALSE, restart, TRUE) =>
                n = Len(matched) \/ EndOf(matched, n + 1) > buffer
<1>1. ScanInv /\ [ScanNext]_scanVars => [Full]_scanVars
  BY FullByStep
<1> QED
  BY <1>1, InitScan, ScanStep, PTL DEF ScanSpec, PagesFull

-----------------------------------------------------------------------------
(* Picker: rows.                                                           *)

Row == Paths \union {Up}

\* The rows of a directory: ".." is the first, and only below the top.
RowsOf(p) ==
  \A i \in DOMAIN p.entries :
    IF p.entries[i] = Up THEN i = 1 /\ p.dir # Top
    ELSE p.entries[i] \in Paths \ {Top} /\ ParentOf[p.entries[i]] = p.dir

Loose(p) ==
  /\ DOMAIN p = {"dir", "entries", "filter", "showHidden", "selected", "offset"}
  /\ p.entries \in Seq(Row) /\ RowsOf(p)
  /\ p.selected \in Nat /\ p.offset \in Nat

\* A picker, one of whose rows is selected if there is any.
IsPicker(p) == Loose(p) /\ p.selected <= Less(Len(visible(p)), 1)

LEMMA VisibleIs ==
  ASSUME NEW p, Loose(p)
  PROVE  /\ visible(p) \in Seq(Row) /\ Len(visible(p)) \in Nat
         /\ DOMAIN visible(p) = 1 .. Len(visible(p))
         /\ \A k \in 1 .. Len(visible(p)) :
              /\ visible(p)[k] = Up => k = 1 /\ p.dir # Top
              /\ visible(p)[k] # Up => /\ visible(p)[k] \in Paths \ {Top}
                                      /\ ParentOf[visible(p)[k]] = p.dir
<1> DEFINE shown(e) == IF e = Up THEN p.filter = ""
                       ELSE /\ p.showHidden \/ e \notin Dotted
                            /\ p.filter = "" \/ e \in Matching[p.filter]
           P == {i \in DOMAIN p.entries : shown(p.entries[i])}
           v == visible(p)
<1>1. v = AtPlaces(p.entries, P)
  BY Zenon DEF visible
<1>2. P \in SUBSET DOMAIN p.entries
  OBVIOUS
<1>3. p.entries \in Seq(Row) /\ RowsOf(p)
  BY DEF Loose
<1> HIDE DEF P, v
<1>4. /\ v \in Seq(Row) /\ Len(v) \in Nat /\ DOMAIN v = 1 .. Len(v)
      /\ \A k \in 1 .. Len(v) : \E i \in P : v[k] = p.entries[i] /\ (i = 1 => k = 1)
  BY <1>1, <1>2, <1>3, AtPlacesIs
<1>5. ASSUME NEW k \in 1 .. Len(v)
      PROVE  /\ v[k] = Up => k = 1 /\ p.dir # Top
             /\ v[k] # Up => v[k] \in Paths \ {Top} /\ ParentOf[v[k]] = p.dir
  BY <1>2, <1>3, <1>4 DEF RowsOf
<1> QED
  BY <1>4, <1>5 DEF v

\* What is shown depends on the rows, the filter and whether hidden ones are.
LEMMA VisibleSame ==
  ASSUME NEW p, NEW q, q.entries = p.entries, q.filter = p.filter,
         q.showHidden = p.showHidden
  PROVE  visible(q) = visible(p)
BY Zenon DEF visible

\* A row is never NotPath.
LEMMA RowIsPath == \A e \in Row : e # NotPath
BY PickerAssumption DEF Row, Paths, Up

\* The row that is selected is shown, if any is.
LEMMA SelectedIs ==
  ASSUME NEW p, IsPicker(p), visible(p) # << >>
  PROVE  /\ p.selected + 1 \in 1 .. Len(visible(p))
         /\ selected_entry(p) = visible(p)[p.selected + 1]
         /\ selected_entry(p) \in Row
<1>1. /\ visible(p) \in Seq(Row) /\ Len(visible(p)) \in Nat /\ p.selected \in Nat
      /\ p.selected <= Less(Len(visible(p)), 1)
  BY VisibleIs DEF IsPicker, Loose
<1>2. Len(visible(p)) > 0
  BY <1>1, EmptySeq
<1>3. p.selected < Len(visible(p))
  BY <1>1, <1>2 DEF Less
<1>4. p.selected + 1 \in 1 .. Len(visible(p))
  BY <1>1, <1>3
<1> QED
  BY <1>1, <1>3, <1>4, ElementOfSeq DEF selected_entry

\* Another row is selected, or another filter set.
LEMMA WithSelected ==
  ASSUME NEW p, Loose(p), NEW n \in Nat
  PROVE  LET q == [p EXCEPT !.selected = n]
         IN /\ Loose(q) /\ visible(q) = visible(p) /\ q.selected = n
            /\ q.dir = p.dir /\ q.offset = p.offset /\ q.entries = p.entries
            /\ q.filter = p.filter /\ q.showHidden = p.showHidden
<1> DEFINE q == [p EXCEPT !.selected = n]
<1>1. /\ DOMAIN q = DOMAIN p /\ q.selected = n
      /\ q.dir = p.dir /\ q.offset = p.offset /\ q.entries = p.entries
      /\ q.filter = p.filter /\ q.showHidden = p.showHidden
  BY DEF Loose
<1> HIDE DEF q
<1>2. Loose(q)
  BY <1>1 DEF Loose, RowsOf
<1> QED
  BY <1>1, <1>2, VisibleSame DEF q

LEMMA AtMostIs ==
  ASSUME NEW a \in Nat, NEW b \in Nat
  PROVE  AtMost(a, b) \in Nat /\ AtMost(a, b) <= a /\ AtMost(a, b) <= b
BY DEF AtMost

LEMMA LessIs ==
  ASSUME NEW a \in Nat, NEW b \in Nat
  PROVE  Less(a, b) \in Nat
BY DEF Less

LEMMA ClampIs ==
  ASSUME NEW p, Loose(p)
  PROVE  /\ IsPicker(clamp(p)) /\ visible(clamp(p)) = visible(p)
         /\ clamp(p).dir = p.dir /\ clamp(p).filter = p.filter
         /\ clamp(p).showHidden = p.showHidden /\ clamp(p).selected <= p.selected
<1> DEFINE n == AtMost(p.selected, Less(Len(visible(p)), 1))
<1>1. Less(Len(visible(p)), 1) \in Nat
  BY VisibleIs, LessIs
<1>2. n \in Nat /\ n <= Less(Len(visible(p)), 1) /\ n <= p.selected
  BY <1>1, AtMostIs DEF Loose
<1>3. clamp(p) = [p EXCEPT !.selected = n]
  BY DEF clamp
<1> HIDE DEF n
<1> QED
  BY <1>2, <1>3, WithSelected DEF IsPicker

\* read: the rows of the directory, as far as they are there.
LEMMA ReadIs ==
  ASSUME NEW p, Loose(p), NEW d
  PROVE  /\ IsPicker(read(p, d)) /\ read(p, d).dir = d /\ read(p, d).filter = p.filter
         /\ read(p, d).showHidden = p.showHidden /\ read(p, d).selected <= p.selected
<1> DEFINE up == IF d = Top THEN << >> ELSE << Up >>
           P == {i \in DOMAIN Listing :
                   /\ Listing[i] # Top /\ Exists(Listing[i]) /\ Readable(d)
                   /\ ParentOf[Listing[i]] = d}
           listed == AtPlaces(Listing, P)
           rows == Cat(up, listed)
           q == [p EXCEPT !.dir = d, !.entries = rows]
<1>1. read(p, d) = clamp(q)
  BY Zenon DEF read, Cat
<1>2. Listing \in Seq(Paths) /\ P \in SUBSET DOMAIN Listing
  BY PickerAssumption DEF Paths
<1>3. \A i \in P : Listing[i] # Top /\ ParentOf[Listing[i]] = d
  OBVIOUS
<1> HIDE DEF P, listed, rows
<1>4. /\ listed \in Seq(Paths) /\ Len(listed) \in Nat
      /\ \A k \in 1 .. Len(listed) : \E i \in P : listed[k] = Listing[i]
  BY <1>2, AtPlacesIs DEF listed
<1>5. up \in Seq(Row) /\ listed \in Seq(Row)
  <2>1. << >> \in Seq(Row) /\ << Up >> \in Seq(Row)
    BY DEF Row
  <2> QED
    BY <1>4, <2>1, SeqMonotonic DEF Row
<1>6. /\ rows \in Seq(Row) /\ Len(rows) = Len(up) + Len(listed)
      /\ \A i \in 1 .. Len(up) + Len(listed) :
           rows[i] = IF i <= Len(up) THEN up[i] ELSE listed[i - Len(up)]
  BY <1>5, CatAt DEF rows
<1>7. DOMAIN rows = 1 .. Len(up) + Len(listed)
  BY <1>6, LenProperties
<1>8. \A k \in 1 .. Len(listed) :
        /\ listed[k] \in Paths \ {Top} /\ listed[k] # Up /\ ParentOf[listed[k]] = d
  BY <1>3, <1>4, PickerAssumption, ElementOfSeq DEF Paths, Up
<1>9. \A i \in 1 .. Len(up) : i = 1 /\ up[i] = Up /\ d # Top
  <2>1. CASE d = Top
    BY <2>1
  <2>2. CASE d # Top
    BY <2>2
  <2> QED
    BY <2>1, <2>2
<1>10. Len(up) \in Nat
  BY <1>5, LenProperties
<1> HIDE DEF up
<1>11. ASSUME NEW i \in DOMAIN rows
       PROVE  IF rows[i] = Up THEN i = 1 /\ d # Top
              ELSE rows[i] \in Paths \ {Top} /\ ParentOf[rows[i]] = d
  <2>1. CASE i <= Len(up)
    <3>1. i \in 1 .. Len(up) /\ rows[i] = up[i]
      BY <1>6, <1>7, <1>10, <2>1
    <3> QED
      BY <1>9, <3>1
  <2>2. CASE ~ (i <= Len(up))
    <3>1. i - Len(up) \in 1 .. Len(listed) /\ rows[i] = listed[i - Len(up)]
      BY <1>4, <1>6, <1>7, <1>10, <2>2
    <3> QED
      BY <1>8, <3>1
  <2> QED
    BY <2>1, <2>2
<1>12. /\ DOMAIN q = DOMAIN p /\ q.dir = d /\ q.entries = rows /\ q.filter = p.filter
       /\ q.showHidden = p.showHidden /\ q.selected = p.selected /\ q.offset = p.offset
  BY DEF Loose
<1> HIDE DEF q
<1>13. RowsOf(q)
  BY <1>11, <1>12 DEF RowsOf
<1>14. Loose(q)
  BY <1>6, <1>12, <1>13 DEF Loose
<1> QED
  BY <1>1, <1>12, <1>14, ClampIs

\* select_path: the row is selected, if it is shown.
LEMMA SelectIs ==
  ASSUME NEW p, IsPicker(p), NEW path
  PROVE  LET q == select_path(p, path)
         IN /\ IsPicker(q) /\ visible(q) = visible(p)
            /\ path \in ToSet(visible(p)) => selected_entry(q) = path
            /\ path \notin ToSet(visible(p)) => q = p
<1> DEFINE v == visible(p)
           n == (CHOOSE i \in DOMAIN v : v[i] = path) - 1
           q == select_path(p, path)
<1>1. Len(v) \in Nat /\ DOMAIN v = 1 .. Len(v) /\ Loose(p)
  BY VisibleIs DEF IsPicker
<1>2. CASE path \notin ToSet(v)
  <2>1. q = p
    BY <1>2 DEF select_path
  <2> QED
    BY <1>2, <2>1
<1>3. CASE path \in ToSet(v)
  <2>1. q = [p EXCEPT !.selected = n]
    BY <1>3 DEF select_path
  <2>2. \E i \in DOMAIN v : v[i] = path
    BY <1>3 DEF ToSet
  <2>3. n + 1 \in DOMAIN v /\ v[n + 1] = path
    <3>1. PICK i \in DOMAIN v : i = (CHOOSE j \in DOMAIN v : v[j] = path) /\ v[i] = path
      BY <2>2
    <3>2. n = i - 1 /\ i \in Int
      BY <1>1, <3>1
    <3> QED
      BY <3>1, <3>2
  <2> HIDE DEF n, v, q
  <2>4. n \in Nat /\ n < Len(v) /\ n <= Less(Len(v), 1)
    <3>1. n + 1 \in 1 .. Len(v)
      BY <1>1, <2>3
    <3>2. n \in Int
      <4>1. \E i \in DOMAIN v : i = (CHOOSE j \in DOMAIN v : v[j] = path)
        BY <2>2
      <4> QED
        BY <1>1, <4>1 DEF n
    <3> QED
      BY <1>1, <3>1, <3>2 DEF Less
  <2>5. Loose(q) /\ visible(q) = v /\ q.selected = n
    BY <1>1, <2>1, <2>4, WithSelected DEF v
  <2>6. IsPicker(q) /\ selected_entry(q) = path
    BY <2>3, <2>4, <2>5 DEF IsPicker, selected_entry
  <2> QED
    BY <1>3, <2>5, <2>6 DEF v, q
<1> QED
  BY <1>2, <1>3

-----------------------------------------------------------------------------
(* Picker: what the keys make of it.                                       *)

\* The picker begins again at the first row.
LEMMA FromTheTop ==
  ASSUME NEW p, Loose(p), NEW f
  PROVE  /\ Loose([p EXCEPT !.filter = f, !.selected = 0, !.offset = 0])
         /\ IsPicker(filter_changed(p))
         /\ Loose([p EXCEPT !.filter = f])
<1> DEFINE q == [p EXCEPT !.filter = f, !.selected = 0, !.offset = 0]
           r == filter_changed(p)
           t == [p EXCEPT !.filter = f]
<1>1. /\ DOMAIN q = DOMAIN p /\ q.dir = p.dir /\ q.entries = p.entries
      /\ q.selected = 0 /\ q.offset = 0
  BY DEF Loose
<1>2. /\ DOMAIN r = DOMAIN p /\ r.dir = p.dir /\ r.entries = p.entries
      /\ r.selected = 0 /\ r.offset = 0
  BY DEF Loose, filter_changed
<1>3. /\ DOMAIN t = DOMAIN p /\ t.dir = p.dir /\ t.entries = p.entries
      /\ t.selected = p.selected /\ t.offset = p.offset
  BY DEF Loose
<1> HIDE DEF q, r, t
<1>4. Loose(q) /\ Loose(r) /\ Loose(t)
  BY <1>1, <1>2, <1>3 DEF Loose, RowsOf
<1>5. Less(Len(visible(r)), 1) \in Nat
  BY <1>4, VisibleIs, LessIs
<1> QED
  BY <1>2, <1>4, <1>5 DEF IsPicker, q, r, t

LEMMA GoToIs ==
  ASSUME NEW p, Loose(p), NEW d
  PROVE  IsPicker(go_to(p, d)) /\ go_to(p, d).dir = d
BY FromTheTop, ReadIs, Zenon DEF go_to

LEMMA FollowIs ==
  ASSUME NEW p, IsPicker(p), NEW target
  PROVE  IsPicker(follow(p, target)) /\ IsPicker(parent(p))
<1>1. \A d : IsPicker(follow(p, d))
  <2> SUFFICES ASSUME NEW d PROVE IsPicker(follow(p, d))
    OBVIOUS
  <2>1. IsPicker(go_to(p, d))
    BY GoToIs DEF IsPicker
  <2>2. IsPicker(select_path(go_to(p, d), p.dir))
    BY <2>1, SelectIs
  <2> QED
    BY <2>2, Zenon DEF follow
<1> QED
  BY <1>1, Zenon DEF parent

LEMMA ClosedIs == IsPicker(Closed)
<1>1. << >> \in Seq(Row) /\ DOMAIN << >> = {}
  OBVIOUS
<1>2. Loose(Closed)
  BY <1>1 DEF Closed, Loose, RowsOf
<1>3. Less(Len(visible(Closed)), 1) \in Nat
  BY <1>2, VisibleIs, LessIs
<1>4. Closed.selected = 0
  BY DEF Closed
<1> QED
  BY <1>2, <1>3, <1>4 DEF IsPicker

LEMMA MoveIs ==
  ASSUME NEW p, IsPicker(p), NEW delta \in Int
  PROVE  IsPicker(move_by(p, delta))
<1> DEFINE v == visible(p)
           n == IF Len(v) = 0 \/ p.selected + delta < 0 THEN 0
                ELSE AtMost(p.selected + delta, Len(v) - 1)
<1>1. Loose(p) /\ Len(v) \in Nat /\ p.selected \in Nat
  BY VisibleIs DEF IsPicker, Loose
<1>2. move_by(p, delta) = [p EXCEPT !.selected = n]
  BY DEF move_by
<1> HIDE DEF v
<1>3. n \in Nat /\ n <= Less(Len(v), 1)
  BY <1>1 DEF AtMost, Less
<1> HIDE DEF n
<1> QED
  BY <1>1, <1>2, <1>3, WithSelected DEF IsPicker, v

\* toggle_hidden, before the row is selected again.
LEMMA ToggledIs ==
  ASSUME NEW p, Loose(p)
  PROVE  LET q == [p EXCEPT !.showHidden = ~@, !.selected = 0]
         IN IsPicker(q) /\ q.dir = p.dir /\ q.selected = 0
<1> DEFINE q == [p EXCEPT !.showHidden = ~@, !.selected = 0]
<1>1. /\ DOMAIN q = DOMAIN p /\ q.dir = p.dir /\ q.entries = p.entries
      /\ q.selected = 0 /\ q.offset = p.offset
  BY DEF Loose
<1> HIDE DEF q
<1>2. Loose(q)
  BY <1>1 DEF Loose, RowsOf
<1>3. Less(Len(visible(q)), 1) \in Nat
  BY <1>2, VisibleIs, LessIs
<1> QED
  BY <1>1, <1>2, <1>3 DEF IsPicker, q

\* scroll_to_fit: the window is moved to where the selected row is.
LEMMA ScrolledIs ==
  ASSUME NEW p, IsPicker(p), NEW height \in Heights
  PROVE  LET q == scroll_to_fit(p, height)
         IN /\ IsPicker(q) /\ visible(q) = visible(p)
            /\ visible(q) # << >> => q.selected \in q.offset .. q.offset + height - 1
<1> DEFINE off == IF p.selected < p.offset THEN p.selected
                  ELSE IF p.selected >= p.offset + height THEN p.selected + 1 - height
                  ELSE p.offset
           n == AtMost(off, Less(Len(visible(p)), height))
           q == scroll_to_fit(p, height)
<1>1. /\ Loose(p) /\ Len(visible(p)) \in Nat /\ p.selected \in Nat /\ p.offset \in Nat
      /\ p.selected <= Less(Len(visible(p)), 1) /\ visible(p) \in Seq(Row)
  BY VisibleIs DEF IsPicker, Loose
<1>2. height \in Nat /\ height > 0
  BY PickerAssumption
<1>3. q = [p EXCEPT !.offset = n]
  BY DEF scroll_to_fit
<1>4. off \in Nat /\ off <= p.selected /\ p.selected <= off + height - 1
  BY <1>1, <1>2
<1> HIDE DEF off
<1>5. n \in Nat /\ n <= off
  BY <1>1, <1>2, <1>4, AtMostIs, LessIs
<1>6. ASSUME visible(p) # << >>
      PROVE  n <= p.selected /\ p.selected <= n + height - 1
  <2>1. Len(visible(p)) > 0
    BY <1>1, <1>6, EmptySeq
  <2>2. p.selected <= Len(visible(p)) - 1
    BY <1>1, <2>1 DEF Less
  <2>3. n = off \/ (n = Less(Len(visible(p)), height))
    BY DEF AtMost
  <2>4. n = Less(Len(visible(p)), height) => p.selected <= n + height - 1
    BY <1>1, <1>2, <2>2 DEF Less
  <2> QED
    BY <1>1, <1>4, <1>5, <2>3, <2>4
<1> HIDE DEF n, q
<1>7. /\ DOMAIN q = DOMAIN p /\ q.dir = p.dir /\ q.entries = p.entries
      /\ q.filter = p.filter /\ q.showHidden = p.showHidden
      /\ q.selected = p.selected /\ q.offset = n
  BY <1>1, <1>3 DEF Loose
<1>8. visible(q) = visible(p)
  BY <1>7, VisibleSame
<1>9. Loose(q)
  BY <1>1, <1>5, <1>7 DEF Loose, RowsOf
<1>10. IsPicker(q)
  BY <1>1, <1>7, <1>8, <1>9 DEF IsPicker
<1>11. ASSUME visible(p) # << >> PROVE n \in Nat /\ p.selected \in n .. n + height - 1
  BY <1>1, <1>2, <1>5, <1>6, <1>11
<1> QED
  BY <1>7, <1>8, <1>10, <1>11 DEF q

-----------------------------------------------------------------------------
(* Picker: the inductive invariant.                                        *)

PickerInv == IsPicker(picker) /\ MarkedIsSelected

\* What a key makes of the picker is not drawn yet.
LEMMA KeyKeeps == ASSUME NEW p, IsPicker(p), Key(p) PROVE PickerInv'
BY Zenon DEF Key, PickerInv, MarkedIsSelected

LEMMA DrawKeeps == ASSUME PickerInv, Draw PROVE PickerInv'
<1>1. PICK height \in Heights : /\ picker' = scroll_to_fit(picker, height)
                               /\ marked' = MarkedIn(picker', height)
  BY DEF Draw
<1>2. /\ IsPicker(picker')
      /\ visible(picker') # << >> =>
           picker'.selected \in picker'.offset .. picker'.offset + height - 1
  BY <1>1, ScrolledIs DEF PickerInv
<1>3. ASSUME visible(picker') # << >>
      PROVE  marked' = selected_entry(picker') /\ marked' # NotPath
  <2>1. marked' = selected_entry(picker')
    BY <1>1, <1>2, <1>3 DEF MarkedIn
  <2> QED
    BY <1>2, <1>3, <2>1, SelectedIs, RowIsPath
<1> QED
  BY <1>2, <1>3, Zenon DEF PickerInv, MarkedIsSelected

LEMMA OpenKeeps == ASSUME OpenPicker PROVE PickerInv'
<1>1. PICK start, dir : picker' = select_path(go_to(Closed, dir), start)
  BY Zenon DEF OpenPicker
<1>2. IsPicker(go_to(Closed, dir))
  BY ClosedIs, GoToIs DEF IsPicker
<1>3. IsPicker(picker')
  BY <1>1, <1>2, SelectIs
<1> QED
  BY <1>3, Zenon DEF OpenPicker, PickerInv, MarkedIsSelected

LEMMA InitPicker == PickerInit => PickerInv
BY ClosedIs, Zenon DEF PickerInit, PickerInv, MarkedIsSelected

LEMMA PickerStep == ASSUME PickerInv, [PickerNext]_pickerVars PROVE PickerInv'
<1> USE DEF PickerInv
<1>1. CASE MoveBy
  <2>1. PICK delta \in Int : Key(move_by(picker, delta))
    BY <1>1 DEF MoveBy
  <2> QED
    BY <2>1, MoveIs, KeyKeeps
<1>2. CASE Enter
  <2>1. PICK target : Key(Closed) \/ Key(follow(picker, target))
    BY <1>2, Zenon DEF Enter
  <2> QED
    BY <2>1, ClosedIs, FollowIs, KeyKeeps
<1>3. CASE Left
  BY <1>3, FollowIs, KeyKeeps DEF Left
<1>4. CASE Right
  BY <1>4, FollowIs, KeyKeeps DEF Right
<1>5. CASE Backspace \/ TypeFilter \/ ClearFilter
  <2>1. Left \/ \E f : Key(filter_changed([picker EXCEPT !.filter = f]))
    <3>1. CASE Backspace
      BY <3>1 DEF Backspace
    <3>2. CASE TypeFilter \/ ClearFilter
      BY <3>2, Zenon DEF TypeFilter, ClearFilter
    <3> QED
      BY <1>5, <3>1, <3>2
  <2>2. \A f : IsPicker(filter_changed([picker EXCEPT !.filter = f]))
    BY FromTheTop DEF IsPicker
  <2> QED
    BY <1>3, <2>1, <2>2, KeyKeeps
<1>6. CASE Tab
  <2>1. IsPicker(toggle_hidden(picker))
    BY ToggledIs, SelectIs DEF toggle_hidden, IsPicker
  <2> QED
    BY <1>6, <2>1, KeyKeeps DEF Tab
<1>7. CASE Refresh
  <2>1. IsPicker(refresh(picker))
    BY ReadIs, SelectIs DEF refresh, IsPicker
  <2> QED
    BY <1>7, <2>1, KeyKeeps DEF Refresh
<1>8. CASE Escape
  BY <1>8, ClosedIs, KeyKeeps DEF Escape
<1>9. CASE FilesChange \/ UNCHANGED pickerVars
  <2>1. picker' = picker /\ drawn' = drawn /\ marked' = marked
    BY <1>9 DEF FilesChange, pickerVars
  <2> QED
    BY <2>1, Zenon DEF MarkedIsSelected
<1>10. CASE OpenPicker \/ Draw
  BY <1>10, OpenKeeps, DrawKeeps
<1> QED
  BY <1>1, <1>2, <1>3, <1>4, <1>5, <1>6, <1>7, <1>8, <1>9, <1>10, Zenon DEF PickerNext

LEMMA PickerInvariant == PickerSpec => []PickerInv
BY InitPicker, PickerStep, PTL DEF PickerSpec

-----------------------------------------------------------------------------
(* Picker: the types.                                                      *)

Longest == Len(Listing)

\* The texts the filter may have.
Texts == Filters \union {""}

LEMMA TextsAre == /\ "" \in Texts /\ Filters \subseteq Texts
                  /\ \A f \in Texts : f # "" => Cut[f] \in Texts
BY FilterAssumption DEF Texts

\* A picker of a directory, no longer than the listing of all paths.
Fits(p) == /\ p.dir \in Dirs /\ p.filter \in Texts
           /\ Len(p.entries) <= Longest /\ p.offset <= Longest

PickerTypes == /\ files \subseteq Paths /\ Top \in files
               /\ (picker = Closed /\ ~drawn) \/ Fits(picker)

LEMMA ListingIs ==
  /\ DOMAIN Listing = 1 .. Longest /\ Listing \in Seq(Paths)
  /\ \E i \in 1 .. Longest : Listing[i] = Top
<1>1. Listing \in Seq(Paths) /\ Top \in ToSet(Listing)
  BY PickerAssumption DEF Paths
<1>2. DOMAIN Listing = 1 .. Longest
  BY <1>1, LenProperties DEF Longest
<1> QED
  BY <1>1, <1>2 DEF ToSet

LEMMA LongestIs == Longest \in Nat
<1>1. Listing \in Seq(Paths)
  BY ListingIs
<1> QED
  BY <1>1, LenProperties DEF Longest

\* No more is shown than is listed.
LEMMA ShownFew ==
  ASSUME NEW p, Loose(p)
  PROVE  Len(visible(p)) <= Len(p.entries) /\ Len(p.entries) \in Nat
<1> DEFINE shown(e) == IF e = Up THEN p.filter = ""
                       ELSE /\ p.showHidden \/ e \notin Dotted
                            /\ p.filter = "" \/ e \in Matching[p.filter]
           P == {i \in DOMAIN p.entries : shown(p.entries[i])}
<1>1. visible(p) = AtPlaces(p.entries, P)
  BY Zenon DEF visible
<1>2. P \in SUBSET DOMAIN p.entries /\ p.entries \in Seq(Row)
  BY DEF Loose
<1> HIDE DEF P
<1>3. /\ IsFiniteSet(P) /\ Len(visible(p)) = Cardinality(P) /\ Len(p.entries) \in Nat
      /\ DOMAIN p.entries = 1 .. Len(p.entries)
  BY <1>1, <1>2, AtPlacesIs, LenProperties
<1>4. /\ IsFiniteSet(1 .. Len(p.entries))
      /\ Cardinality(1 .. Len(p.entries)) = Len(p.entries)
  BY <1>3, FS_Interval
<1>5. Cardinality(P) <= Cardinality(1 .. Len(p.entries))
  BY <1>2, <1>3, <1>4, FS_Subset
<1> QED
  BY <1>3, <1>4, <1>5

\* read: ".." is one row, and the top, which is not listed, would be another.
LEMMA ReadFits ==
  ASSUME NEW p, Loose(p), NEW d, d \in Dirs, p.filter \in Texts,
         p.offset <= Longest
  PROVE  Fits(read(p, d))
<1> DEFINE up == IF d = Top THEN << >> ELSE << Up >>
           P == {i \in DOMAIN Listing :
                   /\ Listing[i] # Top /\ Exists(Listing[i]) /\ Readable(d)
                   /\ ParentOf[Listing[i]] = d}
           listed == AtPlaces(Listing, P)
           rows == Cat(up, listed)
           q == [p EXCEPT !.dir = d, !.entries = rows]
<1>1. read(p, d) = clamp(q)
  BY Zenon DEF read, Cat
<1>2. P \in SUBSET DOMAIN Listing /\ \A i \in P : Listing[i] # Top
  OBVIOUS
<1>3. up \in Seq(Row) /\ (Len(up) = 0 \/ Len(up) = 1)
  <2>1. CASE d = Top
    BY <2>1
  <2>2. CASE d # Top
    BY <2>2 DEF Row
  <2> QED
    BY <2>1, <2>2
<1> HIDE DEF P, listed, up, rows
<1>4. PICK t \in 1 .. Longest : Listing[t] = Top
  BY ListingIs
<1>5. listed \in Seq(Paths) /\ IsFiniteSet(P) /\ Len(listed) = Cardinality(P)
  BY <1>2, ListingIs, AtPlacesIs DEF listed
<1>6. Cardinality(P) \in Nat /\ Cardinality(P) + 1 <= Longest
  <2>1. /\ IsFiniteSet(1 .. Longest) /\ Cardinality(1 .. Longest) = Longest
    BY LongestIs, FS_Interval
  <2>2. t \notin P /\ P \union {t} \subseteq 1 .. Longest
    BY <1>2, <1>4, ListingIs
  <2>3. Cardinality(P \union {t}) = Cardinality(P) + 1
    BY <1>5, <2>2, FS_AddElement
  <2>4. Cardinality(P \union {t}) <= Cardinality(1 .. Longest)
    BY <2>1, <2>2, FS_Subset
  <2>5. Cardinality(P) \in Nat
    BY <1>5, FS_CardinalityType
  <2> QED
    BY <2>1, <2>3, <2>4, <2>5
<1>7. Len(rows) <= Longest
  <2>1. listed \in Seq(Row)
    BY <1>5, SeqMonotonic DEF Row
  <2>2. Len(rows) = Len(up) + Len(listed)
    BY <1>3, <2>1, CatAt DEF rows
  <2> DEFINE m == Len(up)
             n == Len(listed)
             r == Len(rows)
  <2>3. (m = 0 \/ m = 1) /\ n = Cardinality(P) /\ r = m + n
    BY <1>3, <1>5, <2>2
  <2> HIDE DEF m, n, r
  <2>4. r <= Longest
    BY ONLY <1>6, <2>3, LongestIs
  <2> QED
    BY <2>4 DEF r
<1>8. /\ q.dir = d /\ q.entries = rows /\ q.filter = p.filter /\ q.offset = p.offset
      /\ DOMAIN q = DOMAIN p
  BY DEF Loose
<1> HIDE DEF q
<1>9. /\ clamp(q).dir = q.dir /\ clamp(q).entries = q.entries
      /\ clamp(q).filter = q.filter /\ clamp(q).offset = q.offset
  BY <1>8 DEF clamp, Loose
<1> QED
  BY <1>1, <1>7, <1>8, <1>9 DEF Fits

\* What changes the selection alone, and where the next filter is from.
LEMMA SelectionFits ==
  ASSUME NEW p, Loose(p), Fits(p)
  PROVE  /\ \A path : Fits(select_path(p, path))
         /\ \A delta : Fits(move_by(p, delta))
         /\ \A path : select_path(p, path).dir = p.dir
<1>1. ASSUME NEW n
      PROVE  LET q == [p EXCEPT !.selected = n]
             IN /\ q.dir = p.dir /\ q.filter = p.filter
                /\ q.entries = p.entries /\ q.offset = p.offset
  BY DEF Loose
<1>2. \A n : Fits([p EXCEPT !.selected = n])
  BY <1>1 DEF Fits
<1>3. ASSUME NEW path
      PROVE  Fits(select_path(p, path)) /\ select_path(p, path).dir = p.dir
  BY <1>1, <1>2, Zenon DEF select_path
<1>4. ASSUME NEW delta PROVE Fits(move_by(p, delta))
  BY <1>2, Zenon DEF move_by
<1> QED
  BY <1>3, <1>4

LEMMA FilterFits ==
  ASSUME NEW p, Loose(p), Fits(p), NEW f \in Texts
  PROVE  Fits(filter_changed([p EXCEPT !.filter = f]))
<1> DEFINE q == filter_changed([p EXCEPT !.filter = f])
<1>1. q.dir = p.dir /\ q.entries = p.entries /\ q.offset = 0 /\ q.filter = f
  BY DEF filter_changed, Loose
<1>2. 0 <= Longest
  BY LongestIs
<1> QED
  BY <1>1, <1>2 DEF Fits

LEMMA GoToFits ==
  ASSUME NEW p, IsPicker(p), NEW d \in Dirs
  PROVE  Fits(go_to(p, d))
<1> DEFINE q == [p EXCEPT !.filter = "", !.selected = 0, !.offset = 0]
<1>1. Loose(q) /\ q.filter = "" /\ q.offset = 0
  BY FromTheTop DEF IsPicker, Loose
<1>2. go_to(p, d) = read(q, d)
  BY DEF go_to
<1> HIDE DEF q
<1>3. q.offset <= Longest
  <2>1. q.offset = 0
    BY <1>1
  <2> QED
    BY ONLY <2>1, LongestIs
<1>4. q.filter \in Texts
  BY <1>1, TextsAre
<1> QED
  BY <1>1, <1>2, <1>3, <1>4, ReadFits

LEMMA FollowFits ==
  ASSUME NEW p, IsPicker(p), Fits(p)
  PROVE  (\A target : Fits(follow(p, target))) /\ Fits(parent(p))
<1>1. ASSUME NEW target PROVE Fits(follow(p, target))
  <2>1. CASE target \in Dirs /\ Exists(target)
    BY <2>1, GoToFits, GoToIs, SelectionFits DEF follow, IsPicker
  <2>2. CASE ~(target \in Dirs /\ Exists(target))
    BY <2>2 DEF follow
  <2> QED
    BY <2>1, <2>2
<1> QED
  BY <1>1, Zenon DEF parent

\* Picker::open comes to a directory that can be read: the top, if no other.
LEMMA OpenFits == ASSUME PickerTypes, OpenPicker PROVE Fits(picker')
<1>1. PICK start \in Paths :
        LET at == {d \in Lineage[start] : Readable(d)}
            dir == CHOOSE d \in at : at \subseteq Lineage[d]
        IN picker' = select_path(go_to(Closed, dir), start)
  BY Zenon DEF OpenPicker
<1> DEFINE at == {d \in Lineage[start] : Readable(d)}
           dir == CHOOSE d \in at : at \subseteq Lineage[d]
<1>2. Top \in at
  BY PickerAssumption, LineageAssumption DEF Nested, PickerTypes, Readable, Exists
<1>3. \E d \in at : at \subseteq Lineage[d]
  <2>1. at \subseteq Lineage[start] /\ at # {}
    BY <1>2
  <2> HIDE DEF at
  <2>2. \A above \in (SUBSET Lineage[start]) \ {{}} :
          \E d \in above : above \subseteq Lineage[d]
    BY LineageAssumption, Zenon DEF Nested
  <2> QED
    BY <2>1, <2>2
<1>4. dir \in Dirs
  <2>1. dir \in at
    BY <1>3
  <2> QED
    BY <2>1 DEF Readable
<1> HIDE DEF at, dir
<1>5. picker' = select_path(go_to(Closed, dir), start)
  BY <1>1 DEF at, dir
<1> QED
  BY <1>4, <1>5, ClosedIs, GoToFits, GoToIs, SelectionFits DEF IsPicker

LEMMA DrawFits == ASSUME PickerInv, PickerTypes, Draw PROVE Fits(picker')
<1>0. Fits(picker)
  BY DEF PickerTypes, Draw
<1>1. PICK height \in Heights : picker' = scroll_to_fit(picker, height)
  BY DEF Draw
<1>2. /\ picker'.dir = picker.dir /\ picker'.filter = picker.filter
      /\ picker'.entries = picker.entries
  BY <1>1 DEF scroll_to_fit, PickerInv, IsPicker, Loose
<1>3. picker'.offset <= Longest
  <2>1. /\ Loose(picker) /\ Len(visible(picker)) \in Nat /\ height \in Nat
        /\ picker.selected \in Nat /\ picker.offset \in Nat
    BY PickerAssumption, VisibleIs DEF PickerInv, IsPicker, Loose
  <2>2. /\ Len(visible(picker)) <= Len(picker.entries) /\ Len(picker.entries) \in Nat
        /\ Len(picker.entries) <= Longest /\ Longest \in Nat
    BY <1>0, <2>1, ShownFew, LongestIs DEF Fits
  <2> DEFINE few == Less(Len(visible(picker)), height)
  <2>3. few \in Nat /\ few <= Len(visible(picker))
    BY <2>1 DEF Less
  <2>4. \E off \in Int : picker'.offset = AtMost(off, few)
    BY <1>1, <2>1 DEF scroll_to_fit, Loose
  <2> HIDE DEF few
  <2>5. picker'.offset <= few /\ picker'.offset \in Int
    BY <2>3, <2>4 DEF AtMost
  <2> QED
    BY <2>2, <2>3, <2>5, <2>1
<1> QED
  BY <1>2, <1>3, <1>0 DEF Fits

LEMMA PickerTyped ==
  ASSUME PickerInv, PickerTypes, [PickerNext]_pickerVars PROVE PickerTypes'
<1>1. CASE FilesChange \/ UNCHANGED pickerVars
  <2>1. picker' = picker /\ drawn' = drawn /\ files' \subseteq Paths /\ Top \in files'
    BY <1>1 DEF FilesChange, pickerVars, PickerTypes
  <2> QED
    BY <2>1, Zenon DEF PickerTypes, Fits
<1>2. ASSUME files' = files, Fits(picker') PROVE PickerTypes'
  BY <1>2, Zenon DEF PickerTypes, Fits
<1>3. CASE OpenPicker \/ Draw
  <2>1. files' = files
    BY <1>3, Zenon DEF OpenPicker, Draw
  <2> QED
    BY <1>2, <1>3, <2>1, OpenFits, DrawFits
<1>4. ASSUME NEW p, Key(p), p = Closed \/ Fits(p)
      PROVE  PickerTypes'
  <2>1. picker' = p /\ ~drawn' /\ files' = files
    BY <1>4 DEF Key
  <2> QED
    BY <1>4, <2>1, Zenon DEF PickerTypes, Fits
<1>5. IsPicker(picker) /\ Loose(picker)
  BY DEF PickerInv, IsPicker
<1>6. drawn => Fits(picker)
  BY DEF PickerTypes
<1>7. CASE MoveBy
  <2>1. PICK delta \in Int : Key(move_by(picker, delta))
    BY <1>7 DEF MoveBy
  <2>2. Fits(move_by(picker, delta))
    BY <1>5, <1>6, <2>1, SelectionFits DEF Key
  <2> QED
    BY <1>4, <2>1, <2>2
<1>8. CASE Enter \/ Left \/ Right \/ Escape
  BY <1>4, <1>5, <1>6, <1>8, FollowFits, Zenon DEF Enter, Left, Right, Escape, Key
<1>9. CASE Backspace \/ TypeFilter \/ ClearFilter
  <2>1. Fits(picker)
    BY <1>6, <1>9, Zenon DEF Backspace, Left, TypeFilter, ClearFilter, Key
  <2>2. Left \/ \E f \in Texts : Key(filter_changed([picker EXCEPT !.filter = f]))
    <3>1. CASE Backspace
      <4>1. picker.filter # "" => Cut[picker.filter] \in Texts
        BY <2>1, TextsAre DEF Fits
      <4>2. picker.filter # "" =>
              [picker EXCEPT !.filter = Cut[@]] = [picker EXCEPT !.filter = Cut[picker.filter]]
        OBVIOUS
      <4> QED
        BY <3>1, <4>1, <4>2, Zenon DEF Backspace
    <3>2. CASE TypeFilter \/ ClearFilter
      <4>1. "" \in Texts /\ Filters \subseteq Texts
        BY TextsAre
      <4> QED
        BY <3>2, <4>1, Zenon DEF TypeFilter, ClearFilter
    <3> QED
      BY <1>9, <3>1, <3>2
  <2> QED
    BY <1>4, <1>5, <1>8, <2>1, <2>2, FilterFits
<1>10. CASE Tab
  <2> DEFINE q == [picker EXCEPT !.showHidden = ~@, !.selected = 0]
  <2>1. /\ q.dir = picker.dir /\ q.filter = picker.filter
        /\ q.entries = picker.entries /\ q.offset = picker.offset
    BY <1>5 DEF Loose
  <2>2. Loose(q)
    BY <1>5, ToggledIs DEF IsPicker
  <2> HIDE DEF q
  <2>3. Fits(q)
    BY <1>6, <1>10, <2>1 DEF Fits, Tab, Key
  <2>4. Key(select_path(q, PathOf(picker, selected_entry(picker))))
    BY <1>10, Zenon DEF Tab, toggle_hidden, q
  <2> QED
    BY <1>4, <2>2, <2>3, <2>4, SelectionFits
<1>11. CASE Refresh
  <2>1. /\ drawn
        /\ Key(select_path(read(picker, picker.dir), PathOf(picker, selected_entry(picker))))
    BY <1>11, Zenon DEF Refresh, refresh, Key
  <2>2. picker.dir \in Dirs /\ Fits(picker)
    BY <1>6, <2>1 DEF Fits
  <2>3. Loose(read(picker, picker.dir)) /\ Fits(read(picker, picker.dir))
    BY <1>5, <2>2, ReadFits, ReadIs DEF Fits, IsPicker
  <2> QED
    BY <1>4, <2>1, <2>3, SelectionFits
<1> QED
  BY <1>1, <1>3, <1>7, <1>8, <1>9, <1>10, <1>11, Zenon DEF PickerNext

LEMMA PickerTypesHold == PickerSpec => []PickerTypes
<1>1. PickerInit => PickerTypes
  BY PickerAssumption DEF PickerInit, PickerTypes, Paths
<1> QED
  BY <1>1, PickerTyped, PickerInvariant, PTL DEF PickerSpec

LEMMA PickerIsTyped == PickerInv /\ PickerTypes => PickerTypeOK
<1> SUFFICES ASSUME PickerInv, PickerTypes PROVE PickerTypeOK
  OBVIOUS
<1>1. /\ IsPicker(picker) /\ Loose(picker) /\ files \subseteq Paths
      /\ Longest \in Nat /\ picker.selected \in Nat /\ picker.offset \in Nat
  BY LongestIs DEF PickerInv, IsPicker, PickerTypes, Loose
<1>2. ToSet(picker.entries) \subseteq Paths \union {Up}
  <2>1. picker.entries \in Seq(Row)
    BY <1>1 DEF Loose
  <2>2. \A i \in DOMAIN picker.entries : picker.entries[i] \in Row
    BY <2>1, ElementOfSeq, LenProperties
  <2> QED
    BY <2>2 DEF ToSet, Row
<1>3. picker.selected \in 0 .. Len(picker.entries)
  <2>1. /\ Len(visible(picker)) \in Nat /\ Len(visible(picker)) <= Len(picker.entries)
        /\ Len(picker.entries) \in Nat
    BY <1>1, VisibleIs, ShownFew
  <2>2. picker.selected <= Less(Len(visible(picker)), 1)
    BY <1>1 DEF IsPicker
  <2> QED
    BY <1>1, <2>1, <2>2 DEF Less
<1>4. /\ picker.dir \in Dirs \union {NotPath} /\ picker.filter \in Texts
      /\ picker.offset <= Longest
  <2>1. CASE picker = Closed
    <3>1. picker.dir = NotPath /\ picker.filter = "" /\ picker.offset = 0
      BY <2>1 DEF Closed
    <3>2. 0 <= Longest
      BY ONLY LongestIs
    <3> QED
      BY <3>1, <3>2, TextsAre
  <2>2. CASE Fits(picker)
    BY <2>2 DEF Fits
  <2> QED
    BY <2>1, <2>2 DEF PickerTypes
<1>5. picker.offset \in 0 .. Longest
  BY <1>1, <1>4
<1> QED
  BY <1>1, <1>2, <1>3, <1>4, <1>5, Zenon DEF PickerTypeOK, Texts, Longest

\* read, scroll_to_fit, window: whatever keys are pressed, whatever comes and goes
\* and however high the terminal is, the picker is of a directory and its selection
\* among what it listed; a row is drawn as selected if there is any, and it is the
\* one the next key acts on.
THEOREM MarkedIsActedOn == PickerSpec => []PickerRight
<1>1. PickerInv /\ PickerTypes => PickerRight
  BY PickerIsTyped DEF PickerInv, PickerRight
<1> QED
  BY <1>1, PickerInvariant, PickerTypesHold, PTL

-----------------------------------------------------------------------------
(* Picker: the selection is kept.                                          *)

\* The row of the entry that was selected is selected again, where it is shown.
LEMMA SelectedAgain ==
  ASSUME NEW p, IsPicker(p), NEW q, IsPicker(q), q.dir = p.dir,
         selected_entry(p) = Up => q.selected = 0,
         NEW r, r = select_path(q, PathOf(p, selected_entry(p))),
         selected_entry(p) \in ToSet(visible(r))
  PROVE  selected_entry(r) = selected_entry(p)
<1> DEFINE e == selected_entry(p)
<1>1. /\ IsPicker(r) /\ visible(r) = visible(q)
      /\ PathOf(p, e) \in ToSet(visible(q)) => selected_entry(r) = PathOf(p, e)
      /\ PathOf(p, e) \notin ToSet(visible(q)) => r = q
  BY SelectIs
<1> HIDE DEF e
<1>2. /\ Len(visible(q)) \in Nat /\ DOMAIN visible(q) = 1 .. Len(visible(q))
      /\ visible(q) \in Seq(Row)
      /\ \A k \in 1 .. Len(visible(q)) :
           /\ visible(q)[k] = Up => k = 1 /\ q.dir # Top
           /\ visible(q)[k] # Up => /\ visible(q)[k] \in Paths \ {Top}
                                   /\ ParentOf[visible(q)[k]] = q.dir
  BY VisibleIs DEF IsPicker
<1>3. PICK k \in 1 .. Len(visible(q)) : visible(q)[k] = e
  BY <1>1, <1>2 DEF ToSet, e
<1>4. CASE e # Up
  BY <1>1, <1>4 DEF PathOf, e
<1>5. CASE e = Up
  <2>1. k = 1 /\ q.dir # Top /\ PathOf(p, e) = ParentOf[p.dir] /\ q.selected = 0
    BY <1>2, <1>3, <1>5 DEF PathOf, e
  <2>2. CASE ParentOf[p.dir] \in ToSet(visible(q))
    <3>1. PICK j \in 1 .. Len(visible(q)) : visible(q)[j] = ParentOf[p.dir]
      BY <1>2, <2>2 DEF ToSet
    <3>2. visible(q)[j] = Up
      <4> SUFFICES ASSUME visible(q)[j] # Up PROVE FALSE
        OBVIOUS
      <4>1. /\ ParentOf[p.dir] \in Paths \ {Top}
            /\ ParentOf[ParentOf[p.dir]] = p.dir
        BY <1>2, <3>1
      <4> QED
        BY <2>1, <4>1, PickerAssumption DEF Paths
    <3> QED
      BY <1>1, <1>5, <2>1, <2>2, <3>1, <3>2 DEF e
  <2>3. CASE ParentOf[p.dir] \notin ToSet(visible(q))
    <3>1. r = q
      BY <1>1, <2>1, <2>3
    <3>2. 0 < Len(visible(q)) /\ 0 + 1 = 1
      BY <1>2, <1>3
    <3> QED
      BY <1>3, <2>1, <3>1, <3>2 DEF selected_entry, e
  <2> QED
    BY <2>2, <2>3
<1> QED
  BY <1>4, <1>5

LEMMA KeptByStep ==
  ASSUME PickerInv, Refresh \/ Tab, selected_entry(picker) \in ToSet(visible(picker'))
  PROVE  selected_entry(picker') = selected_entry(picker)
<1>1. IsPicker(picker) /\ Loose(picker)
  BY DEF PickerInv, IsPicker
<1>2. CASE Refresh
  <2> DEFINE q == read(picker, picker.dir)
  <2>1. /\ IsPicker(q) /\ q.dir = picker.dir /\ q.selected \in Nat
        /\ q.selected <= picker.selected
    BY <1>1, ReadIs DEF IsPicker, Loose
  <2>2. picker' = select_path(q, PathOf(picker, selected_entry(picker)))
    BY <1>2 DEF Refresh, Key, refresh
  <2> HIDE DEF q
  <2>3. ASSUME selected_entry(picker) = Up PROVE q.selected = 0
    <3>1. picker.selected < Len(visible(picker))
      BY <2>3, PickerAssumption DEF selected_entry, Up
    <3>2. picker.selected \in Nat /\ Len(visible(picker)) \in Nat
      BY <1>1, VisibleIs DEF Loose
    <3>3. /\ picker.selected + 1 \in 1 .. Len(visible(picker))
          /\ visible(picker)[picker.selected + 1] = Up
      BY <2>3, <3>1, <3>2 DEF selected_entry
    <3>4. picker.selected + 1 = 1
      BY <1>1, <3>3, VisibleIs
    <3> QED
      BY <2>1, <3>2, <3>4
  <2> QED
    BY <1>1, <2>1, <2>2, <2>3, SelectedAgain
<1>3. CASE Tab
  <2> DEFINE q == [picker EXCEPT !.showHidden = ~@, !.selected = 0]
  <2>1. IsPicker(q) /\ q.dir = picker.dir /\ q.selected = 0
    BY <1>1, ToggledIs
  <2>2. picker' = select_path(q, PathOf(picker, selected_entry(picker)))
    BY <1>3 DEF Tab, Key, toggle_hidden
  <2> HIDE DEF q
  <2> QED
    BY <1>1, <2>1, <2>2, SelectedAgain
<1> QED
  BY <1>2, <1>3

\* refresh, toggle_hidden: the row of the same name stays selected where it is
\* still shown, ".." included.
THEOREM SelectionIsKept == PickerSpec => SelectionKept
<1>1. PickerInv /\ [PickerNext]_pickerVars =>
        [(Refresh \/ Tab) /\ selected_entry(picker) \in ToSet(visible(picker')) =>
           selected_entry(picker') = selected_entry(picker)]_pickerVars
  BY KeptByStep
<1> QED
  BY <1>1, PickerInvariant, PTL DEF PickerSpec, SelectionKept

-----------------------------------------------------------------------------
(* ArchiveIndex: paths and keys.                                           *)

\* Names that no entry is refused for, and lower-case ones, of which keys are made.
Safe == {name \in DOMAIN Lower : ~unsafe(name)}

Lows == {name \in DOMAIN Lower \intersect ToSet(Order) : Lower[name] = name}

LEMMA LowerIs == \A name \in DOMAIN Lower : Lower[name] \in Lows
BY IndexAssumption DEF Lows

\* The first n of a path.
Initial(s, n) == SubSeq(s, 1, n)

LEMMA SamePath ==
  ASSUME NEW S, NEW s \in Seq(S), NEW t \in Seq(S), Len(s) = Len(t),
         \A i \in 1 .. Len(s) : s[i] = t[i]
  PROVE  s = t
<1>1. s = [i \in 1 .. Len(s) |-> s[i]] /\ t = [i \in 1 .. Len(s) |-> t[i]]
  BY LenProperties
<1> QED
  BY <1>1, Zenon

LEMMA InitialIs ==
  ASSUME NEW S, NEW s \in Seq(S), NEW n \in 0 .. Len(s)
  PROVE  /\ Initial(s, n) \in Seq(S) /\ Len(Initial(s, n)) = n
         /\ \A i \in 1 .. n : Initial(s, n)[i] = s[i]
         /\ n = 0 => Initial(s, n) = <<>>
         /\ n = Len(s) => Initial(s, n) = s
<1>1. /\ Len(s) \in Nat /\ n \in Nat /\ n \in Int
      /\ \A i \in 1 .. n : s[i] \in S
  BY LenProperties, ElementOfSeq
<1>2. /\ SubSeq(s, 1, n) \in Seq(S)
      /\ Len(SubSeq(s, 1, n)) = IF 1 <= n THEN n - 1 + 1 ELSE 0
      /\ \A i \in 1 .. n - 1 + 1 : SubSeq(s, 1, n)[i] = s[1 + i - 1]
  BY <1>1, SubSeqProperties
<1>3. /\ Initial(s, n) \in Seq(S) /\ Len(Initial(s, n)) = n
      /\ \A i \in 1 .. n : Initial(s, n)[i] = s[i]
  BY <1>1, <1>2 DEF Initial
<1>4. n = Len(s) => Initial(s, n) = s
  BY <1>1, <1>3, SamePath
<1>5. n = 0 => Initial(s, n) = <<>>
  BY <1>3, EmptySeq
<1> QED
  BY <1>3, <1>4, <1>5

LEMMA KeyIs ==
  ASSUME NEW path \in Seq(DOMAIN Lower)
  PROVE  /\ key(path) \in Seq(Lows) /\ Len(key(path)) = Len(path)
         /\ \A i \in 1 .. Len(path) : key(path)[i] = Lower[path[i]]
<1>1. /\ Len(path) \in Nat /\ DOMAIN path = 1 .. Len(path)
      /\ \A i \in 1 .. Len(path) : path[i] \in DOMAIN Lower
  BY LenProperties, ElementOfSeq
<1>2. key(path) = [i \in 1 .. Len(path) |-> Lower[path[i]]]
  BY <1>1 DEF key
<1>3. key(path) \in [1 .. Len(path) -> Lows]
  BY <1>1, <1>2, LowerIs
<1> QED
  BY <1>1, <1>2, <1>3, SeqFrom

\* A key is its own.
LEMMA KeyOfKey == ASSUME NEW k \in Seq(Lows) PROVE k \in Seq(DOMAIN Lower) /\ key(k) = k
<1>1. k \in Seq(DOMAIN Lower)
  BY SeqMonotonic DEF Lows
<1>2. Len(k) \in Nat /\ \A i \in 1 .. Len(k) : k[i] \in Lows
  BY LenProperties, ElementOfSeq
<1>3. \A i \in 1 .. Len(k) : key(k)[i] = k[i]
  BY <1>1, <1>2, KeyIs DEF Lows
<1> QED
  BY <1>1, <1>3, KeyIs, SamePath

LEMMA KeyOfInitial ==
  ASSUME NEW path \in Seq(DOMAIN Lower), NEW n \in 0 .. Len(path)
  PROVE  key(Initial(path, n)) = Initial(key(path), n)
<1>1. Len(path) \in Nat
  BY LenProperties
<1>2. /\ Initial(path, n) \in Seq(DOMAIN Lower) /\ Len(Initial(path, n)) = n
      /\ \A i \in 1 .. n : Initial(path, n)[i] = path[i]
  BY InitialIs
<1>3. /\ key(path) \in Seq(Lows) /\ Len(key(path)) = Len(path)
      /\ \A i \in 1 .. Len(path) : key(path)[i] = Lower[path[i]]
  BY KeyIs
<1>4. /\ Initial(key(path), n) \in Seq(Lows) /\ Len(Initial(key(path), n)) = n
      /\ \A i \in 1 .. n : Initial(key(path), n)[i] = key(path)[i]
  BY <1>3, InitialIs
<1>5. /\ key(Initial(path, n)) \in Seq(Lows) /\ Len(key(Initial(path, n))) = n
      /\ \A i \in 1 .. n : key(Initial(path, n))[i] = Lower[Initial(path, n)[i]]
  BY <1>2, KeyIs
<1>6. \A i \in 1 .. n : key(Initial(path, n))[i] = Initial(key(path), n)[i]
  BY <1>1, <1>2, <1>3, <1>4, <1>5
<1> QED
  BY <1>4, <1>5, <1>6, SamePath

\* What is above a key.
Above(k) == Initial(k, Len(k) - 1)

LEMMA AboveIs ==
  ASSUME NEW S, NEW k \in Seq(S), k # <<>>
  PROVE  /\ Len(k) \in Nat /\ Len(k) > 0
         /\ Above(k) \in Seq(S) /\ Len(Above(k)) = Len(k) - 1
         /\ \A i \in 1 .. Len(k) - 1 : Above(k)[i] = k[i]
         /\ Front(k) = Above(k)
<1>1. Len(k) \in Nat /\ Len(k) > 0
  BY EmptySeq
<1>2. Len(k) - 1 \in 0 .. Len(k)
  BY <1>1
<1> QED
  BY <1>1, <1>2, InitialIs DEF Above, Front, Initial

LEMMA AboveInitial ==
  ASSUME NEW S, NEW s \in Seq(S), NEW n \in 1 .. Len(s)
  PROVE  /\ Initial(s, n) # <<>> /\ Above(Initial(s, n)) = Initial(s, n - 1)
<1>1. Len(s) \in Nat /\ n \in 0 .. Len(s) /\ n - 1 \in 0 .. Len(s)
  BY LenProperties
<1>2. /\ Initial(s, n) \in Seq(S) /\ Len(Initial(s, n)) = n
      /\ \A i \in 1 .. n : Initial(s, n)[i] = s[i]
  BY <1>1, InitialIs
<1>3. /\ Initial(s, n - 1) \in Seq(S) /\ Len(Initial(s, n - 1)) = n - 1
      /\ \A i \in 1 .. n - 1 : Initial(s, n - 1)[i] = s[i]
  BY <1>1, InitialIs
<1>4. Initial(s, n) # <<>>
  BY <1>2, EmptySeq
<1>5. /\ Above(Initial(s, n)) \in Seq(S) /\ Len(Above(Initial(s, n))) = n - 1
      /\ \A i \in 1 .. n - 1 : Above(Initial(s, n))[i] = Initial(s, n)[i]
  BY <1>2, <1>4, AboveIs
<1>6. \A i \in 1 .. n - 1 : Above(Initial(s, n))[i] = Initial(s, n - 1)[i]
  BY <1>1, <1>2, <1>3, <1>5
<1> QED
  BY <1>3, <1>4, <1>5, <1>6, SamePath

\* parse_archive_path: a path that is not refused has none but safe names.
LEMMA ComponentsAre ==
  ASSUME NEW e \in RawEntries, NEW path, path = Components(e), path # <<>>,
         ~Refuses(path, e.dir)
  PROVE  path \in Seq(Safe)
<1> DEFINE Raw == DOMAIN Lower \union {"", ".", ".."}
<1>1. e.path \in Seq(STRING) /\ ToSet(e.path) \subseteq Raw
  BY IndexAssumption
<1>2. e.path \in Seq(Raw)
  <2>1. /\ Len(e.path) \in Nat /\ DOMAIN e.path = 1 .. Len(e.path)
        /\ e.path \in [1 .. Len(e.path) -> STRING]
    BY <1>1, LenProperties
  <2>2. \A i \in 1 .. Len(e.path) : e.path[i] \in Raw
    BY <1>1, <2>1, Zenon DEF ToSet
  <2> HIDE DEF Raw
  <2>3. e.path \in [1 .. Len(e.path) -> Raw]
    BY <2>1, <2>2
  <2> QED
    BY <2>1, <2>3, SeqFrom
<1> HIDE DEF Raw
<1>3. Len(e.path) > 1 => Front(e.path) \in Seq(Raw)
  <2>1. Len(e.path) > 1 => e.path # <<>>
    BY <1>2, EmptySeq
  <2> QED
    BY <2>1, <1>2, AboveIs
<1>4. path \in Seq(Raw)
  BY <1>2, <1>3, EmptySeq DEF Components
<1>5. Len(path) \in Nat /\ DOMAIN path = 1 .. Len(path) /\ \A i \in 1 .. Len(path) : path[i] \in Raw
  BY <1>4, LenProperties, ElementOfSeq
<1>6. \A i \in 1 .. Len(path) : ~unsafe(path[i])
  BY <1>5 DEF Refuses
<1>7. \A name \in Raw : ~unsafe(name) => name \in Safe
  BY DEF Raw, Safe, unsafe
<1>8. path \in [1 .. Len(path) -> Safe]
  <2>1. \A i \in 1 .. Len(path) : path[i] \in Safe
    BY <1>5, <1>6, <1>7
  <2> QED
    BY <2>1, <1>4, LenProperties
<1> QED
  BY <1>5, <1>8, SeqFrom

-----------------------------------------------------------------------------
(* ArchiveIndex: what an insertion does to the tree.                       *)

IsEntry(e) == DOMAIN e = {"name", "dir", "size", "content"} /\ e.dir \in BOOLEAN

LEMMA DirIs ==
  \A name : IsEntry(Dir(name)) /\ Dir(name).dir /\ Dir(name).name = name
BY DEF IsEntry, Dir

\* How much of a path are directories.
DirsEnd(path, isDir) == IF isDir THEN Len(path) ELSE Len(path) - 1

LEMMA DirsAre ==
  ASSUME NEW path \in Seq(Safe), NEW isDir \in BOOLEAN
  PROVE  /\ key(path) \in Seq(Lows) /\ Len(key(path)) = Len(path) /\ Len(path) \in Nat
         /\ \A k : k \in {key(d) : d \in DirsOf(path, isDir)} <=>
              \E n \in 1 .. DirsEnd(path, isDir) : k = Initial(key(path), n)
         /\ \A d \in DirsOf(path, isDir) : \E n \in 1 .. DirsEnd(path, isDir) :
              d = Initial(path, n) /\ key(d) = Initial(key(path), n)
         /\ \A n \in 1 .. DirsEnd(path, isDir) : Initial(path, n) \in DirsOf(path, isDir)
<1>1. path \in Seq(DOMAIN Lower)
  BY SeqMonotonic DEF Safe
<1>2. Len(path) \in Nat
  BY LenProperties
<1>3. DirsOf(path, isDir) = {Initial(path, n) : n \in 1 .. DirsEnd(path, isDir)}
  BY DEF DirsOf, DirsEnd, Initial
<1>4. \A n \in 1 .. DirsEnd(path, isDir) : n \in 0 .. Len(path)
  BY <1>2 DEF DirsEnd
<1>5. \A n \in 1 .. DirsEnd(path, isDir) :
        key(Initial(path, n)) = Initial(key(path), n)
  BY <1>1, <1>4, KeyOfInitial
<1> QED
  BY <1>1, <1>2, <1>3, <1>5, KeyIs, Zenon

\* Each key's place is in the one above it, which is a directory's; the last name
\* of a key is that of the entry.
TreeInv ==
  /\ DOMAIN entries \subseteq Seq(Lows)
  /\ \A k \in DOMAIN entries : IsEntry(entries[k])
  /\ <<>> \in DOMAIN entries /\ entries[<<>>].dir
  /\ \A k \in DOMAIN entries \ {<<>>} :
       /\ Above(k) \in DOMAIN entries /\ entries[Above(k)].dir
       /\ entries[k].name \in DOMAIN Lower /\ Lower[entries[k].name] = k[Len(k)]

\* The entry that a file is given.
FileEntry(e, path) == [name |-> Last(path), dir |-> FALSE, size |-> e.size, content |-> e.at]

LEMMA PlacedIs ==
  ASSUME TreeInv, NEW e \in RawEntries, NEW path \in Seq(Safe), path # <<>>,
         ~Refuses(path, e.dir), entries' = Placed(e, path)
  PROVE  /\ DOMAIN entries' = DOMAIN entries \union
                                {Initial(key(path), n) : n \in 1 .. Len(path)}
         /\ \A k \in DOMAIN entries : entries'[k] = entries[k]
         /\ \A n \in 1 .. DirsEnd(path, e.dir) :
              LET k == Initial(key(path), n)
              IN IF k \in DOMAIN entries THEN entries[k].dir ELSE entries'[k] = Dir(path[n])
         /\ ~e.dir => key(path) \notin DOMAIN entries /\ entries'[key(path)] = FileEntry(e, path)
<1> DEFINE p == key(path)
           m == DirsEnd(path, e.dir)
           dirs == DirsOf(path, e.dir)
           below == {key(d) : d \in dirs}
           all == DOMAIN entries \union below \union {p}
           of(k) == IF k \in DOMAIN entries THEN entries[k]
                    ELSE IF k \in below THEN Dir(Last(CHOOSE d \in dirs : key(d) = k))
                    ELSE FileEntry(e, path)
<1>0. e.dir \in BOOLEAN
  BY IndexAssumption
<1>1. entries' = [k \in all |-> of(k)]
  BY Zenon DEF Placed, FileEntry
<1>2. /\ p \in Seq(Lows) /\ Len(p) = Len(path) /\ Len(path) \in Nat
      /\ \A k : k \in below <=> \E n \in 1 .. m : k = Initial(p, n)
      /\ \A d \in dirs : \E n \in 1 .. m : d = Initial(path, n) /\ key(d) = Initial(p, n)
      /\ \A n \in 1 .. m : Initial(path, n) \in dirs
  BY <1>0, DirsAre, Zenon
<1>3. Len(path) > 0
  BY <1>2, EmptySeq
<1>4. m \in Nat /\ m <= Len(path) /\ (e.dir => m = Len(path)) /\ (~e.dir => m = Len(path) - 1)
      /\ \A n \in 1 .. m : n \in 0 .. Len(path)
  BY <1>0, <1>2, <1>3 DEF DirsEnd
<1>5. /\ \A n \in 0 .. Len(path) : Len(Initial(p, n)) = n /\ Len(Initial(path, n)) = n
      /\ \A n \in 0 .. Len(path) : \A i \in 1 .. n : Initial(path, n)[i] = path[i]
      /\ Initial(p, Len(path)) = p
  BY <1>2, InitialIs
<1>6. /\ DOMAIN entries' = all /\ \A k \in all : entries'[k] = of(k)
  <2> HIDE DEF of, all
  <2> QED
    BY <1>1
<1>7. \A k \in DOMAIN entries : entries'[k] = entries[k]
  <2> HIDE DEF below, p
  <2> QED
    BY <1>6
<1>8. all = DOMAIN entries \union {Initial(p, n) : n \in 1 .. Len(path)}
  <2>1. \A n \in 1 .. Len(path) : n \in 1 .. m \/ n = Len(path)
    BY <1>4
  <2>2. \A n \in 1 .. m : n \in 1 .. Len(path)
    BY <1>4
  <2>3. Len(path) \in 1 .. Len(path)
    BY <1>2, <1>3
  <2>4. \A k : k \in below \union {p} <=> \E n \in 1 .. Len(path) : k = Initial(p, n)
    <3> TAKE k
    <3>1. ASSUME k \in below PROVE \E n \in 1 .. Len(path) : k = Initial(p, n)
      BY <3>1, <2>2, <1>2, Zenon
    <3>2. p = Initial(p, Len(path))
      BY <1>5
    <3>3. ASSUME NEW n \in 1 .. Len(path), k = Initial(p, n)
          PROVE  k \in below \union {p}
      <4> HIDE DEF below, p
      <4> QED
        BY <3>2, <3>3, <2>1, <1>2
    <3> HIDE DEF below, p
    <3> QED
      BY <3>1, <3>2, <3>3, <2>3
  <2> HIDE DEF below, p, m
  <2> QED
    BY <2>4
<1>9. ASSUME NEW n \in 1 .. m
      PROVE  IF Initial(p, n) \in DOMAIN entries THEN entries[Initial(p, n)].dir
             ELSE entries'[Initial(p, n)] = Dir(path[n])
  <2>1. Initial(path, n) \in dirs /\ Initial(p, n) \in below
    BY <1>2
  <2>2. \A d \in dirs : key(d) = Initial(p, n) => d = Initial(path, n)
    <3> SUFFICES ASSUME NEW d \in dirs, key(d) = Initial(p, n) PROVE d = Initial(path, n)
      OBVIOUS
    <3>1. PICK j \in 1 .. m : d = Initial(path, j) /\ key(d) = Initial(p, j)
      BY <1>2
    <3>2. j = n
      BY <3>1, <1>4, <1>5
    <3> QED
      BY <3>1, <3>2
  <2>3. key(Initial(path, n)) = Initial(p, n)
    <3>1. PICK j \in 1 .. m : Initial(path, n) = Initial(path, j)
                              /\ key(Initial(path, n)) = Initial(p, j)
      BY <1>2, <2>1
    <3>2. j = n
      BY <3>1, <1>4, <1>5
    <3> QED
      BY <3>1, <3>2
  <2>4. CASE Initial(p, n) \in DOMAIN entries
    <3>1. ~Conflicts(Initial(path, n))
      BY <2>1 DEF Refuses
    <3> QED
      BY <2>3, <2>4, <3>1 DEF Conflicts
  <2>5. CASE Initial(p, n) \notin DOMAIN entries
    <3>1. (CHOOSE d \in dirs : key(d) = Initial(p, n)) = Initial(path, n)
      <4> HIDE DEF dirs, p
      <4> QED
        BY <2>1, <2>2, <2>3
    <3>2. Last(Initial(path, n)) = path[n]
      BY <1>4, <1>5 DEF Last
    <3>3. of(Initial(p, n)) = Dir(path[n])
      <4> HIDE DEF dirs, p, below
      <4> QED
        BY <2>1, <2>5, <3>1, <3>2
    <3> HIDE DEF of, below
    <3> QED
      BY <2>1, <2>5, <3>3, <1>6
  <2> QED
    BY <2>4, <2>5
<1>10. ASSUME ~e.dir
       PROVE  p \notin DOMAIN entries /\ entries'[p] = FileEntry(e, path)
  <2>1. p \notin DOMAIN entries
    BY <1>10 DEF Refuses
  <2>2. p \notin below
    <3>1. \A n \in 1 .. m : n < Len(path)
      BY <1>2, <1>4, <1>10
    <3>2. \A n \in 1 .. m : Initial(p, n) # p
      BY <3>1, <1>2, <1>4, <1>5
    <3> QED
      BY <3>2, <1>2
  <2> HIDE DEF below, p
  <2> QED
    BY <2>1, <2>2, <1>6
<1> HIDE DEF of, below
<1> QED
  BY <1>6, <1>7, <1>8, <1>9, <1>10

LEMMA PlacedKeepsTree ==
  ASSUME TreeInv, NEW e \in RawEntries, NEW path \in Seq(Safe), path # <<>>,
         ~Refuses(path, e.dir), entries' = Placed(e, path)
  PROVE  TreeInv'
<1> DEFINE p == key(path)
           m == DirsEnd(path, e.dir)
<1>0. e.dir \in BOOLEAN
  BY IndexAssumption
<1>1. path \in Seq(DOMAIN Lower)
  BY SeqMonotonic DEF Safe
<1>2. /\ p \in Seq(Lows) /\ Len(p) = Len(path) /\ Len(path) \in Nat /\ Len(path) > 0
      /\ \A i \in 1 .. Len(path) : path[i] \in DOMAIN Lower /\ p[i] = Lower[path[i]]
  BY <1>1, KeyIs, EmptySeq, ElementOfSeq
<1>3. /\ DOMAIN entries' = DOMAIN entries \union {Initial(p, n) : n \in 1 .. Len(path)}
      /\ \A k \in DOMAIN entries : entries'[k] = entries[k]
      /\ \A n \in 1 .. m :
           IF Initial(p, n) \in DOMAIN entries THEN entries[Initial(p, n)].dir
           ELSE entries'[Initial(p, n)] = Dir(path[n])
      /\ ~e.dir => p \notin DOMAIN entries /\ entries'[p] = FileEntry(e, path)
  BY PlacedIs
<1> HIDE DEF p
<1>4. /\ (e.dir => m = Len(path)) /\ (~e.dir => m = Len(path) - 1)
      /\ \A n \in 1 .. Len(path) : n \in 1 .. m \/ (n = Len(path) /\ ~e.dir)
      /\ \A n \in 1 .. Len(path) : n # 1 => n - 1 \in 1 .. m /\ n - 1 \in 1 .. Len(path)
  BY <1>0, <1>2 DEF DirsEnd
<1> HIDE DEF m
<1>5. /\ \A n \in 1 .. Len(path) : Initial(p, n) \in Seq(Lows) /\ Len(Initial(p, n)) = n
      /\ \A n \in 1 .. Len(path) : Initial(p, n)[n] = p[n]
      /\ Initial(p, 0) = <<>> /\ Initial(p, Len(path)) = p
  BY <1>2, InitialIs
<1>6. \A n \in 1 .. m : Initial(p, n) \in DOMAIN entries' => entries'[Initial(p, n)].dir
  BY <1>3, DirIs
<1>7. ASSUME NEW n \in 1 .. Len(path), Initial(p, n) \notin DOMAIN entries
      PROVE  LET k == Initial(p, n)
             IN /\ IsEntry(entries'[k])
                /\ Above(k) \in DOMAIN entries' /\ entries'[Above(k)].dir
                /\ entries'[k].name = path[n]
  <2>1. Above(Initial(p, n)) = Initial(p, n - 1)
    BY <1>2, AboveInitial
  <2>2. Initial(p, n - 1) \in DOMAIN entries' /\ entries'[Initial(p, n - 1)].dir
    <3>1. CASE n = 1
      BY <3>1, <1>3, <1>5 DEF TreeInv
    <3>2. CASE n # 1
      BY <3>2, <1>3, <1>4, <1>6
    <3> QED
      BY <3>1, <3>2
  <2>3. IsEntry(entries'[Initial(p, n)]) /\ entries'[Initial(p, n)].name = path[n]
    <3>1. CASE n \in 1 .. m
      BY <3>1, <1>3, <1>7, DirIs
    <3>2. CASE n = Len(path) /\ ~e.dir
      <4>1. IsEntry(FileEntry(e, path)) /\ FileEntry(e, path).name = path[Len(path)]
        BY DEF FileEntry, IsEntry, Last
      <4>2. entries'[Initial(p, n)] = FileEntry(e, path)
        BY <3>2, <1>3, <1>5
      <4> QED
        BY <3>2, <4>1, <4>2
    <3> QED
      BY <3>1, <3>2, <1>4
  <2> QED
    BY <2>1, <2>2, <2>3
<1>8. ASSUME NEW k \in DOMAIN entries'
      PROVE  /\ k \in Seq(Lows) /\ IsEntry(entries'[k])
             /\ k # <<>> => /\ Above(k) \in DOMAIN entries' /\ entries'[Above(k)].dir
                            /\ entries'[k].name \in DOMAIN Lower
                            /\ Lower[entries'[k].name] = k[Len(k)]
  <2>1. CASE k \in DOMAIN entries
    BY <2>1, <1>3 DEF TreeInv
  <2>2. CASE k \notin DOMAIN entries
    <3>1. PICK n \in 1 .. Len(path) : k = Initial(p, n)
      BY <2>2, <1>3
    <3>2. /\ IsEntry(entries'[k]) /\ entries'[k].name = path[n]
          /\ Above(k) \in DOMAIN entries' /\ entries'[Above(k)].dir
      BY <2>2, <3>1, <1>7
    <3>3. k \in Seq(Lows) /\ k[Len(k)] = Lower[path[n]] /\ path[n] \in DOMAIN Lower
      BY <3>1, <1>2, <1>5
    <3> QED
      BY <3>2, <3>3
  <2> QED
    BY <2>1, <2>2
<1>9. <<>> \in DOMAIN entries' /\ entries'[<<>>].dir
  BY <1>3 DEF TreeInv
<1> QED
  BY <1>8, <1>9 DEF TreeInv

-----------------------------------------------------------------------------
(* ArchiveIndex: what is counted.                                          *)

Indexables == [path : Seq(Safe), size : Nat, at : Nat]

LEMMA EndIsNat == \A t \in Indexables : t.at + t.size \in Nat
BY DEF Indexables

LEMMA EndOfEntry ==
  ASSUME NEW e \in RawEntries
  PROVE  e.at \in Nat /\ e.size \in Nat /\ e.at + SizeOf(e) \in Nat
<1>1. e.at \in Nat /\ e.size \in Nat
  BY IndexAssumption, Zenon
<1>2. SizeOf(e) \in Nat
  BY <1>1 DEF SizeOf
<1> QED
  BY <1>1, <1>2

\* One step of the recursion in SizeOfAll.
SummedBy(s, f) ==
  [n \in 0 .. Len(s) |-> IF n = 0 THEN 0 ELSE f[n - 1] + s[n].size]

LEMMA SumExists ==
  ASSUME NEW s, Len(s) \in Nat
  PROVE  \E f : f = SummedBy(s, f)
<1> DEFINE n == Len(s)
           AsFarAs(f, k) == \A o \in 0 .. n : o < k => f[o] = SummedBy(s, f)[o]
           W == {k \in Nat : ~ \E f : f = [o \in 0 .. n |-> f[o]] /\ AsFarAs(f, k)}
<1>1. CASE n + 1 \notin W
  <2>1. PICK f : f = [o \in 0 .. n |-> f[o]] /\ AsFarAs(f, n + 1)
    BY <1>1
  <2>2. \A o \in 0 .. n : f[o] = SummedBy(s, f)[o]
    BY <2>1
  <2>3. f = SummedBy(s, f)
    BY <2>1, <2>2, Zenon DEF SummedBy
  <2> QED
    BY <2>3
<1>2. CASE W # {}
  <2>1. PICK k \in W : \A v \in W : k <= v
    BY <1>2, LeastOf
  <2>2. k # 0
    <3> DEFINE f == [o \in 0 .. n |-> 0]
    <3>1. f = [o \in 0 .. n |-> f[o]] /\ AsFarAs(f, 0)
      OBVIOUS
    <3> QED
      BY <3>1
  <2>3. k \in Nat /\ k - 1 \in Nat /\ k - 1 \notin W
    BY <2>1, <2>2
  <2>4. PICK f : f = [o \in 0 .. n |-> f[o]] /\ AsFarAs(f, k - 1)
    BY <2>3
  <2> DEFINE g == [o \in 0 .. n |-> IF o < k THEN SummedBy(s, f)[o] ELSE 0]
  <2>5. g = [o \in 0 .. n |-> g[o]]
    OBVIOUS
  <2>6. ASSUME NEW o \in 0 .. n, o < k
        PROVE  g[o] = SummedBy(s, g)[o]
    <3>1. g[o] = SummedBy(s, f)[o]
      BY <2>6
    <3>2. CASE o = 0
      BY <3>1, <3>2 DEF SummedBy
    <3>3. CASE o # 0
      <4>1. o - 1 \in 0 .. n /\ o - 1 < k - 1 /\ o - 1 < k
        BY <3>3, <2>6, <2>3
      <4>2. g[o - 1] = f[o - 1]
        BY <4>1, <2>4
      <4> HIDE DEF g
      <4> QED
        BY <3>1, <3>3, <4>2, Zenon DEF SummedBy
    <3> QED
      BY <3>2, <3>3
  <2>7. k \notin W
    BY <2>3, <2>5, <2>6
  <2> QED
    BY <2>1, <2>7
<1> QED
  BY <1>1, <1>2

LEMMA SumIs ==
  ASSUME NEW s, Len(s) \in Nat
  PROVE  \E f : f = SummedBy(s, f) /\ SizeOfAll(s) = f[Len(s)]
<1> DEFINE f == CHOOSE g : g = SummedBy(s, g)
<1>1. f = SummedBy(s, f)
  BY SumExists
<1>2. SizeOfAll(s) = f[Len(s)]
  BY Zenon DEF SizeOfAll, SummedBy
<1> QED
  BY <1>1, <1>2

LEMMA SumOfNone == SizeOfAll(<<>>) = 0
<1>1. Len(<<>>) = 0
  OBVIOUS
<1>2. PICK f : f = SummedBy(<<>>, f) /\ SizeOfAll(<<>>) = f[0]
  BY <1>1, SumIs
<1>3. f[0] = 0
  BY <1>1, <1>2 DEF SummedBy
<1> QED
  BY <1>2, <1>3

LEMMA SumOfMore ==
  ASSUME NEW s, NEW t, Len(s) \in Nat, Len(t) = Len(s) + 1,
         \A i \in 1 .. Len(s) : t[i] = s[i]
  PROVE  SizeOfAll(t) = SizeOfAll(s) + t[Len(t)].size
<1> DEFINE n == Len(s)
<1>1. PICK f : f = SummedBy(s, f) /\ SizeOfAll(s) = f[n]
  BY SumIs
<1>2. PICK g : g = SummedBy(t, g) /\ SizeOfAll(t) = g[n + 1]
  BY SumIs
<1>3. /\ f[0] = 0 /\ g[0] = 0
      /\ \A o \in 1 .. n : f[o] = f[o - 1] + s[o].size
      /\ \A o \in 1 .. n + 1 : g[o] = g[o - 1] + t[o].size
  <2>1. \A o \in 0 .. n : f[o] = IF o = 0 THEN 0 ELSE f[o - 1] + s[o].size
    BY <1>1, Zenon DEF SummedBy
  <2>2. \A o \in 0 .. Len(t) : g[o] = IF o = 0 THEN 0 ELSE g[o - 1] + t[o].size
    BY <1>2, Zenon DEF SummedBy
  <2> HIDE <1>1, <1>2
  <2> QED
    BY <2>1, <2>2
<1> DEFINE W == {o \in 0 .. n : f[o] # g[o]}
<1>4. W = {}
  <2> SUFFICES ASSUME W # {} PROVE FALSE
    OBVIOUS
  <2>1. PICK o \in W : \A v \in W : o <= v
    <3>1. W \in SUBSET Nat
      OBVIOUS
    <3> HIDE DEF W
    <3> QED
      BY <3>1, LeastOf
  <2>2. o # 0
    BY <1>3
  <2>3. o \in 1 .. n /\ o - 1 \in 0 .. n /\ o - 1 \notin W /\ o \in 1 .. n + 1
    BY <2>1, <2>2
  <2>4. f[o - 1] = g[o - 1] /\ t[o] = s[o]
    BY <2>3
  <2>5. f[o] = g[o]
    BY <2>3, <2>4, <1>3
  <2> QED
    BY <2>5
<1>5. f[n] = g[n] /\ g[n + 1] = g[n] + t[n + 1].size
  BY <1>3, <1>4
<1> QED
  BY <1>1, <1>2, <1>5

-----------------------------------------------------------------------------
(* ArchiveIndex: the invariant.                                            *)

\* The files that were taken are in the tree, and counted; the farthest end is
\* none before any file's.
TakenInv ==
  /\ taken \in Seq(Indexables)
  /\ \A i \in 1 .. Len(taken) :
       LET t == taken[i]
       IN /\ t.path # <<>> /\ key(t.path) \in DOMAIN entries
          /\ entries[key(t.path)] = FileEntry(t, t.path)
          /\ format # "zip" => t.at + t.size <= maximum_entry_end
  /\ file_count = Len(taken) /\ total_size = SizeOfAll(taken)

EndInv ==
  /\ format \in {"zip", "tar", "gzip"} /\ maximum_entry_end \in Nat
  /\ format = "tar" \/ (format = "gzip" /\ opening = "open") => maximum_entry_end <= Extent

IndexInv == TreeInv /\ TakenInv /\ EndInv

LEMMA InitIndex == IndexInit => IndexInv
<1> SUFFICES ASSUME IndexInit PROVE IndexInv
  OBVIOUS
<1>1. DOMAIN entries = {<<>>} /\ entries[<<>>] = Dir("")
  BY DEF IndexInit
<1>0. <<>> \in Seq(Lows)
  BY EmptySeq
<1>2. TreeInv
  BY <1>0, <1>1, DirIs DEF TreeInv
<1>3. TakenInv
  <2>1. taken = <<>> /\ Len(taken) = 0 /\ taken \in Seq(Indexables) /\ file_count = 0 /\ total_size = 0
    BY EmptySeq DEF IndexInit
  <2> QED
    BY <2>1, SumOfNone DEF TakenInv
<1>4. EndInv
  <2>1. format \in {"zip", "tar", "gzip"} /\ maximum_entry_end = 0
    BY DEF IndexInit
  <2>2. Extent \in Nat
    BY IndexAssumption
  <2> QED
    BY <2>1, <2>2 DEF EndInv
<1> QED
  BY <1>2, <1>3, <1>4 DEF IndexInv

\* Nothing that is kept changes, but for the end and how far the opening is.
LEMMA SameIndex ==
  ASSUME IndexInv, built' = built, format' = format, EndInv',
         maximum_entry_end \in Nat, maximum_entry_end <= maximum_entry_end'
  PROVE  IndexInv'
<1>1. /\ entries' = entries /\ taken' = taken /\ file_count' = file_count
      /\ total_size' = total_size
  BY DEF built
<1>2. TreeInv'
  BY <1>1, Zenon DEF IndexInv, TreeInv
<1>3. TakenInv'
  <2>1. maximum_entry_end' \in Nat
    BY DEF EndInv
  <2>2. taken \in Seq(Indexables) /\ \A i \in 1 .. Len(taken) : taken[i] \in Indexables
    BY ElementOfSeq DEF IndexInv, TakenInv
  <2>3. \A i \in 1 .. Len(taken) : taken[i].at + taken[i].size \in Nat
    BY <2>2, EndIsNat
  <2>4. \A i \in 1 .. Len(taken) :
          format # "zip" => taken[i].at + taken[i].size <= maximum_entry_end'
    BY <2>1, <2>3 DEF IndexInv, TakenInv
  <2> QED
    BY <1>1, <2>2, <2>4, Zenon DEF IndexInv, TakenInv
<1> QED
  BY <1>2, <1>3 DEF IndexInv

LEMMA InsertKeeps ==
  ASSUME IndexInv, NEW e \in RawEntries, insert(e), opening = "indexing",
         maximum_entry_end' \in Nat, maximum_entry_end <= maximum_entry_end',
         format # "zip" => e.at + SizeOf(e) <= maximum_entry_end',
         format = "tar" => maximum_entry_end' <= Extent
  PROVE  IndexInv'
<1> DEFINE path == Components(e)
<1>1. format' = format /\ maximum_entry_end \in Nat /\ opening' \in {"indexing", "failed"}
  BY DEF insert, IndexInv, EndInv
<1>2. EndInv'
  BY <1>1 DEF IndexInv, EndInv
<1>3. CASE path = <<>> \/ Refuses(path, e.dir)
  BY <1>1, <1>2, <1>3, SameIndex DEF insert
<1>4. CASE path # <<>> /\ ~Refuses(path, e.dir)
  <2>1. /\ entries' = Placed(e, path)
        /\ total_size' = IF e.dir THEN total_size ELSE total_size + e.size
        /\ file_count' = IF e.dir THEN file_count ELSE file_count + 1
        /\ taken' = IF e.dir THEN taken
                    ELSE Append(taken, [path |-> path, size |-> e.size, at |-> e.at])
    BY <1>4 DEF insert
  <2>2. path \in Seq(Safe)
    BY <1>4, ComponentsAre
  <2> HIDE DEF path
  <2>3. TreeInv'
    BY <1>4, <2>1, <2>2, PlacedKeepsTree DEF IndexInv
  <2>4. /\ DOMAIN entries' = DOMAIN entries \union
                               {Initial(key(path), n) : n \in 1 .. Len(path)}
        /\ \A k \in DOMAIN entries : entries'[k] = entries[k]
        /\ ~e.dir => entries'[key(path)] = FileEntry(e, path)
    BY <1>4, <2>1, <2>2, PlacedIs DEF IndexInv
  <2>5. /\ taken \in Seq(Indexables) /\ Len(taken) \in Nat
        /\ \A i \in 1 .. Len(taken) : taken[i] \in Indexables /\ taken[i].at + taken[i].size \in Nat
    <3>1. taken \in Seq(Indexables)
      BY DEF IndexInv, TakenInv
    <3>2. Len(taken) \in Nat /\ \A i \in 1 .. Len(taken) : taken[i] \in Indexables
      BY <3>1, LenProperties, ElementOfSeq
    <3> QED
      BY <3>1, <3>2, EndIsNat
  <2>6. ASSUME NEW i \in 1 .. Len(taken)
        PROVE  LET t == taken[i]
               IN /\ t.path # <<>> /\ key(t.path) \in DOMAIN entries'
                  /\ entries'[key(t.path)] = FileEntry(t, t.path)
                  /\ format # "zip" => t.at + t.size <= maximum_entry_end'
    BY <1>1, <2>4, <2>5 DEF IndexInv, TakenInv
  <2>7. CASE e.dir
    <3>1. taken' = taken /\ file_count' = file_count /\ total_size' = total_size
      BY <2>1, <2>7
    <3>2. file_count = Len(taken) /\ total_size = SizeOfAll(taken)
      BY DEF IndexInv, TakenInv
    <3>3. TakenInv'
      BY <1>1, <2>5, <2>6, <3>1, <3>2, Zenon DEF TakenInv
    <3> QED
      BY <1>2, <2>3, <3>3 DEF IndexInv
  <2>8. CASE ~e.dir
    <3> DEFINE t == [path |-> path, size |-> e.size, at |-> e.at]
    <3>1. t \in Indexables /\ t.path = path /\ t.size = e.size /\ t.at = e.at
      BY <2>2, IndexAssumption DEF Indexables
    <3>2. taken' = Append(taken, t)
      BY <2>1, <2>8
    <3> HIDE DEF t
    <3>3. /\ taken' \in Seq(Indexables) /\ Len(taken') = Len(taken) + 1
          /\ \A i \in 1 .. Len(taken) : taken'[i] = taken[i]
          /\ taken'[Len(taken) + 1] = t
      BY <2>5, <3>1, <3>2, AppendProperties
    <3>4. FileEntry(t, path) = FileEntry(e, path)
      BY <3>1 DEF FileEntry
    <3>5. key(path) \in DOMAIN entries'
      <4>1. path \in Seq(DOMAIN Lower)
        BY <2>2, SeqMonotonic DEF Safe
      <4>2. key(path) \in Seq(Lows) /\ Len(key(path)) = Len(path) /\ Len(path) \in Nat
        BY <4>1, KeyIs, LenProperties
      <4>3. Initial(key(path), Len(path)) = key(path) /\ Len(path) > 0
        BY <4>1, <4>2, <1>4, InitialIs, EmptySeq
      <4>4. Len(path) \in 1 .. Len(path)
        BY <4>2, <4>3
      <4> QED
        BY <2>4, <4>3, <4>4
    <3>6. format # "zip" => t.at + t.size <= maximum_entry_end'
      BY <2>8, <3>1 DEF SizeOf
    <3>7. ASSUME NEW i \in 1 .. Len(taken')
          PROVE  LET u == taken'[i]
                 IN /\ u.path # <<>> /\ key(u.path) \in DOMAIN entries'
                    /\ entries'[key(u.path)] = FileEntry(u, u.path)
                    /\ format' # "zip" => u.at + u.size <= maximum_entry_end'
      <4>1. CASE i \in 1 .. Len(taken)
        BY <4>1, <1>1, <2>6, <3>3
      <4>2. CASE i = Len(taken) + 1
        BY <4>2, <1>1, <1>4, <2>4, <2>8, <3>1, <3>3, <3>4, <3>5, <3>6
      <4> QED
        BY <4>1, <4>2, <2>5, <3>3
    <3>8. SizeOfAll(taken') = SizeOfAll(taken) + t.size
      BY <2>5, <3>3, SumOfMore
    <3>9. file_count' = Len(taken') /\ total_size' = SizeOfAll(taken')
      BY <2>1, <2>8, <3>1, <3>3, <3>8 DEF IndexInv, TakenInv
    <3>10. TakenInv'
      BY <3>3, <3>7, <3>9 DEF TakenInv
    <3> QED
      BY <1>2, <2>3, <3>10 DEF IndexInv
  <2> QED
    BY <1>2, <2>3, <2>7, <2>8 DEF IndexInv
<1> QED
  BY <1>3, <1>4

LEMMA EndAfterIs ==
  ASSUME NEW e \in RawEntries, maximum_entry_end \in Nat
  PROVE  /\ EndAfter(e) \in {e.at + SizeOf(e), maximum_entry_end} /\ EndAfter(e) \in Nat
         /\ e.at + SizeOf(e) <= EndAfter(e) /\ maximum_entry_end <= EndAfter(e)
<1>1. e.at + SizeOf(e) \in Nat
  BY EndOfEntry
<1>2. \A a, b \in Nat : \E x \in {a, b} : \A y \in {a, b} : x >= y
  OBVIOUS
<1> QED
  BY <1>1, <1>2 DEF EndAfter, Max

LEMMA IndexStep == ASSUME IndexInv, [IndexNext]_indexVars PROVE IndexInv'
<1>0. maximum_entry_end \in Nat /\ format \in {"zip", "tar", "gzip"} /\ Extent \in Nat
  BY IndexAssumption DEF IndexInv, EndInv
<1>1. CASE UNCHANGED indexVars \/ CannotRead
  <2>1. /\ built' = built /\ format' = format /\ maximum_entry_end' = maximum_entry_end
        /\ opening' = opening \/ opening' = "failed"
    BY <1>1 DEF CannotRead, Fails, indexVars
  <2>2. EndInv'
    BY <2>1 DEF IndexInv, EndInv
  <2> QED
    BY <1>0, <2>1, <2>2, SameIndex
<1>2. CASE Indexed
  <2>1. /\ built' = built /\ format' = format /\ maximum_entry_end' = maximum_entry_end
        /\ opening' = "failed" \/ ~(format = "gzip" /\ maximum_entry_end > Extent)
    BY <1>2 DEF Indexed, Fails
  <2>2. EndInv'
    BY <1>0, <2>1 DEF IndexInv, EndInv
  <2> QED
    BY <1>0, <2>1, <2>2, SameIndex
<1>3. ASSUME NEW e \in RawEntries, Index(e)
      PROVE  IndexInv'
  <2>1. CASE UNCHANGED indexVars \/ Fails
    <3>1. /\ built' = built /\ format' = format /\ maximum_entry_end' = maximum_entry_end
          /\ opening' = opening \/ opening' = "failed"
      BY <2>1 DEF Fails, indexVars
    <3>2. EndInv'
      BY <3>1 DEF IndexInv, EndInv
    <3> QED
      BY <1>0, <3>1, <3>2, SameIndex
  <2>2. CASE ~(UNCHANGED indexVars \/ Fails)
    <3>1. /\ insert(e) /\ opening = "indexing"
          /\ IF format = "zip" THEN maximum_entry_end' = maximum_entry_end
             ELSE /\ maximum_entry_end' = EndAfter(e)
                  /\ format = "tar" => ~(e.at + SizeOf(e) > Extent)
      BY <1>3, <2>2 DEF Index, IndexTar, IndexZip
    <3>2. e.at + SizeOf(e) \in Nat
      BY EndOfEntry
    <3>3. /\ maximum_entry_end' \in Nat /\ maximum_entry_end <= maximum_entry_end'
          /\ format # "zip" => e.at + SizeOf(e) <= maximum_entry_end'
          /\ format = "tar" => maximum_entry_end' <= Extent
      BY <1>0, <3>1, <3>2, EndAfterIs DEF IndexInv, EndInv
    <3> QED
      BY <3>1, <3>3, InsertKeeps
  <2> QED
    BY <2>1, <2>2
<1> QED
  BY <1>1, <1>2, <1>3 DEF IndexNext

LEMMA IndexInvariant == IndexSpec => []IndexInv
BY InitIndex, IndexStep, PTL DEF IndexSpec

-----------------------------------------------------------------------------
(* ArchiveIndex: what a directory lists.                                   *)

LEMMA InitialsEqual ==
  ASSUME NEW S, NEW s \in Seq(S), NEW t \in Seq(S),
         NEW n \in 0 .. Len(s), n <= Len(t)
  PROVE  Initial(s, n) = Initial(t, n) <=> \A i \in 1 .. n : s[i] = t[i]
<1>1. Len(s) \in Nat /\ Len(t) \in Nat /\ n \in 0 .. Len(t)
  BY LenProperties
<1>2. /\ Initial(s, n) \in Seq(S) /\ Len(Initial(s, n)) = n
      /\ \A i \in 1 .. n : Initial(s, n)[i] = s[i]
  BY <1>1, InitialIs
<1>3. /\ Initial(t, n) \in Seq(S) /\ Len(Initial(t, n)) = n
      /\ \A i \in 1 .. n : Initial(t, n)[i] = t[i]
  BY <1>1, InitialIs
<1>4. ASSUME \A i \in 1 .. n : s[i] = t[i] PROVE Initial(s, n) = Initial(t, n)
  <2>1. \A i \in 1 .. n : Initial(s, n)[i] = Initial(t, n)[i]
    BY <1>2, <1>3, <1>4
  <2> QED
    BY <1>2, <1>3, <2>1, SamePath
<1>5. ASSUME Initial(s, n) = Initial(t, n) PROVE \A i \in 1 .. n : s[i] = t[i]
  BY <1>2, <1>3, <1>5
<1> QED
  BY <1>4, <1>5

LEMMA PrefixIs ==
  ASSUME NEW S, NEW s \in Seq(S), NEW t \in Seq(S)
  PROVE  IsPrefix(s, t) <=> Len(s) <= Len(t) /\ \A i \in 1 .. Len(s) : s[i] = t[i]
<1>1. Len(s) \in Nat /\ Len(s) \in 0 .. Len(s)
  BY LenProperties
<1>2. IsPrefix(s, t) <=> Len(s) <= Len(t) /\ Initial(s, Len(s)) = Initial(t, Len(s))
  BY DEF IsPrefix, Initial
<1> QED
  BY <1>1, <1>2, InitialsEqual

\* Where two keys part.
PartsAt(k, l, i) == /\ \A j \in 1 .. i - 1 : k[j] = l[j]
                    /\ Rank(k[i]) < Rank(l[i])

LEMMA BeforeIs ==
  ASSUME NEW k \in Seq(Lows), NEW l \in Seq(Lows)
  PROVE  Before(k, l) <=>
           \/ Len(k) < Len(l) /\ IsPrefix(k, l)
           \/ \E i \in 1 .. Len(k) : i <= Len(l) /\ PartsAt(k, l, i)
<1>1. /\ Len(k) \in Nat /\ DOMAIN k = 1 .. Len(k)
      /\ Len(l) \in Nat /\ DOMAIN l = 1 .. Len(l)
  BY LenProperties
<1>2. ASSUME NEW i \in 1 .. Len(k), i <= Len(l)
      PROVE  SubSeq(k, 1, i - 1) = SubSeq(l, 1, i - 1) <=> \A j \in 1 .. i - 1 : k[j] = l[j]
  <2>1. i - 1 \in 0 .. Len(k) /\ i - 1 <= Len(l)
    BY <1>1, <1>2
  <2> QED
    BY <2>1, InitialsEqual DEF Initial
<1>3. \A i : i \in DOMAIN k \intersect DOMAIN l <=> i \in 1 .. Len(k) /\ i <= Len(l)
  BY <1>1
<1> QED
  BY <1>2, <1>3, Zenon DEF Before, PartsAt

LEMMA RankIs == \A name \in Lows : Rank(name) \in Nat
<1>1. Order \in Seq(STRING)
  BY IndexAssumption
<1>2. DOMAIN Order = 1 .. Len(Order) /\ Len(Order) \in Nat
  BY <1>1, LenProperties
<1>3. \A name \in Lows : \E i \in DOMAIN Order : Order[i] = name
  BY Zenon DEF Lows, ToSet
<1>4. \A name \in Lows : Rank(name) \in DOMAIN Order
  BY <1>3, Zenon DEF Rank
<1> QED
  BY <1>2, <1>4

\* l is in the directory k.
Child(k, l) == l # <<>> /\ Above(l) = k

LEMMA ChildIs ==
  ASSUME NEW k \in Seq(Lows), NEW l \in Seq(Lows)
  PROVE  /\ Child(k, l) <=> Len(l) = Len(k) + 1 /\ IsPrefix(k, l)
         /\ Child(k, l) => Before(k, l)
<1>1. Len(k) \in Nat /\ Len(l) \in Nat
  BY LenProperties
<1>2. ASSUME Child(k, l) PROVE Len(l) = Len(k) + 1 /\ IsPrefix(k, l)
  <2>1. /\ Len(l) > 0 /\ Len(k) = Len(l) - 1 /\ \A i \in 1 .. Len(l) - 1 : k[i] = l[i]
    BY <1>2, AboveIs DEF Child
  <2>2. Len(k) <= Len(l) /\ \A i \in 1 .. Len(k) : k[i] = l[i]
    BY <1>1, <2>1
  <2> QED
    BY <1>1, <2>1, <2>2, PrefixIs
<1>3. ASSUME Len(l) = Len(k) + 1, IsPrefix(k, l) PROVE Child(k, l)
  <2>1. l # <<>>
    BY <1>1, <1>3, EmptySeq
  <2>2. /\ Above(l) \in Seq(Lows) /\ Len(Above(l)) = Len(l) - 1
        /\ \A i \in 1 .. Len(l) - 1 : Above(l)[i] = l[i]
    BY <2>1, AboveIs
  <2>3. \A i \in 1 .. Len(k) : k[i] = l[i]
    BY <1>3, PrefixIs
  <2>4. Len(Above(l)) = Len(k) /\ \A i \in 1 .. Len(k) : Above(l)[i] = k[i]
    BY <1>1, <1>3, <2>2, <2>3
  <2> QED
    BY <2>1, <2>2, <2>4, SamePath DEF Child
<1>4. Len(l) = Len(k) + 1 => Len(k) < Len(l)
  BY <1>1
<1> QED
  BY <1>2, <1>3, <1>4, BeforeIs

\* All between a directory and what is in it is below it.
LEMMA BetweenIsBelow ==
  ASSUME NEW k \in Seq(Lows), NEW l \in Seq(Lows), NEW m \in Seq(Lows),
         Child(k, l), Before(k, m), m = l \/ Before(m, l)
  PROVE  IsPrefix(k, m)
<1>1. Len(k) \in Nat /\ Len(l) \in Nat /\ Len(m) \in Nat
  BY LenProperties
<1>2. IsPrefix(k, l) /\ Len(l) = Len(k) + 1 /\ \A i \in 1 .. Len(k) : k[i] = l[i]
  BY ChildIs, PrefixIs
<1>3. CASE m = l
  BY <1>2, <1>3
<1>4. CASE Before(m, l) /\ ~IsPrefix(k, m)
  <2>1. PICK i \in 1 .. Len(k) : i <= Len(m) /\ PartsAt(k, m, i)
    BY <1>4, BeforeIs
  <2>2. k[i] \in Lows /\ m[i] \in Lows /\ i \in 1 .. Len(m) /\ i \in 1 .. Len(l)
    BY <1>1, <1>2, <2>1, ElementOfSeq
  <2>3. Rank(k[i]) \in Nat /\ Rank(m[i]) \in Nat /\ Rank(k[i]) < Rank(m[i])
    BY <2>1, <2>2, RankIs DEF PartsAt
  <2>4. m[i] # l[i] /\ ~(Rank(m[i]) < Rank(l[i]))
    BY <1>2, <2>3
  <2>5. ~IsPrefix(m, l)
    BY <2>2, <2>4, PrefixIs
  <2>6. PICK j \in 1 .. Len(m) : j <= Len(l) /\ PartsAt(m, l, j)
    BY <1>4, <2>5, BeforeIs
  <2>7. CASE j < i
    <3>1. j \in 1 .. i - 1 /\ j \in 1 .. Len(k)
      BY <2>7, <1>1
    <3>2. m[j] = l[j]
      BY <3>1, <2>1, <1>2 DEF PartsAt
    <3>3. m[j] \in Lows
      BY ElementOfSeq
    <3>4. Rank(m[j]) \in Nat /\ Rank(m[j]) < Rank(m[j])
      BY <3>2, <3>3, <2>6, RankIs DEF PartsAt
    <3> QED
      BY <3>4
  <2>8. CASE j = i
    BY <2>8, <2>4, <2>6 DEF PartsAt
  <2>9. CASE j > i
    <3>1. i \in 1 .. j - 1
      BY <2>9, <1>1
    <3> QED
      BY <3>1, <2>4, <2>6 DEF PartsAt
  <2> QED
    BY <1>1, <2>7, <2>8, <2>9
<1> QED
  BY <1>3, <1>4

LEMMA WalkIsBelow ==
  ASSUME TreeInv, NEW k \in DOMAIN entries
  PROVE  {l \in WalkBelow(k) : Len(l) = Len(k) + 1} = {l \in DOMAIN entries : Child(k, l)}
<1>1. k \in Seq(Lows) /\ \A l \in DOMAIN entries : l \in Seq(Lows)
  BY DEF TreeInv
<1>2. \A l : l \in WalkBelow(k) <=>
        /\ l \in DOMAIN entries /\ Before(k, l)
        /\ \A m \in DOMAIN entries : Before(k, m) /\ (m = l \/ Before(m, l)) => IsPrefix(k, m)
  BY Zenon DEF WalkBelow, Walk
<1>3. ASSUME NEW l \in DOMAIN entries, l \in WalkBelow(k), Len(l) = Len(k) + 1
      PROVE  Child(k, l)
  <2>1. IsPrefix(k, l)
    BY <1>2, <1>3
  <2> QED
    BY <1>1, <1>3, <2>1, ChildIs
<1>4. ASSUME NEW l \in DOMAIN entries, Child(k, l)
      PROVE  l \in WalkBelow(k) /\ Len(l) = Len(k) + 1
  <2>1. \A m \in DOMAIN entries : Before(k, m) /\ (m = l \/ Before(m, l)) => IsPrefix(k, m)
    BY <1>1, <1>4, BetweenIsBelow
  <2>2. Before(k, l) /\ Len(l) = Len(k) + 1
    BY <1>1, <1>4, ChildIs
  <2> QED
    BY <1>2, <2>1, <2>2
<1>5. \A l \in WalkBelow(k) : l \in DOMAIN entries
  BY <1>2
<1> QED
  BY <1>3, <1>4, <1>5, Zenon

LEMMA ChildrenListed == TreeInv => ListIsChildren
<1> SUFFICES ASSUME TreeInv PROVE ListIsChildren
  OBVIOUS
<1>1. /\ \A k \in DOMAIN entries : k \in Seq(Lows) /\ k \in Seq(DOMAIN Lower) /\ key(k) = k
      /\ \A k \in DOMAIN entries \ {<<>>} :
           /\ Above(k) \in DOMAIN entries /\ entries[Above(k)].dir /\ Front(k) = Above(k)
           /\ entries[k].name \in DOMAIN Lower /\ Lower[entries[k].name] = k[Len(k)]
  <2>1. \A k \in DOMAIN entries : k \in Seq(Lows)
    BY DEF TreeInv
  <2>2. \A k \in DOMAIN entries \ {<<>>} : Front(k) = Above(k)
    BY <2>1, AboveIs
  <2> QED
    BY <2>1, <2>2, KeyOfKey DEF TreeInv
<1>2. ASSUME NEW k \in DOMAIN entries, entries[k].dir
      PROVE  list(k).names = {entries[l].name : l \in {l \in DOMAIN entries :
                                l # << >> /\ Front(l) = k}}
  <2>1. {l \in DOMAIN entries : l # << >> /\ Front(l) = k} = {l \in DOMAIN entries : Child(k, l)}
    BY <1>1, Zenon DEF Child
  <2>2. list(k) = [names |-> {entries[l].name : l \in {l \in WalkBelow(k) :
                                                         Len(l) = Len(k) + 1}}]
    BY <1>1, <1>2, Zenon DEF list
  <2>3. {l \in WalkBelow(k) : Len(l) = Len(k) + 1} = {l \in DOMAIN entries : Child(k, l)}
    BY WalkIsBelow
  <2>4. list(k) = [names |-> {entries[l].name : l \in {l \in DOMAIN entries :
                                l # << >> /\ Front(l) = k}}]
    BY <2>1, <2>2, <2>3, Zenon
  <2> QED
    BY <2>4
<1>3. ASSUME NEW k \in DOMAIN entries \ {<<>>}
      PROVE  stat(Append(Front(k), entries[k].name)) = entries[k]
  <2> DEFINE name == entries[k].name
             path == Append(Above(k), name)
  <2>1. /\ k \in Seq(Lows) /\ k \in Seq(DOMAIN Lower) /\ k # <<>> /\ Front(k) = Above(k)
        /\ name \in DOMAIN Lower /\ Lower[name] = k[Len(k)]
    BY <1>1
  <2>2. /\ Len(k) \in Nat /\ Len(k) > 0 /\ Above(k) \in Seq(DOMAIN Lower)
        /\ Len(Above(k)) = Len(k) - 1 /\ \A i \in 1 .. Len(k) - 1 : Above(k)[i] = k[i]
    BY <2>1, AboveIs
  <2>3. /\ path \in Seq(DOMAIN Lower) /\ Len(path) = Len(Above(k)) + 1
        /\ \A i \in 1 .. Len(Above(k)) : path[i] = Above(k)[i]
        /\ path[Len(Above(k)) + 1] = name
    <3> HIDE DEF name
    <3> QED
      BY <2>1, <2>2, AppendProperties
  <2> HIDE DEF path, name
  <2>4. /\ key(path) \in Seq(Lows) /\ Len(key(path)) = Len(path)
        /\ \A i \in 1 .. Len(path) : key(path)[i] = Lower[path[i]]
    BY <2>3, KeyIs
  <2>5. \A i \in 1 .. Len(k) : k[i] \in Lows /\ Lower[k[i]] = k[i]
    BY <2>1, ElementOfSeq DEF Lows
  <2>6. Len(key(path)) = Len(k) /\ \A i \in 1 .. Len(k) : key(path)[i] = k[i]
    <3>1. Len(path) = Len(k)
      BY <2>2, <2>3
    <3>2. ASSUME NEW i \in 1 .. Len(k) PROVE key(path)[i] = k[i]
      <4>1. CASE i = Len(k)
        BY <4>1, <3>1, <2>1, <2>2, <2>3, <2>4
      <4>2. CASE i # Len(k)
        <5>1. i \in 1 .. Len(k) - 1 /\ i \in 1 .. Len(path) /\ i \in 1 .. Len(Above(k))
          BY <4>2, <3>1, <2>2
        <5> QED
          BY <5>1, <2>2, <2>3, <2>4, <2>5
      <4> QED
        BY <4>1, <4>2
    <3> QED
      BY <3>1, <3>2, <2>4
  <2>7. key(path) = k
    BY <2>1, <2>4, <2>6, SamePath
  <2>8. stat(path) = entries[k]
    BY <2>7, Zenon DEF stat
  <2> QED
    BY <2>1, <2>8 DEF path, name
<1> QED
  BY <1>1, <1>2, <1>3, Zenon DEF ListIsChildren

LEMMA FilesServed == IndexInv => EveryFileServed
<1> SUFFICES ASSUME IndexInv, opening = "open" PROVE EveryFileServed
  BY DEF EveryFileServed
<1>1. /\ taken \in Seq(Indexables) /\ file_count = Len(taken) /\ total_size = SizeOfAll(taken)
  BY DEF IndexInv, TakenInv
<1>2. Len(taken) \in Nat /\ DOMAIN taken = 1 .. Len(taken)
  BY <1>1, LenProperties
<1>3. ASSUME NEW i \in 1 .. Len(taken)
      PROVE  /\ open(taken[i].path) = [content |-> taken[i].at]
             /\ stat(taken[i].path).size = taken[i].size
             /\ format # "zip" => taken[i].at + taken[i].size <= Extent
  <2> DEFINE t == taken[i]
  <2>1. t \in Indexables
    BY <1>1, ElementOfSeq
  <2>2. /\ key(t.path) \in DOMAIN entries
        /\ entries[key(t.path)] = FileEntry(t, t.path)
        /\ format # "zip" => t.at + t.size <= maximum_entry_end
    BY DEF IndexInv, TakenInv
  <2> HIDE DEF t
  <2>3. /\ FileEntry(t, t.path).dir = FALSE /\ FileEntry(t, t.path).content = t.at
        /\ FileEntry(t, t.path).size = t.size
    BY DEF FileEntry
  <2>4. open(t.path) = [content |-> t.at]
    BY <2>2, <2>3 DEF open
  <2>5. stat(t.path).size = t.size
    BY <2>2, <2>3 DEF stat
  <2>6. format # "zip" => t.at + t.size <= Extent
    <3>1. t.at + t.size \in Nat
      BY <2>1, EndIsNat
    <3>2. /\ maximum_entry_end \in Nat /\ Extent \in Nat
          /\ format # "zip" => maximum_entry_end <= Extent
      BY IndexAssumption DEF IndexInv, EndInv
    <3> QED
      BY <2>2, <3>1, <3>2
  <2> QED
    BY <2>4, <2>5, <2>6 DEF t
<1> QED
  BY <1>1, <1>2, <1>3, Zenon DEF EveryFileServed

-----------------------------------------------------------------------------
(* ArchiveIndex: what a client's parser makes of a path it was listed.     *)

\* What the parser makes of a name, and one step of the recursion in parse.
NamesIn(name) == IF name \in DOMAIN Backslash THEN Backslash[name] ELSE << name >>

SplitBy(path, f) ==
  [n \in 0 .. Len(path) |-> IF n = 0 THEN << >> ELSE Cat(f[n - 1], NamesIn(path[n]))]

\* The rest of parse.
Trimmed(parts, named) == IF named = {} THEN << >> ELSE SubSeq(parts, Min(named), Max(named))

Judged(trimmed, bad) ==
  IF bad = {} THEN trimmed
  ELSE IF trimmed[Min(bad)] \in {"", ".", ".."} THEN Error("OBJECT_PATH_SYNTAX_BAD")
  ELSE Error("OBJECT_NAME_INVALID")

ParsedOf(parts) ==
  LET named == {i \in DOMAIN parts : parts[i] # ""}
      trimmed == Trimmed(parts, named)
  IN Judged(trimmed, {i \in DOMAIN trimmed : unsafe(trimmed[i])})

LEMMA ParseIs ==
  \A path : parse(path) = ParsedOf((CHOOSE f : f = SplitBy(path, f))[Len(path)])
BY Zenon DEF parse, ParsedOf, Trimmed, Judged, SplitBy, NamesIn, Cat

\* A safe name has no backslash.
LEMMA NameIsWhole == \A name \in Safe : NamesIn(name) = << name >> /\ name # "" /\ ~unsafe(name)
<1>1. DOMAIN Backslash \subseteq Forbidden
  BY IndexAssumption
<1> QED
  BY <1>1 DEF NamesIn, Safe, unsafe

LEMMA OneMore ==
  ASSUME NEW S, NEW s \in Seq(S), NEW n \in 1 .. Len(s)
  PROVE  Cat(Initial(s, n - 1), << s[n] >>) = Initial(s, n)
<1>1. /\ Len(s) \in Nat /\ n - 1 \in 0 .. Len(s) /\ n \in 0 .. Len(s) /\ s[n] \in S
  BY LenProperties, ElementOfSeq
<1>2. /\ Initial(s, n - 1) \in Seq(S) /\ Len(Initial(s, n - 1)) = n - 1
      /\ \A i \in 1 .. n - 1 : Initial(s, n - 1)[i] = s[i]
  BY <1>1, InitialIs
<1>3. /\ Initial(s, n) \in Seq(S) /\ Len(Initial(s, n)) = n
      /\ \A i \in 1 .. n : Initial(s, n)[i] = s[i]
  BY <1>1, InitialIs
<1> DEFINE x == << s[n] >>
<1>4. x \in Seq(S) /\ Len(x) = 1 /\ x[1] = s[n]
  BY <1>1
<1> HIDE DEF x
<1> DEFINE c == Cat(Initial(s, n - 1), x)
<1>5. /\ c \in Seq(S) /\ Len(c) = n - 1 + 1
      /\ \A i \in 1 .. n - 1 + 1 :
           c[i] = IF i <= n - 1 THEN Initial(s, n - 1)[i] ELSE x[i - (n - 1)]
  <2>1. Cat(Initial(s, n - 1), x) \in Seq(S)
        /\ Len(Cat(Initial(s, n - 1), x)) = Len(Initial(s, n - 1)) + Len(x)
        /\ \A i \in 1 .. Len(Initial(s, n - 1)) + Len(x) :
             Cat(Initial(s, n - 1), x)[i] =
               IF i <= Len(Initial(s, n - 1)) THEN Initial(s, n - 1)[i]
               ELSE x[i - Len(Initial(s, n - 1))]
    BY <1>2, <1>4, CatAt, Zenon
  <2>2. Len(Initial(s, n - 1)) = n - 1 /\ Len(x) = 1
    BY <1>2, <1>4
  <2> QED
    BY <2>1, <2>2, Zenon
<1> HIDE DEF c
<1>6. ASSUME NEW i \in 1 .. n PROVE c[i] = Initial(s, n)[i]
  <2>1. CASE i <= n - 1
    BY <2>1, <1>2, <1>3, <1>5
  <2>2. CASE i = n
    <3>1. n - (n - 1) = 1 /\ ~(n <= n - 1) /\ n \in 1 .. n - 1 + 1
      BY <1>1
    <3> QED
      BY <2>2, <3>1, <1>3, <1>4, <1>5
  <2> QED
    BY <2>1, <2>2, <1>1
<1>7. Len(c) = n
  BY <1>1, <1>5
<1>8. c = Initial(s, n)
  BY <1>3, <1>5, <1>6, <1>7, SamePath
<1> QED
  BY <1>8 DEF c, x

\* All of a safe path is found.
LEMMA SplitIs ==
  ASSUME NEW path \in Seq(Safe)
  PROVE  (CHOOSE f : f = SplitBy(path, f))[Len(path)] = path
<1> DEFINE g == [n \in 0 .. Len(path) |-> Initial(path, n)]
           f == CHOOSE h : h = SplitBy(path, h)
<1>0. /\ Len(path) \in Nat
      /\ \A n \in 1 .. Len(path) : NamesIn(path[n]) = << path[n] >>
  BY LenProperties, ElementOfSeq, NameIsWhole
<1>1. Initial(path, 0) = <<>> /\ Initial(path, Len(path)) = path
  BY <1>0, InitialIs
<1>2. \A n \in 1 .. Len(path) :
        Cat(Initial(path, n - 1), NamesIn(path[n])) = Initial(path, n)
  BY <1>0, OneMore
<1>3. g = SplitBy(path, g)
  <2>1. \A n \in 0 .. Len(path) :
          Initial(path, n) = IF n = 0 THEN << >> ELSE Cat(g[n - 1], NamesIn(path[n]))
    <3> TAKE n \in 0 .. Len(path)
    <3>1. CASE n = 0
      BY <3>1, <1>1
    <3>2. CASE n # 0
      <4>1. n \in 1 .. Len(path) /\ n - 1 \in 0 .. Len(path)
        BY <3>2, <1>0
      <4>2. g[n - 1] = Initial(path, n - 1)
        BY <4>1
      <4> HIDE DEF g
      <4> QED
        BY <3>2, <4>1, <4>2, <1>2
    <3> QED
      BY <3>1, <3>2
  <2> QED
    BY <2>1, Zenon DEF SplitBy
<1>4. f = SplitBy(path, f)
  <2> HIDE DEF g
  <2> QED
    BY <1>3
<1> HIDE DEF f, g
<1>5. \A n \in 0 .. Len(path) :
        f[n] = IF n = 0 THEN << >> ELSE Cat(f[n - 1], NamesIn(path[n]))
  BY <1>4, Zenon DEF SplitBy
<1> DEFINE W == {n \in 0 .. Len(path) : f[n] # Initial(path, n)}
<1>6. W = {}
  <2> SUFFICES ASSUME W # {} PROVE FALSE
    OBVIOUS
  <2>1. PICK n \in W : \A v \in W : n <= v
    <3>1. W \in SUBSET Nat
      OBVIOUS
    <3> HIDE DEF W
    <3> QED
      BY <3>1, LeastOf
  <2>2. n # 0
    BY <1>1, <1>5
  <2>3. n \in 1 .. Len(path) /\ n - 1 \in 0 .. Len(path) /\ n - 1 \notin W
    BY <1>0, <2>1, <2>2
  <2>4. f[n - 1] = Initial(path, n - 1)
    BY <2>3
  <2>5. f[n] = Initial(path, n)
    BY <2>2, <2>3, <2>4, <1>2, <1>5
  <2> QED
    BY <2>1, <2>5
<1>7. f[Len(path)] = path
  BY <1>0, <1>1, <1>6
<1> QED
  BY <1>7 DEF f

LEMMA EndsAre ==
  ASSUME NEW n \in Nat, n > 0
  PROVE  Min(1 .. n) = 1 /\ Max(1 .. n) = n
<1>1. \A x \in 1 .. n : (\A y \in 1 .. n : x <= y) <=> x = 1
  OBVIOUS
<1>2. \A x \in 1 .. n : (\A y \in 1 .. n : x >= y) <=> x = n
  OBVIOUS
<1>3. 1 \in 1 .. n /\ n \in 1 .. n
  OBVIOUS
<1>4. Min(1 .. n) = 1
  BY <1>1, <1>3 DEF Min
<1>5. Max(1 .. n) = n
  BY <1>2, <1>3 DEF Max
<1> QED
  BY <1>4, <1>5

LEMMA ParsesAsItIs ==
  ASSUME NEW path \in Seq(Safe), path # <<>>
  PROVE  parse(path) = path
<1>1. parse(path) = ParsedOf(path)
  BY ParseIs, SplitIs
<1>0. /\ Len(path) \in Nat /\ Len(path) > 0 /\ DOMAIN path = 1 .. Len(path)
  BY LenProperties, EmptySeq
<1>2. /\ Len(path) \in Nat /\ Len(path) > 0 /\ DOMAIN path = 1 .. Len(path)
      /\ \A i \in 1 .. Len(path) : path[i] # "" /\ ~unsafe(path[i])
  BY <1>0, ElementOfSeq, NameIsWhole, Zenon
<1> DEFINE named == {i \in DOMAIN path : path[i] # ""}
<1>3. named = 1 .. Len(path)
  BY <1>2
<1>4. Min(1 .. Len(path)) = 1 /\ Max(1 .. Len(path)) = Len(path) /\ 1 .. Len(path) # {}
  <2>1. Min(1 .. Len(path)) = 1 /\ Max(1 .. Len(path)) = Len(path)
    BY <1>0, EndsAre
  <2>2. 1 .. Len(path) # {}
    BY <1>0
  <2> QED
    BY <2>1, <2>2
<1>5. SubSeq(path, 1, Len(path)) = path
  <2>1. Len(path) \in 0 .. Len(path)
    BY <1>0
  <2>2. Initial(path, Len(path)) = path
    BY <2>1, InitialIs
  <2> QED
    BY <2>2 DEF Initial
<1>6. Trimmed(path, named) = path
  <2> HIDE DEF named
  <2> QED
    BY <1>3, <1>4, <1>5, Zenon DEF Trimmed
<1>7. {i \in DOMAIN path : unsafe(path[i])} = {}
  BY <1>2
<1>8. Judged(path, {}) = path
  BY DEF Judged
<1> QED
  BY <1>1, <1>6, <1>7, <1>8, Zenon DEF ParsedOf

LEMMA FilesReached == IndexInv => ListedReached
<1> SUFFICES ASSUME IndexInv PROVE ListedReached
  OBVIOUS
<1>1. taken \in Seq(Indexables)
  BY DEF IndexInv, TakenInv
<1>2. /\ DOMAIN taken = 1 .. Len(taken)
      /\ \A i \in 1 .. Len(taken) : taken[i] \in Indexables /\ taken[i].path # <<>>
  BY <1>1, LenProperties, ElementOfSeq DEF IndexInv, TakenInv
<1>3. \A t \in Indexables : t.path \in Seq(Safe)
  BY DEF Indexables
<1> QED
  BY <1>2, <1>3, ParsesAsItIs DEF ListedReached

\* What is counted, as a type.
IndexTypes == /\ opening \in {"indexing", "open", "failed"}
              /\ total_size \in Nat /\ file_count \in 0 .. MaxEntries

LEMMA IndexTyped == ASSUME IndexTypes, [IndexNext]_indexVars PROVE IndexTypes'
<1> USE DEF IndexTypes
<1>1. MaxEntries \in Nat
  BY IndexAssumption
<1>2. CASE UNCHANGED indexVars \/ CannotRead \/ Indexed
  <2>1. /\ total_size' = total_size /\ file_count' = file_count
        /\ opening' \in {opening, "failed", "open"}
    BY <1>2 DEF CannotRead, Indexed, Fails, indexVars, built
  <2> QED
    BY <2>1
<1>3. ASSUME NEW e \in RawEntries, Index(e)
      PROVE  IndexTypes'
  <2>1. e.size \in Nat /\ file_count < MaxEntries
    BY <1>3, IndexAssumption DEF Index
  <2>2. CASE UNCHANGED indexVars \/ Fails
    <3>1. /\ total_size' = total_size /\ file_count' = file_count
          /\ opening' \in {opening, "failed"}
      BY <2>2 DEF Fails, indexVars, built
    <3> QED
      BY <3>1
  <2>3. CASE insert(e)
    <3>1. /\ opening' \in {opening, "failed"}
          /\ total_size' \in {total_size, total_size + e.size}
          /\ file_count' \in {file_count, file_count + 1}
      BY <2>3 DEF insert, built
    <3> QED
      BY <1>1, <2>1, <3>1
  <2> QED
    BY <1>3, <2>2, <2>3 DEF Index, IndexTar, IndexZip
<1> QED
  BY <1>2, <1>3 DEF IndexNext

LEMMA IndexTypesHold == IndexSpec => []IndexTypes
<1>1. IndexInit => IndexTypes
  <2> SUFFICES ASSUME IndexInit PROVE IndexTypes
    OBVIOUS
  <2>1. opening = "indexing" /\ total_size = 0 /\ file_count = 0
    BY DEF IndexInit
  <2>2. MaxEntries \in Nat
    BY IndexAssumption
  <2>3. 0 \in Nat /\ 0 \in 0 .. MaxEntries
    BY ONLY <2>2
  <2> QED
    BY <2>1, <2>3, Zenon DEF IndexTypes
<1> QED
  BY <1>1, IndexTyped, PTL DEF IndexSpec

LEMMA IndexIsTyped == IndexInv /\ IndexTypes => IndexTypeOK
<1> SUFFICES ASSUME IndexInv, IndexTypes PROVE IndexTypeOK
  OBVIOUS
<1>1. ASSUME NEW k \in DOMAIN entries PROVE ToSet(k) \subseteq ToSet(Order)
  <2>1. k \in Seq(Lows)
    BY DEF IndexInv, TreeInv
  <2>2. \A i \in DOMAIN k : k[i] \in Lows
    BY <2>1, ElementOfSeq, LenProperties
  <2>3. Lows \subseteq ToSet(Order)
    BY IndexAssumption DEF Lows
  <2> QED
    BY <2>2, <2>3 DEF ToSet
<1> QED
  BY <1>1 DEF IndexInv, EndInv, IndexTypes, IndexTypeOK

\* insert, index_entries, list, open, SmbPath::parse: every file of an archive that
\* opens is listed where it is, found and read under the names that were listed, its
\* bytes lie within the archive, and what is counted is what is there.
THEOREM ArchiveIsServed == IndexSpec => []IndexServes
<1>1. IndexInv /\ IndexTypes => IndexServes
  BY IndexIsTyped, ChildrenListed, FilesServed, FilesReached DEF IndexInv, IndexServes
<1> QED
  BY <1>1, IndexInvariant, IndexTypesHold, PTL

-----------------------------------------------------------------------------
(* ArchiveIndex: the answers of the root.                                  *)

\* stat, list and open of the index take a path for the same thing.
LEMMA IndexAgrees ==
  ASSUME IndexInv, NEW path
  PROVE  LET is == stat(path)
             exists == "error" \notin DOMAIN is
         IN /\ (exists /\ is.dir) <=> "names" \in DOMAIN list(path)
            /\ (exists /\ ~is.dir) <=> "content" \in DOMAIN open(path)
            /\ (exists /\ is.dir) <=> open(path) = Error("FILE_IS_A_DIRECTORY")
            /\ (exists /\ ~is.dir) <=> list(path) = Error("NOT_A_DIRECTORY")
<1>1. CASE key(path) \notin DOMAIN entries
  BY <1>1 DEF stat, list, open, Error
<1>2. CASE key(path) \in DOMAIN entries
  <2>1. IsEntry(entries[key(path)]) /\ stat(path) = entries[key(path)]
    BY <1>2 DEF IndexInv, TreeInv, stat
  <2>2. CASE entries[key(path)].dir
    BY <1>2, <2>1, <2>2 DEF list, open, Error, IsEntry
  <2>3. CASE ~entries[key(path)].dir
    BY <1>2, <2>1, <2>3 DEF list, open, Error, IsEntry
  <2> QED
    BY <2>2, <2>3
<1> QED
  BY <1>1, <1>2

\* The paths the property is about that are the folder leave nothing of it.
LEMMA FolderIsTop ==
  ASSUME IndexInv, NEW loaded \in BOOLEAN,
         NEW path \in {<< >>} \union { << n >> : n \in DOMAIN Lower }
                      \union { << Folder >> \o k : k \in DOMAIN entries }
                      \union { << README >> \o k : k \in DOMAIN entries },
         Located(path, loaded) = "folder"
  PROVE  /\ key(Tail(path)) \in DOMAIN entries /\ entries[key(Tail(path))].dir
<1>1. path # << >> /\ Len(path) = 1
  BY DEF Located
<1>2. Tail(path) = << >>
  <2>1. ASSUME NEW k \in DOMAIN entries, NEW x, path = << x >> \o k
        PROVE  Tail(path) = << >>
    <3>1. k \in Seq(Lows \union {x}) /\ << x >> \in Seq(Lows \union {x}) /\ Len(k) \in Nat
      BY <2>1, SeqMonotonic, LenProperties DEF IndexInv, TreeInv
    <3>2. path \in Seq(Lows \union {x})
      BY <2>1, <3>1, ConcatProperties
    <3>3. Tail(path) \in Seq(Lows \union {x}) /\ Len(Tail(path)) = 0
      BY <1>1, <3>2, HeadTailProperties
    <3> QED
      BY <3>3, EmptySeq
  <2>2. ASSUME NEW n, path = << n >>
        PROVE  Tail(path) = << >>
    BY <2>2
  <2> QED
    BY <1>1, <2>1, <2>2
<1>3. key(<< >>) = << >>
  BY DEF key
<1> QED
  BY <1>2, <1>3 DEF IndexInv, TreeInv

LEMMA RootDoes == IndexInv => RootAgrees
<1> SUFFICES ASSUME IndexInv, NEW loaded \in BOOLEAN,
                    NEW path \in {<< >>} \union { << n >> : n \in DOMAIN Lower }
                                 \union { << Folder >> \o k : k \in DOMAIN entries }
                                 \union { << README >> \o k : k \in DOMAIN entries }
             PROVE  LET is     == RootStat(path, loaded)
                        listed == RootList(path, loaded)
                        reads  == RootOpen(path, loaded)
                        exists == "error" \notin DOMAIN is
                    IN /\ (exists /\ is.dir) <=> "names" \in DOMAIN listed
                       /\ (exists /\ ~is.dir) <=> "content" \in DOMAIN reads
                       /\ (exists /\ is.dir) <=> reads = Error("FILE_IS_A_DIRECTORY")
                       /\ (exists /\ ~is.dir) <=> listed = Error("NOT_A_DIRECTORY")
  BY Zenon DEF RootAgrees
<1>1. CASE Located(path, loaded) = "root"
  <2> DEFINE names == {README} \union (IF loaded THEN {Folder} ELSE {})
  <2>1. /\ RootStat(path, loaded) = Dir("")
        /\ RootList(path, loaded) = [names |-> names]
        /\ RootOpen(path, loaded) = Error("FILE_IS_A_DIRECTORY")
    BY <1>1 DEF RootStat, RootList, RootOpen
  <2>2. "content" \notin DOMAIN Error("FILE_IS_A_DIRECTORY")
    BY DEF Error
  <2>3. "names" \in DOMAIN [names |-> names] /\ [names |-> names] # Error("NOT_A_DIRECTORY")
    BY DEF Error
  <2>4. /\ "names" \in DOMAIN RootList(path, loaded)
        /\ RootList(path, loaded) # Error("NOT_A_DIRECTORY")
    BY <2>1, <2>3, Zenon
  <2>5. IsEntry(RootStat(path, loaded)) /\ RootStat(path, loaded).dir
    BY <2>1, DirIs, Zenon
  <2>6. "error" \notin DOMAIN RootStat(path, loaded)
    BY <2>5 DEF IsEntry
  <2> QED
    BY <2>1, <2>2, <2>4, <2>5, <2>6, Zenon
<1>2. CASE Located(path, loaded) = "readme"
  BY <1>2 DEF RootStat, RootList, RootOpen, Error
<1>3. CASE Located(path, loaded) = "folder"
  <2>1. "names" \in DOMAIN list(Tail(path)) /\ list(Tail(path)) # Error("NOT_A_DIRECTORY")
    BY <1>3, FolderIsTop DEF list, Error
  <2>2. /\ RootStat(path, loaded) = Dir(Folder)
        /\ RootList(path, loaded) = list(Tail(path))
        /\ RootOpen(path, loaded) = Error("FILE_IS_A_DIRECTORY")
    BY <1>3 DEF RootStat, RootList, RootOpen
  <2>3. "content" \notin DOMAIN Error("FILE_IS_A_DIRECTORY")
    BY DEF Error
  <2> QED
    BY <2>1, <2>2, <2>3, DirIs DEF IsEntry
<1>4. CASE Located(path, loaded) = "inside"
  <2>1. /\ RootStat(path, loaded) = stat(Tail(path))
        /\ RootList(path, loaded) = list(Tail(path))
        /\ RootOpen(path, loaded) = open(Tail(path))
    BY <1>4 DEF RootStat, RootList, RootOpen
  <2> QED
    BY <2>1, IndexAgrees
<1>5. CASE Located(path, loaded) = "nothing"
  BY <1>5 DEF RootStat, RootList, RootOpen, Error
<1> QED
  BY <1>1, <1>2, <1>3, <1>4, <1>5 DEF Located

\* RootBacking: whatever archives are indexed, stat, list and open of the root
\* take every path for the same thing, with the archive and without.
THEOREM RootIsOfOneMind == IndexSpec => []RootAgrees
BY IndexInvariant, RootDoes, PTL
=============================================================================
