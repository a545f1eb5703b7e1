---------------------------- MODULE Readers_proofs ----------------------------
(***************************************************************************)
(* Proofs about the readers of files: of entries that are expanded into a  *)
(* cache (ExpandedCache), for any finite set of readers, any entries with  *)
(* any sizes, and any limit; of bytes that are copied through one          *)
(* descriptor (FileRead), for any number of callers, any files and any     *)
(* bounds; and of the matching of names with patterns by which files are   *)
(* found (Glob), for any patterns, names and bounds of its budget.         *)
(***************************************************************************)
EXTENDS ExpandedCache, FileRead, Glob, Ordered_proofs

-----------------------------------------------------------------------------
(* ExpandedCache.                                                          *)

\* Initially nothing is expanded.
LEMMA InitInv == Init => IInv
<1> SUFFICES ASSUME Init PROVE IInv
  OBVIOUS
<1>1. TypeOK
  BY DEF Init, TypeOK, Positions
<1>2. LocksExclude /\ CopiesCounted /\ ExpandedOnce /\ OrderOfResidents
      /\ PassedOverInUse
  BY DEF Init, LocksExclude, CopiesCounted, ExpandedOnce, OrderOfResidents,
         PassedOverInUse, HoldsSlot
<1>3. LimitMet
  BY CacheAssumption DEF Init, LimitMet
<1> QED BY <1>1, <1>2, <1>3 DEF IInv

-----------------------------------------------------------------------------
(* Finding the copy, or making it.                                         *)

\* The types survive the search.
LEMMA FindTyped ==
  ASSUME TypeOK, NEW r \in Readers, Find(r)
  PROVE  TypeOK'
<1>1. CASE \E e \in Entries : Open(r, e)
  BY <1>1 DEF Open, TypeOK, Positions, Goto, account
<1>2. CASE LookInSlot(r) \/ LookedInSlot(r) \/ LockSlot(r)
  BY <1>2 DEF LookInSlot, LookedInSlot, LockSlot, TypeOK, Positions, Goto, account
<1>3. CASE Recheck(r) \/ LockArchive(r)
  BY <1>3 DEF Recheck, LockArchive, TypeOK, Positions, Goto, account
<1>4. CASE Expanded(r) \/ ExpandFailed(r)
  BY <1>4 DEF Expanded, ExpandFailed, TypeOK, Positions, Goto, account
<1> QED BY <1>1, <1>2, <1>3, <1>4 DEF Find

\* A slot is taken only when it is free.
LEMMA FindExcludes ==
  ASSUME TypeOK, LocksExclude, NEW r \in Readers, Find(r)
  PROVE  LocksExclude'
<1>1. CASE \E e \in Entries : Open(r, e)
  BY <1>1 DEF Open, TypeOK, LocksExclude, HoldsSlot, Goto
<1>2. CASE LookInSlot(r)
  BY <1>2 DEF LookInSlot, Locked, TypeOK, LocksExclude, HoldsSlot, Goto
<1>3. CASE LockSlot(r)
  BY <1>3 DEF LockSlot, Locked, TypeOK, LocksExclude, HoldsSlot, Goto
<1>4. CASE LookedInSlot(r)
  BY <1>4 DEF LookedInSlot, TypeOK, LocksExclude, HoldsSlot, Goto
<1>5. CASE Recheck(r)
  BY <1>5 DEF Recheck, TypeOK, LocksExclude, HoldsSlot, Goto
<1>6. CASE LockArchive(r)
  BY <1>6 DEF LockArchive, TypeOK, LocksExclude, HoldsSlot, Goto
<1>7. CASE Expanded(r) \/ ExpandFailed(r)
  BY <1>7 DEF Expanded, ExpandFailed, TypeOK, LocksExclude, HoldsSlot, Goto
<1> QED BY <1>1, <1>2, <1>3, <1>4, <1>5, <1>6, <1>7 DEF Find

\* A copy is made only where there is none, and by the holder of the slot, who
\* goes on to have it counted.
LEMMA FindCounts ==
  ASSUME TypeOK, LocksExclude, CopiesCounted, ExpandedOnce,
         NEW r \in Readers, Find(r)
  PROVE  CopiesCounted' /\ ExpandedOnce'
<1> USE DEF CopiesCounted, ExpandedOnce
<1>1. CASE \E e \in Entries : Open(r, e)
  BY <1>1 DEF Open, TypeOK, Goto, account
<1>2. CASE LookInSlot(r) \/ LockSlot(r)
  BY <1>2 DEF LookInSlot, LockSlot, TypeOK, Goto, account
<1>3. CASE LookedInSlot(r)
  BY <1>3 DEF LookedInSlot, TypeOK, Goto, account
<1>4. CASE Recheck(r)
  BY <1>4 DEF Recheck, TypeOK, Goto, account
<1>5. CASE LockArchive(r)
  BY <1>5 DEF LockArchive, TypeOK, Goto, account
<1>6. CASE Expanded(r)
  BY <1>6 DEF Expanded, TypeOK, LocksExclude, HoldsSlot, Goto, account
<1>7. CASE ExpandFailed(r)
  BY <1>7 DEF ExpandFailed, TypeOK, Goto, account
<1> QED BY <1>1, <1>2, <1>3, <1>4, <1>5, <1>6, <1>7 DEF Find

\* Who looks at an entry that was passed over finds its copy, and goes on to
\* touch it.
LEMMA FindKeepsInUse ==
  ASSUME TypeOK, CopiesCounted, PassedOverInUse, NEW r \in Readers, Find(r)
  PROVE  PassedOverInUse'
<1> USE DEF PassedOverInUse
<1>1. CASE \E e \in Entries : Open(r, e)
  BY <1>1 DEF Open, TypeOK, Goto, account
<1>2. CASE LookInSlot(r) \/ LockSlot(r)
  BY <1>2 DEF LookInSlot, LockSlot, TypeOK, Goto, account
<1>3. CASE LookedInSlot(r)
  BY <1>3 DEF LookedInSlot, CopiesCounted, TypeOK, Goto, account
<1>4. CASE Recheck(r)
  BY <1>4 DEF Recheck, CopiesCounted, TypeOK, Goto, account
<1>5. CASE LockArchive(r)
  BY <1>5 DEF LockArchive, TypeOK, Goto, account
<1>6. CASE Expanded(r) \/ ExpandFailed(r)
  BY <1>6 DEF Expanded, ExpandFailed, TypeOK, Goto, account
<1> QED BY <1>1, <1>2, <1>3, <1>4, <1>5, <1>6 DEF Find

\* The search leaves the account, and whether it is locked, as they are.
LEMMA FindKeepsAccount ==
  ASSUME TypeOK, NEW r \in Readers, Find(r)
  PROVE  UNCHANGED account /\ (AccountLocked => AccountLocked')
<1>1. UNCHANGED account
  BY DEF Find, Open, LookInSlot, LookedInSlot, LockSlot, Recheck, LockArchive,
         Expanded, ExpandFailed
<1>2. \A s \in Readers : pc[s] = "evicting" => pc'[s] = "evicting"
  BY DEF Find, Open, LookInSlot, LookedInSlot, LockSlot, Recheck, LockArchive,
         Expanded, ExpandFailed, Goto, TypeOK
<1> QED BY <1>1, <1>2 DEF AccountLocked

\* Every step of the search keeps the invariant.
LEMMA FindInv ==
  ASSUME IInv, NEW r \in Readers, Find(r)
  PROVE  IInv'
<1>1. OrderOfResidents' /\ LimitMet'
  BY FindKeepsAccount DEF IInv, OrderOfResidents, LimitMet, account
<1> QED
  BY <1>1, FindTyped, FindExcludes, FindCounts, FindKeepsInUse DEF IInv

-----------------------------------------------------------------------------
(* The account.                                                            *)

\* Taking an entry out of the order leaves the others ordered.
LEMMA OrderWithout ==
  ASSUME TypeOK, OrderOfResidents, NEW e \in Entries,
         resident' = resident \ {e}, older' = OlderWithout(e)
  PROVE  OrderOfResidents' /\ older' \subseteq resident' \X resident'
<1>1. \A f, g : <<f, g>> \in older' <=> <<f, g>> \in older /\ f # e /\ g # e
  BY DEF OlderWithout
<1>2. older' \subseteq resident' \X resident'
  BY DEF OlderWithout, TypeOK
<1> QED BY <1>1, <1>2 DEF OrderOfResidents

\* Putting an entry last orders it after the others.
LEMMA OrderUsedLast ==
  ASSUME TypeOK, OrderOfResidents, NEW e \in Entries,
         resident' = resident \union {e}, older' = UsedLast(e)
  PROVE  OrderOfResidents' /\ older' \subseteq resident' \X resident'
<1>1. \A f, g : <<f, g>> \in older' <=>
        \/ <<f, g>> \in older /\ f # e /\ g # e
        \/ f \in resident \ {e} /\ g = e
  BY DEF UsedLast, OlderWithout
<1>2. older' \subseteq resident' \X resident'
  BY DEF UsedLast, OlderWithout, TypeOK
<1>3. \A f, g \in resident' : f # g => <<f, g>> \in older' \/ <<g, f>> \in older'
  BY <1>1 DEF OrderOfResidents
<1>4. \A f, g \in Entries : <<f, g>> \in older' =>
        f \in resident' /\ g \in resident' /\ <<g, f>> \notin older'
  BY <1>1 DEF OrderOfResidents
<1>5. \A f, g, h \in Entries :
        <<f, g>> \in older' /\ <<g, h>> \in older' => <<f, h>> \in older'
  <2> SUFFICES ASSUME NEW f \in Entries, NEW g \in Entries, NEW h \in Entries,
                      <<f, g>> \in older', <<g, h>> \in older'
               PROVE  <<f, h>> \in older'
    OBVIOUS
  <2>1. g # e /\ <<f, g>> \in older /\ f # e
    BY <1>1
  <2>2. CASE h = e
    BY <1>1, <2>1, <2>2 DEF OrderOfResidents
  <2>3. CASE h # e
    <3>1. <<g, h>> \in older
      BY <1>1, <2>3
    <3> QED BY <1>1, <2>1, <2>3, <3>1 DEF OrderOfResidents
  <2> QED BY <2>2, <2>3
<1> QED BY <1>2, <1>3, <1>4, <1>5 DEF OrderOfResidents

\* touch: only the order changes.
LEMMA TouchInv ==
  ASSUME IInv, NEW r \in Readers, Touch(r)
  PROVE  IInv'
<1> USE DEF IInv
<1>1. want[r] \in Entries
  BY DEF TypeOK
<1>2. OrderOfResidents' /\ older' \subseteq resident' \X resident'
  <2>1. CASE want[r] \in resident
    BY <1>1, <2>1, OrderUsedLast DEF Touch
  <2>2. CASE want[r] \notin resident
    BY <2>2 DEF Touch, OrderOfResidents, TypeOK
  <2> QED BY <2>1, <2>2
<1>3. TypeOK'
  BY <1>2 DEF Touch, Goto, TypeOK, Positions
<1>4. LocksExclude'
  BY DEF Touch, Goto, TypeOK, LocksExclude, HoldsSlot
<1>5. CopiesCounted' /\ ExpandedOnce'
  BY DEF Touch, Goto, TypeOK, CopiesCounted, ExpandedOnce
<1>6. PassedOverInUse'
  BY DEF Touch, Goto, TypeOK, PassedOverInUse, AccountLocked
<1>7. LimitMet'
  BY DEF Touch, LimitMet
<1> QED BY <1>2, <1>3, <1>4, <1>5, <1>6, <1>7

\* insert: the copy had not been counted, and is now.
LEMMA RememberInv ==
  ASSUME IInv, NEW r \in Readers, Remember(r)
  PROVE  IInv'
<1> USE DEF IInv
<1>1. /\ want[r] \in Entries /\ Size[want[r]] \in Nat
      /\ pc[r] = "remembering" /\ want[r] \notin resident
  BY CacheAssumption DEF TypeOK, Remember, Goto, ExpandedOnce
<1>2. /\ resident' = resident \union {want[r]} /\ older' = UsedLast(want[r])
      /\ UNCHANGED <<want, cached>> /\ ~AccountLocked
  BY DEF Remember
<1>3. \/ /\ pc' = [pc EXCEPT ![r] = "idle"] /\ todo' = {} /\ total' <= Limit
      \/ /\ pc' = [pc EXCEPT ![r] = "evicting"] /\ todo' = resident \ {want[r]}
  BY DEF Remember, Goto
<1>4. total' \in Nat
  BY <1>1, CacheAssumption DEF Remember, TypeOK
<1>5. OrderOfResidents' /\ older' \subseteq resident' \X resident'
  BY <1>1, <1>2, OrderUsedLast
<1>6. TypeOK'
  BY <1>1, <1>2, <1>3, <1>4, <1>5 DEF TypeOK, Positions
<1>7. LocksExclude'
  BY <1>1, <1>2, <1>3 DEF TypeOK, LocksExclude, HoldsSlot, AccountLocked
<1>8. CopiesCounted'
  BY <1>1, <1>2, <1>3 DEF TypeOK, CopiesCounted, ExpandedOnce
<1>9. ExpandedOnce'
  BY <1>1, <1>2, <1>3 DEF TypeOK, ExpandedOnce
<1>10. PassedOverInUse'
  BY <1>1, <1>2, <1>3 DEF TypeOK, PassedOverInUse, AccountLocked
<1>11. LimitMet'
  <2>1. CASE total' <= Limit
    BY <2>1, <1>4, CacheAssumption DEF LimitMet
  <2>2. CASE pc' = [pc EXCEPT ![r] = "evicting"]
    BY <2>2 DEF LimitMet, AccountLocked, TypeOK
  <2> QED BY <1>3, <2>1, <2>2
<1> QED BY <1>5, <1>6, <1>7, <1>8, <1>9, <1>10, <1>11

\* A candidate goes: neither the copy just counted nor one still to be counted.
LEMMA EvictInv ==
  ASSUME IInv, NEW r \in Readers, NEW e \in Entries, Evict(r, e)
  PROVE  IInv'
<1> USE DEF IInv
<1>1. /\ e \in resident /\ pc[r] = "evicting"
      /\ UNCHANGED <<pc, want>>
      /\ cached' = cached \ {e} /\ resident' = resident \ {e}
      /\ older' = OlderWithout(e) /\ todo' = todo \ {e}
  BY DEF Evict, Oldest, TypeOK
<1>2. total' \in Nat
  BY CacheAssumption DEF Evict, SaturatingSub, TypeOK
<1>3. OrderOfResidents' /\ older' \subseteq resident' \X resident'
  BY <1>1, OrderWithout
<1>4. TypeOK'
  BY <1>1, <1>2, <1>3 DEF TypeOK
<1>5. LocksExclude'
  BY <1>1 DEF LocksExclude
<1>6. CopiesCounted' /\ ExpandedOnce'
  BY <1>1 DEF CopiesCounted, ExpandedOnce
<1>7. PassedOverInUse'
  BY <1>1 DEF PassedOverInUse
<1>8. LimitMet'
  BY <1>1 DEF LimitMet, AccountLocked
<1> QED BY <1>3, <1>4, <1>5, <1>6, <1>7, <1>8

\* A candidate stays: it has a copy, so who holds its slot is only looking.
LEMMA PassOverInv ==
  ASSUME IInv, NEW r \in Readers, NEW e \in Entries, PassOver(r, e)
  PROVE  IInv'
<1> USE DEF IInv
<1>1. /\ e \in todo /\ pc[r] = "evicting" /\ todo' = todo \ {e}
      /\ UNCHANGED <<pc, want, cached, resident, older, total>>
  BY DEF PassOver, Oldest
<1>2. e \in cached
  BY <1>1 DEF TypeOK, CopiesCounted
<1>3. PICK s \in Readers : want[s] = e /\ pc[s] \in HoldsSlot
  BY DEF PassOver, Locked
<1>4. pc[s] \in {"looking", "rechecking"} /\ s # r
  BY <1>1, <1>2, <1>3 DEF ExpandedOnce, HoldsSlot
<1>5. PassedOverInUse'
  <2> SUFFICES ASSUME NEW q \in Readers, pc[q] = "evicting",
                      NEW f \in resident \ ((todo \ {e}) \union {want[q]})
               PROVE  \E t \in Readers \ {q} :
                        want[t] = f /\ pc[t] \in {"looking", "rechecking", "touching"}
    BY <1>1 DEF PassedOverInUse
  <2>1. CASE f = e
    BY <2>1, <1>3, <1>4
  <2>2. CASE f # e
    BY <2>2 DEF PassedOverInUse
  <2> QED BY <2>1, <2>2
<1>6. TypeOK'
  BY <1>1 DEF TypeOK
<1>7. LocksExclude' /\ CopiesCounted' /\ ExpandedOnce' /\ OrderOfResidents'
  BY <1>1 DEF LocksExclude, CopiesCounted, ExpandedOnce, OrderOfResidents
<1>8. LimitMet'
  BY <1>1 DEF LimitMet, AccountLocked
<1> QED BY <1>5, <1>6, <1>7, <1>8

\* When the candidates are used up, every copy that is left is the one just
\* counted or has a reader of its own.
LEMMA LeftoversFew ==
  ASSUME TypeOK, PassedOverInUse, NEW r \in Readers, pc[r] = "evicting", todo = {}
  PROVE  Cardinality(resident) <= Cardinality(Readers)
<1> DEFINE Needed == {want[s] : s \in Readers}
<1>1. resident \in SUBSET Needed
  BY DEF TypeOK, PassedOverInUse
<1>2. want \in Surjection(Readers, Needed)
  BY DEF TypeOK, Surjection
<1>3. IsFiniteSet(Needed) /\ Cardinality(Needed) <= Cardinality(Readers)
  BY <1>2, CacheAssumption, FS_Surjection
<1>4. IsFiniteSet(resident) /\ Cardinality(resident) <= Cardinality(Needed)
  BY <1>1, <1>3, FS_Subset
<1> HIDE DEF Needed
<1>5. /\ Cardinality(resident) \in Nat /\ Cardinality(Needed) \in Nat
      /\ Cardinality(Readers) \in Nat
  BY <1>3, <1>4, CacheAssumption, FS_CardinalityType
<1> QED BY <1>3, <1>4, <1>5

\* The eviction gives the account back.
LEMMA EvictionDoneInv ==
  ASSUME IInv, NEW r \in Readers, EvictionDone(r)
  PROVE  IInv'
<1> USE DEF IInv
<1>1. /\ pc[r] = "evicting" /\ pc' = [pc EXCEPT ![r] = "idle"] /\ todo' = {}
      /\ UNCHANGED <<want, cached, resident, older, total>>
  BY DEF EvictionDone, Goto
<1>2. TypeOK'
  BY <1>1 DEF TypeOK, Positions
<1>3. LocksExclude' /\ CopiesCounted' /\ ExpandedOnce' /\ OrderOfResidents'
  BY <1>1 DEF LocksExclude, CopiesCounted, ExpandedOnce, OrderOfResidents,
              TypeOK, HoldsSlot
<1>4. PassedOverInUse'
  BY <1>1 DEF PassedOverInUse, LocksExclude, TypeOK
<1>5. LimitMet'
  <2>1. CASE total <= Limit
    BY <1>1, <2>1, CacheAssumption DEF LimitMet, TypeOK
  <2>2. CASE todo = {}
    BY <1>1, <2>2, LeftoversFew DEF LimitMet
  <2> QED BY <2>1, <2>2 DEF EvictionDone
<1> QED BY <1>2, <1>3, <1>4, <1>5

-----------------------------------------------------------------------------
(* The theorems.                                                           *)

\* Every step keeps the invariant.
LEMMA StepInv == IInv /\ [Next]_vars => IInv'
<1> SUFFICES ASSUME IInv, [Next]_vars PROVE IInv'
  OBVIOUS
<1>1. CASE UNCHANGED vars
  BY <1>1 DEF vars, IInv, TypeOK, LocksExclude, CopiesCounted, ExpandedOnce,
              OrderOfResidents, PassedOverInUse, LimitMet, AccountLocked
<1>2. ASSUME NEW r \in Readers, Account(r) PROVE IInv'
  BY <1>2, TouchInv, RememberInv, EvictInv, PassOverInv, EvictionDoneInv DEF Account
<1> QED BY <1>1, <1>2, FindInv DEF Next

\* Whatever readers do at once, slots, account and eviction agree.
THEOREM Invariance == Spec => []IInv
  BY InitInv, StepInv, PTL DEF Spec

\* The cache's state keeps its types.
THEOREM TypeCorrect == Spec => []TypeOK
<1>1. IInv => TypeOK
  BY DEF IInv
<1> QED BY <1>1, Invariance, PTL

\* expand: no copy is made that the limit could never reach.
THEOREM NoCopyUncounted == Spec => []CopiesCounted
<1>1. IInv => CopiesCounted
  BY DEF IInv
<1> QED BY <1>1, Invariance, PTL

\* expand: no entry is decompressed twice, and no copy counted twice.
THEOREM NoDoubleExpansion == Spec => []ExpandedOnce
<1>1. IInv => ExpandedOnce
  BY DEF IInv
<1> QED BY <1>1, Invariance, PTL

\* ExpandedCache: order and residents agree.
THEOREM OrderKept == Spec => []OrderOfResidents
<1>1. IInv => OrderOfResidents
  BY DEF IInv
<1> QED BY <1>1, Invariance, PTL

\* evict_down_to_limit: past the limit there are no more copies than readers.
THEOREM LimitKept == Spec => []LimitMet
<1>1. IInv => LimitMet
  BY DEF IInv
<1> QED BY <1>1, Invariance, PTL

-----------------------------------------------------------------------------
(* What the account says the copies take.                                  *)

TotalInv == IsFiniteSet(resident) /\ TotalIsSum

LEMMA TotalIs == MapThenSumSet(LAMBDA e : Size[e], resident) = SumAt(Size, resident)
BY Zenon DEF MapThenSumSet, MapThenFoldSet, SumAt, AddedBy, AnyOf

LEMMA TotalAfter == (MapThenSumSet(LAMBDA e : Size[e], resident) = SumAt(Size, resident))'
BY Zenon DEF MapThenSumSet, MapThenFoldSet, SumAt, AddedBy, AnyOf

LEMMA InitTotal == Init => TotalInv
<1> SUFFICES ASSUME Init PROVE TotalInv
  OBVIOUS
<1>1. resident = {} /\ total = 0
  BY DEF Init
<1> QED
  BY <1>1, TotalIs, SumOfEmpty, FS_EmptySet DEF TotalInv, TotalIsSum

\* The copy that is counted was not counted before, the one that goes was: an
\* insertion never replaces, and the subtraction never saturates.
LEMMA StepTotal == IInv /\ TotalInv /\ [Next]_vars => TotalInv'
<1> SUFFICES ASSUME IInv, TotalInv, [Next]_vars PROVE TotalInv'
  OBVIOUS
<1>0. /\ resident \subseteq Entries /\ total \in Nat /\ \A e \in Entries : Size[e] \in Nat
      /\ IsFiniteSet(resident) /\ total = SumAt(Size, resident)
  BY CacheAssumption, TotalIs DEF IInv, TypeOK, TotalInv, TotalIsSum
<1>1. CASE UNCHANGED <<resident, total>>
  BY <1>1, <1>0, TotalAfter DEF TotalInv, TotalIsSum
<1>2. ASSUME NEW r \in Readers, Remember(r) PROVE TotalInv'
  <2> DEFINE e == want[r]
             all == resident \union {e}
  <2>1. e \in Entries /\ e \notin resident
    BY <1>2 DEF IInv, TypeOK, Remember, Goto, ExpandedOnce
  <2>2. resident' = all /\ total' = total + Size[e]
    BY <1>2, <2>1 DEF Remember
  <2>3. IsFiniteSet(all)
    BY <1>0, FS_AddElement
  <2>4. all \ {e} = resident /\ e \in all /\ \A x \in all : Size[x] \in Nat
    BY <1>0, <2>1
  <2> HIDE DEF e, all
  <2>5. SumAt(Size, all) = Size[e] + SumAt(Size, resident) /\ Size[e] \in Nat
    BY <2>3, <2>4, SumWithout
  <2>6. total' = SumAt(Size, resident')
    BY <1>0, <2>2, <2>5
  <2> QED
    BY <2>2, <2>3, <2>6, TotalAfter DEF TotalInv, TotalIsSum
<1>3. ASSUME NEW r \in Readers, NEW e \in Entries, Evict(r, e) PROVE TotalInv'
  <2>1. /\ e \in resident /\ resident' = resident \ {e}
        /\ total' = SaturatingSub(total, Size[e])
    BY <1>3 DEF IInv, Evict, Oldest, TypeOK
  <2>2. IsFiniteSet(resident \ {e})
    BY <1>0, FS_RemoveElement
  <2>3. /\ SumAt(Size, resident) = Size[e] + SumAt(Size, resident \ {e})
        /\ SumAt(Size, resident \ {e}) \in Nat
    <3>1. \A x \in resident : Size[x] \in Nat
      BY <1>0
    <3> QED
      BY <3>1, <1>0, <2>1, SumWithout
  <2>4. total' = SumAt(Size, resident \ {e})
    BY <1>0, <2>1, <2>3 DEF SaturatingSub
  <2> QED
    BY <2>1, <2>2, <2>4, TotalAfter DEF TotalInv, TotalIsSum
<1>4. \/ UNCHANGED <<resident, total>>
      \/ \E r \in Readers : Remember(r) \/ \E e \in Entries : Evict(r, e)
  BY DEF Next, vars, account, Find, Account, Open, LookInSlot, LookedInSlot, LockSlot, Recheck,
         LockArchive, Expanded, ExpandFailed, Touch, PassOver, EvictionDone
<1> QED
  BY <1>1, <1>2, <1>3, <1>4

\* ExpandedCache: whatever order copies are counted and evicted in, the total is
\* what the resident copies take together.
THEOREM TotalKept == Spec => []TotalIsSum
<1>1. TotalInv => TotalIsSum
  BY DEF TotalInv
<1> QED
  BY <1>1, Invariance, InitTotal, StepTotal, PTL DEF Spec

\* expand, ExpandedCache: what lies in the slots, what is being expanded and what is
\* accounted for agree, whoever is between any two of the locks.
THEOREM CacheCorrect == Spec => []CacheAgrees
<1>1. IInv /\ TotalIsSum => CacheAgrees
  BY DEF IInv, CacheAgrees
<1> QED
  BY <1>1, Invariance, TotalKept, PTL

-----------------------------------------------------------------------------
(* FileRead: the bytes of a source.                                        *)

\* The n bytes after the first `from`.
Bytes(from, n) == [i \in 1 .. n |-> from + i]

LEMMA BytesSeq ==
  ASSUME NEW from \in Nat, NEW n \in Nat
  PROVE  Bytes(from, n) \in Seq(Nat) /\ Len(Bytes(from, n)) = n
BY DEF Bytes

\* What is read in two goes is what is read in one.
LEMMA BytesConcat ==
  ASSUME NEW from \in Nat, NEW m \in Nat, NEW n \in Nat
  PROVE  Bytes(from, m) \o Bytes(from + m, n) = Bytes(from, m + n)
<1> DEFINE a == Bytes(from, m)
           b == Bytes(from + m, n)
           c == Bytes(from, m + n)
<1>1. /\ a \in Seq(Nat) /\ Len(a) = m
      /\ b \in Seq(Nat) /\ Len(b) = n
      /\ c \in Seq(Nat) /\ Len(c) = m + n
  <2>1. from + m \in Nat /\ m + n \in Nat
    OBVIOUS
  <2> QED
    BY <2>1, BytesSeq
<1>2. \A i \in 1 .. m : a[i] = from + i
  BY DEF Bytes
<1>3. \A i \in 1 .. n : b[i] = from + m + i
  BY DEF Bytes
<1>4. \A i \in 1 .. m + n : c[i] = from + i
  BY DEF Bytes
<1> HIDE DEF a, b, c
<1>5. a \o b \in Seq(Nat) /\ Len(a \o b) = m + n
  BY <1>1, ConcatProperties
<1>6. \A i \in 1 .. m + n : (a \o b)[i] = c[i]
  <2> SUFFICES ASSUME NEW i \in 1 .. m + n PROVE (a \o b)[i] = c[i]
    OBVIOUS
  <2>1. (a \o b)[i] = IF i <= m THEN a[i] ELSE b[i - m]
    BY <1>1, ConcatProperties
  <2>2. CASE i <= m
    BY <2>1, <2>2, <1>2, <1>4
  <2>3. CASE ~(i <= m)
    <3>1. i - m \in 1 .. n
      BY <2>3
    <3>2. b[i - m] = from + i
      BY <3>1, <1>3
    <3> QED
      BY <2>1, <2>3, <3>2, <1>4
  <2> QED
    BY <2>2, <2>3
<1>7. a \o b = c
  BY <1>1, <1>5, <1>6, SeqEqual
<1> QED
  BY <1>7 DEF a, b, c

-----------------------------------------------------------------------------
(* The invariant.                                                           *)

First(c) == file[c].at + range[c].offset

\* How much of what was asked for there is: ReadsExact's measure.
Left(c) ==
  LET last == Smaller(Smaller(First(c) + range[c].length, file[c].at + file[c].size),
                      file[c].end)
  IN IF last < First(c) THEN 0 ELSE last - First(c)

Replies == [status : { "none", "SUCCESS", "END_OF_FILE", "UNEXPECTED_IO_ERROR" },
            data : Seq(Nat)]

Types ==
  /\ place \in [Callers -> { "idle", "asked", "begun", "reading" }]
  /\ file \in [Callers -> Stored]
  /\ range \in [Callers -> [offset : Nat, minimum : Nat, length : 0 .. MAX_READ_SIZE]]
  /\ buffer \in [Callers -> Seq(Nat)]
  /\ \A c \in Callers : Len(buffer[c]) <= MAX_READ_SIZE
  /\ position \in [Callers \cup { "shared" } -> Nat]
  /\ holder \in Callers \cup { Unheld }
  /\ given \in [Callers -> Replies]

\* Whoever is at a descriptor has it to itself, and has read the bytes up to
\* where it stands.
Alone(c) ==
  place[c] \in { "begun", "reading" } =>
    /\ range[c].offset < file[c].size
    /\ file[c].source = "tar" => holder = c

ReadSoFar(c) ==
  /\ place[c] \in { "asked", "begun" } => buffer[c] = << >>
  /\ place[c] = "reading" =>
       \E n \in 0 .. Wanted(c) :
         /\ buffer[c] = Bytes(First(c), n)
         /\ position[Descriptor(c)] = First(c) + n
         /\ n = 0 \/ First(c) + n <= file[c].end

Exact(c) ==
  /\ given[c].status = "SUCCESS" => given[c].data = Bytes(First(c), Left(c))
  /\ given[c].status \in { "SUCCESS", "END_OF_FILE" } =>
       (given[c].status = "END_OF_FILE" <=>
          (Left(c) = 0 /\ range[c].length > 0) \/ Left(c) < range[c].minimum)

CallerInv(c) == Alone(c) /\ ReadSoFar(c) /\ Exact(c)

ReadInv == Types /\ \A c \in Callers : CallerInv(c)

\* The numbers of a caller's request.
LEMMA Numbers ==
  ASSUME Types, NEW c \in Callers
  PROVE  /\ file[c] \in Stored
         /\ file[c].at \in Nat /\ file[c].size \in Nat /\ file[c].end \in Nat
         /\ range[c] \in [offset : Nat, minimum : Nat, length : 0 .. MAX_READ_SIZE]
         /\ range[c].offset \in Nat /\ range[c].minimum \in Nat
         /\ range[c].length \in Nat /\ range[c].length <= MAX_READ_SIZE
         /\ First(c) \in Nat /\ MAX_READ_SIZE \in Nat
         /\ Descriptor(c) \in { c, "shared" }
         /\ Left(c) \in Nat
<1>1. file[c] \in Stored /\ MAX_READ_SIZE \in Nat
  BY ReadAssumption DEF Types
<1>2. file[c].at \in Nat /\ file[c].size \in Nat /\ file[c].end \in Nat
  BY <1>1, ReadAssumption
<1>3. range[c] \in [offset : Nat, minimum : Nat, length : 0 .. MAX_READ_SIZE]
  BY DEF Types
<1>4. /\ range[c].offset \in Nat /\ range[c].minimum \in Nat
      /\ range[c].length \in Nat /\ range[c].length <= MAX_READ_SIZE
  BY <1>1, <1>3
<1>5. First(c) \in Nat
  BY <1>2, <1>4 DEF First
<1>6. Left(c) \in Nat
  BY <1>2, <1>4, <1>5 DEF Left, Smaller
<1> QED
  BY <1>1, <1>2, <1>3, <1>4, <1>5, <1>6 DEF Descriptor

\* Nothing is left past the end of the file; within it, what fills the buffer or
\* comes to the end of the source is all there is.
LEMMA LeftOver ==
  ASSUME NEW at \in Nat, NEW size \in Nat, NEW end \in Nat, NEW offset \in Nat,
         NEW length \in Nat
  PROVE  LET first == at + offset
             last  == Smaller(Smaller(first + length, at + size), end)
             left  == IF last < first THEN 0 ELSE last - first
         IN /\ offset >= size => left = 0
            /\ offset < size =>
                 \A n \in 0 .. Smaller(length, size - offset) :
                   /\ n = 0 \/ first + n <= end
                   /\ n = Smaller(length, size - offset) \/ first + n >= end
                   => left = n
BY DEF Smaller

LEMMA LeftIs ==
  ASSUME Types, NEW c \in Callers
  PROVE  /\ range[c].offset >= file[c].size => Left(c) = 0
         /\ range[c].offset < file[c].size =>
              \A n \in 0 .. Wanted(c) :
                /\ n = 0 \/ First(c) + n <= file[c].end
                /\ n = Wanted(c) \/ First(c) + n >= file[c].end
                => Left(c) = n
<1>1. /\ file[c].at \in Nat /\ file[c].size \in Nat /\ file[c].end \in Nat
      /\ range[c].offset \in Nat /\ range[c].length \in Nat
  BY Numbers
<1> QED
  BY <1>1, LeftOver DEF Left, First, Wanted

\* A caller whose own state stays, and whose descriptor nobody moved, is fine.
LEMMA OthersStay ==
  ASSUME NEW d \in Callers, CallerInv(d),
         place'[d] = place[d], file'[d] = file[d], range'[d] = range[d],
         buffer'[d] = buffer[d], given'[d] = given[d],
         place[d] \in { "begun", "reading" } /\ file[d].source = "tar"
           => (holder = d => holder' = d),
         place[d] = "reading" => position'[Descriptor(d)] = position[Descriptor(d)]
  PROVE  CallerInv(d)'
<1>1. First(d)' = First(d) /\ Left(d)' = Left(d) /\ Wanted(d)' = Wanted(d)
      /\ Descriptor(d)' = Descriptor(d)
  BY DEF First, Left, Wanted, Descriptor
<1>2. Alone(d)'
  BY DEF CallerInv, Alone
<1>3. ReadSoFar(d)'
  <2>1. place[d] = "reading" => (position[Descriptor(d)])' = position[Descriptor(d)]
    BY <1>1
  <2> QED
    BY <1>1, <2>1 DEF CallerInv, ReadSoFar
<1>4. Exact(d)'
  BY <1>1 DEF CallerInv, Exact
<1> QED
  BY <1>2, <1>3, <1>4 DEF CallerInv

\* Two callers that are both reading stand at different descriptors: there is
\* one shared one, and one of them holds its mutex.
LEMMA Apart ==
  ASSUME ReadInv, NEW c \in Callers, NEW d \in Callers \ { c },
         place[c] \in { "begun", "reading" }, place[d] \in { "begun", "reading" }
  PROVE  Descriptor(c) # Descriptor(d)
<1>1. c # "shared" /\ d # "shared"
  BY ReadAssumption
<1>2. Alone(c) /\ Alone(d)
  BY DEF ReadInv, CallerInv
<1> QED
  BY <1>1, <1>2 DEF Alone, Descriptor

\* What is to be shown of a step of c, given that it touches no other's state.
LEMMA StepOf ==
  ASSUME ReadInv, NEW c \in Callers, Types', CallerInv(c)',
         \A d \in Callers \ { c } :
           /\ place'[d] = place[d] /\ file'[d] = file[d] /\ range'[d] = range[d]
           /\ buffer'[d] = buffer[d] /\ given'[d] = given[d]
           /\ holder = d => holder' = d
           /\ place[d] = "reading" => position'[Descriptor(d)] = position[Descriptor(d)]
  PROVE  ReadInv'
<1> SUFFICES ASSUME NEW d \in Callers \ { c } PROVE CallerInv(d)'
  BY DEF ReadInv
<1>1. CallerInv(d)
  BY DEF ReadInv
<1> QED
  BY <1>1, OthersStay

\* The reply is right if what is handed over is what there is.
LEMMA ReplyExact ==
  ASSUME Types, NEW c \in Callers, UNCHANGED << file, range >>,
         Replied(c, Bytes(First(c), Left(c)))
  PROVE  /\ Exact(c)'
         /\ given' \in [Callers -> Replies]
         /\ \A d \in Callers \ { c } : given'[d] = given[d]
<1> DEFINE data == Bytes(First(c), Left(c))
           short == (data = << >> /\ range[c].length > 0) \/ Len(data) < range[c].minimum
           answer == IF short THEN [status |-> "END_OF_FILE", data |-> << >>]
                     ELSE [status |-> "SUCCESS", data |-> data]
<1>1. data \in Seq(Nat) /\ Len(data) = Left(c) /\ Left(c) \in Nat
  BY Numbers, BytesSeq
<1>2. data = << >> <=> Left(c) = 0
  BY <1>1
<1>3. given' = [given EXCEPT ![c] = answer]
  BY DEF Replied
<1>4. short <=> (Left(c) = 0 /\ range[c].length > 0) \/ Left(c) < range[c].minimum
  BY <1>1, <1>2
<1>5. First(c)' = First(c) /\ Left(c)' = Left(c)
  BY DEF First, Left
<1> HIDE DEF data, short
<1>6. answer \in Replies
  BY <1>1, EmptySeq DEF Replies
<1>7. given'[c] = answer
  BY <1>3 DEF Types
<1>8. Exact(c)'
  <2>1. CASE short
    BY <2>1, <1>4, <1>5, <1>7 DEF Exact
  <2>2. CASE ~short
    <3>1. given'[c].status = "SUCCESS" /\ given'[c].data = Bytes(First(c), Left(c))
      BY <2>2, <1>7 DEF data
    <3> QED
      BY <2>2, <3>1, <1>4, <1>5 DEF Exact
  <2> QED
    BY <2>1, <2>2
<1>9. given' \in [Callers -> Replies]
  BY <1>3, <1>6 DEF Types
<1>10. \A d \in Callers \ { c } : given'[d] = given[d]
  BY <1>3 DEF Types
<1> QED
  BY <1>8, <1>9, <1>10

-----------------------------------------------------------------------------
(* The steps of a READ.                                                     *)

LEMMA AskStep ==
  ASSUME ReadInv, NEW c \in Callers, NEW f \in Stored, NEW offset \in Offsets,
         NEW length \in ReadLengths, NEW minimum \in Minima, Ask(c, f, offset, length, minimum)
  PROVE  ReadInv'
<1> DEFINE asked == [offset |-> offset, minimum |-> minimum,
                     length |-> Smaller(length, MAX_READ_SIZE)]
           none == [status |-> "none", data |-> << >>]
<1>1. Types
  BY DEF ReadInv
<1>2. asked \in [offset : Nat, minimum : Nat, length : 0 .. MAX_READ_SIZE]
  <2>1. offset \in Nat /\ length \in Nat /\ minimum \in Nat /\ MAX_READ_SIZE \in Nat
    BY ReadAssumption
  <2> QED
    BY <2>1 DEF Smaller
<1>3. /\ place' = [place EXCEPT ![c] = "asked"] /\ file' = [file EXCEPT ![c] = f]
      /\ range' = [range EXCEPT ![c] = asked] /\ buffer' = [buffer EXCEPT ![c] = << >>]
      /\ given' = [given EXCEPT ![c] = none] /\ UNCHANGED << position, holder >>
  BY DEF Ask, Goes
<1>4. none \in Replies
  BY EmptySeq DEF Replies
<1> HIDE DEF asked
<1>5. Types'
  <2>1. Len(<< >>) <= MAX_READ_SIZE
    BY ReadAssumption
  <2> QED
    BY <1>1, <1>2, <1>3, <1>4, <2>1 DEF Types
<1>6. CallerInv(c)'
  BY <1>1, <1>3 DEF Types, CallerInv, Alone, ReadSoFar, Exact
<1>7. \A d \in Callers \ { c } :
        /\ place'[d] = place[d] /\ file'[d] = file[d] /\ range'[d] = range[d]
        /\ buffer'[d] = buffer[d] /\ given'[d] = given[d]
  BY <1>1, <1>3 DEF Types
<1> QED
  BY <1>3, <1>5, <1>6, <1>7, StepOf

\* Neither the end of the file nor what is in memory needs a descriptor.
LEMMA AtOnceStep ==
  ASSUME ReadInv, NEW c \in Callers, PastEnd(c) \/ Slice(c)
  PROVE  ReadInv'
<1>1. Types
  BY DEF ReadInv
<1>2. /\ place' = [place EXCEPT ![c] = "idle"]
      /\ UNCHANGED << file, range, buffer, position, holder >>
  BY DEF PastEnd, Slice, Goes
<1>3. Replied(c, Bytes(First(c), Left(c)))
  <2>1. CASE PastEnd(c)
    <3>1. Left(c) = 0
      BY <2>1, <1>1, LeftIs DEF PastEnd
    <3>2. Bytes(First(c), 0) = << >>
      BY DEF Bytes
    <3> QED
      BY <2>1, <3>1, <3>2 DEF PastEnd
  <2>2. CASE Slice(c)
    <3>1. file[c].at = 0 /\ file[c].end = file[c].size /\ range[c].offset < file[c].size
      BY <2>2, <1>1, Numbers, ReadAssumption DEF Slice
    <3>2. First(c) = range[c].offset /\ Left(c) = Wanted(c)
      BY <3>1, <1>1, Numbers DEF First, Left, Wanted, Smaller
    <3>3. Bytes(First(c), Left(c)) = [i \in 1 .. Wanted(c) |-> range[c].offset + i]
      BY <3>2 DEF Bytes
    <3> QED
      BY <2>2, <3>3 DEF Slice
  <2> QED
    BY <2>1, <2>2
<1>4. /\ Exact(c)'
      /\ given' \in [Callers -> Replies]
      /\ \A d \in Callers \ { c } : given'[d] = given[d]
  BY <1>1, <1>2, <1>3, ReplyExact
<1>5. Types'
  BY <1>1, <1>2, <1>4 DEF Types
<1>6. CallerInv(c)'
  BY <1>1, <1>2, <1>4 DEF Types, CallerInv, Alone, ReadSoFar
<1>7. \A d \in Callers \ { c } : place'[d] = place[d]
  BY <1>1, <1>2 DEF Types
<1> QED
  BY <1>2, <1>4, <1>5, <1>6, <1>7, StepOf

\* The mutex is taken only when nobody has it; a copy is opened for c alone.
LEMMA BeginStep == ASSUME ReadInv, NEW c \in Callers, Begin(c) PROVE ReadInv'
<1>1. Types /\ CallerInv(c) /\ Unheld \notin Callers /\ "shared" \notin Callers
  BY ReadAssumption DEF ReadInv
<1>2. /\ place[c] = "asked" /\ place' = [place EXCEPT ![c] = "begun"]
      /\ range[c].offset < file[c].size
      /\ UNCHANGED << file, range, buffer, given >>
  BY DEF Begin, Goes
<1>3. \/ /\ file[c].source = "tar" /\ holder = Unheld /\ holder' = c
         /\ UNCHANGED position
      \/ /\ file[c].source # "tar" /\ UNCHANGED holder
         /\ position' = [position EXCEPT ![c] = 0]
  BY DEF Begin
<1>4. Types'
  <2>1. position' \in [Callers \cup { "shared" } -> Nat] /\ holder' \in Callers \cup { Unheld }
    BY <1>1, <1>3 DEF Types
  <2> QED
    BY <1>1, <1>2, <2>1 DEF Types
<1>5. CallerInv(c)'
  <2>1. place'[c] = "begun"
    BY <1>1, <1>2 DEF Types
  <2>2. Alone(c)'
    BY <1>2, <1>3, <2>1 DEF Alone
  <2>3. ReadSoFar(c)'
    BY <1>1, <1>2, <2>1 DEF CallerInv, ReadSoFar
  <2>4. First(c)' = First(c) /\ Left(c)' = Left(c)
    BY <1>2 DEF First, Left
  <2>5. Exact(c)'
    BY <1>1, <1>2, <2>4 DEF CallerInv, Exact
  <2> QED
    BY <2>2, <2>3, <2>5 DEF CallerInv
<1>6. ASSUME NEW d \in Callers \ { c }
      PROVE  /\ place'[d] = place[d] /\ (holder = d => holder' = d)
             /\ position'[Descriptor(d)] = position[Descriptor(d)]
  <2>1. Descriptor(d) # c /\ Descriptor(d) \in Callers \cup { "shared" }
    BY <1>1 DEF Descriptor
  <2> QED
    BY <1>1, <1>2, <1>3, <2>1 DEF Types
<1> QED
  BY <1>2, <1>4, <1>5, <1>6, StepOf

LEMMA SeekStep == ASSUME ReadInv, NEW c \in Callers, Seek(c) PROVE ReadInv'
<1>1. Types /\ CallerInv(c)
  BY DEF ReadInv
<1>2. /\ place[c] = "begun" /\ place' = [place EXCEPT ![c] = "reading"]
      /\ position' = [position EXCEPT ![Descriptor(c)] = First(c)]
      /\ UNCHANGED << file, range, buffer, holder, given >>
  BY DEF Seek, Goes, First
<1>3. Descriptor(c) \in Callers \cup { "shared" } /\ First(c) \in Nat
  BY <1>1, Numbers
<1>4. Types'
  BY <1>1, <1>2, <1>3 DEF Types
<1>5. CallerInv(c)'
  <2>1. place'[c] = "reading" /\ position'[Descriptor(c)] = First(c)
    BY <1>1, <1>2, <1>3 DEF Types
  <2>2. /\ First(c)' = First(c) /\ Left(c)' = Left(c) /\ Wanted(c)' = Wanted(c)
        /\ Descriptor(c)' = Descriptor(c)
    BY <1>2 DEF First, Left, Wanted, Descriptor
  <2>3. Alone(c)'
    BY <1>1, <1>2 DEF CallerInv, Alone
  <2>4. buffer[c] = Bytes(First(c), 0) /\ 0 \in 0 .. Wanted(c)
    <3>1. buffer[c] = << >> /\ range[c].offset < file[c].size
      BY <1>1, <1>2 DEF CallerInv, Alone, ReadSoFar
    <3>2. Wanted(c) \in Nat
      BY <1>1, <3>1, Numbers DEF Wanted, Smaller
    <3>3. Bytes(First(c), 0) = << >>
      BY DEF Bytes
    <3> QED
      BY <3>1, <3>2, <3>3
  <2>5. ReadSoFar(c)'
    <3>1. (position[Descriptor(c)])' = First(c) + 0
      BY <1>3, <2>1, <2>2
    <3>2. buffer'[c] = Bytes(First(c)', 0)
      BY <1>2, <2>2, <2>4
    <3> QED
      BY <2>1, <2>2, <2>4, <3>1, <3>2 DEF ReadSoFar
  <2>6. Exact(c)'
    BY <1>1, <1>2, <2>2 DEF CallerInv, Exact
  <2> QED
    BY <2>3, <2>5, <2>6 DEF CallerInv
<1>6. ASSUME NEW d \in Callers \ { c }
      PROVE  /\ place'[d] = place[d]
             /\ place[d] = "reading" => position'[Descriptor(d)] = position[Descriptor(d)]
  <2>1. Descriptor(d) \in Callers \cup { "shared" }
    BY DEF Descriptor
  <2>2. place[d] = "reading" => Descriptor(c) # Descriptor(d)
    BY <1>2, Apart
  <2> QED
    BY <1>1, <1>2, <2>1, <2>2 DEF Types
<1> QED
  BY <1>2, <1>4, <1>5, <1>6, StepOf

\* However few bytes come back, they are the next ones.
LEMMA ReadSomeStep == ASSUME ReadInv, NEW c \in Callers, ReadSome(c) PROVE ReadInv'
<1> DEFINE d0 == Descriptor(c)
<1>1. Types /\ CallerInv(c)
  BY DEF ReadInv
<1>2. /\ place[c] = "reading" /\ ~AtEnd(c)
      /\ UNCHANGED << place, file, range, holder, given >>
  BY DEF ReadSome
<1>3. PICK n \in 1 .. Smaller(Wanted(c) - Len(buffer[c]), file[c].end - position[d0]) :
        /\ buffer' = [buffer EXCEPT ![c] = @ \o [i \in 1 .. n |-> position[d0] + i]]
        /\ position' = [position EXCEPT ![d0] = @ + n]
  BY DEF ReadSome
<1>4. PICK m \in 0 .. Wanted(c) : /\ buffer[c] = Bytes(First(c), m)
                                  /\ position[d0] = First(c) + m
                                  /\ m = 0 \/ First(c) + m <= file[c].end
  BY <1>1, <1>2 DEF CallerInv, ReadSoFar
<1>5. /\ First(c) \in Nat /\ file[c].end \in Nat /\ d0 \in Callers \cup { "shared" }
      /\ range[c].length \in Nat /\ range[c].length <= MAX_READ_SIZE /\ MAX_READ_SIZE \in Nat
  BY <1>1, Numbers
<1>6. Wanted(c) \in Nat /\ Wanted(c) <= MAX_READ_SIZE
  <2>1. range[c].offset < file[c].size
    BY <1>1, <1>2 DEF CallerInv, Alone
  <2> QED
    BY <1>1, <2>1, Numbers DEF Wanted, Smaller
<1>7. m \in Nat /\ Len(buffer[c]) = m
  BY <1>4, <1>5, <1>6, BytesSeq
<1>8. n \in Nat /\ m + n <= Wanted(c) /\ First(c) + (m + n) <= file[c].end
  BY <1>3, <1>4, <1>5, <1>6, <1>7 DEF Smaller
<1>9. /\ buffer'[c] = Bytes(First(c), m + n)
      /\ position'[d0] = First(c) + (m + n)
  <2>1. [i \in 1 .. n |-> position[d0] + i] = Bytes(First(c) + m, n)
    BY <1>4 DEF Bytes
  <2>2. buffer'[c] = Bytes(First(c), m) \o Bytes(First(c) + m, n)
    BY <1>1, <1>3, <1>4, <2>1 DEF Types
  <2>3. position'[d0] = position[d0] + n
    BY <1>1, <1>3, <1>5 DEF Types
  <2>4. First(c) \in Nat /\ m \in Nat /\ n \in Nat
    BY <1>5, <1>7, <1>8
  <2>5. Bytes(First(c), m) \o Bytes(First(c) + m, n) = Bytes(First(c), m + n)
    BY <2>4, BytesConcat
  <2>6. position[d0] + n = First(c) + (m + n)
    BY <1>4, <2>4
  <2> QED
    BY <2>2, <2>3, <2>5, <2>6
<1>10. \A d \in Callers \ { c } : buffer'[d] = buffer[d]
  BY <1>1, <1>3 DEF Types
<1>11. Types'
  <2>1. m + n \in Nat
    BY <1>7, <1>8
  <2>2. buffer'[c] \in Seq(Nat) /\ Len(buffer'[c]) <= MAX_READ_SIZE
    BY <1>5, <1>6, <1>7, <1>8, <1>9, <2>1, BytesSeq
  <2>3. buffer' \in [Callers -> Seq(Nat)]
    BY <1>1, <1>3, <2>2, <1>10 DEF Types
  <2>4. \A d \in Callers : Len(buffer'[d]) <= MAX_READ_SIZE
    BY <1>1, <2>2, <1>10 DEF Types
  <2>5. position' \in [Callers \cup { "shared" } -> Nat]
    <3>1. position \in [Callers \cup { "shared" } -> Nat]
      BY <1>1 DEF Types
    <3>2. position' = [position EXCEPT ![d0] = position[d0] + n]
      BY <1>3
    <3>3. d0 \in Callers \cup { "shared" } /\ n \in Nat
      BY <1>5, <1>8
    <3> HIDE DEF d0
    <3>4. position[d0] + n \in Nat
      BY <3>1, <3>3
    <3> QED
      BY <3>1, <3>2, <3>3, <3>4
  <2> QED
    BY <1>1, <1>2, <2>3, <2>4, <2>5 DEF Types
<1>12. CallerInv(c)'
  <2>1. /\ First(c)' = First(c) /\ Left(c)' = Left(c) /\ Wanted(c)' = Wanted(c)
        /\ Descriptor(c)' = Descriptor(c)
    BY <1>2 DEF First, Left, Wanted, Descriptor
  <2>2. Alone(c)' /\ Exact(c)'
    BY <1>1, <1>2, <2>1 DEF CallerInv, Alone, Exact
  <2>3. ReadSoFar(c)'
    <3>1. m + n \in 0 .. Wanted(c)
      BY <1>6, <1>7, <1>8
    <3>2. (position[Descriptor(c)])' = First(c) + (m + n)
      BY <1>9, <2>1
    <3>3. place'[c] = "reading" /\ file'[c] = file[c]
      BY <1>2
    <3> QED
      BY <1>8, <1>9, <2>1, <3>1, <3>2, <3>3 DEF ReadSoFar
  <2> QED
    BY <2>2, <2>3 DEF CallerInv
<1>13. ASSUME NEW d \in Callers \ { c }, place[d] = "reading"
       PROVE  position'[Descriptor(d)] = position[Descriptor(d)]
  <2>1. Descriptor(d) \in Callers \cup { "shared" }
    BY DEF Descriptor
  <2>2. Descriptor(c) # Descriptor(d)
    BY <1>2, <1>13, Apart
  <2> QED
    BY <1>1, <1>3, <2>1, <2>2 DEF Types
<1> QED
  BY <1>2, <1>10, <1>11, <1>12, <1>13, StepOf

\* c gives up its descriptor, which is no other's.
LEMMA LetGoOthers ==
  ASSUME ReadInv, NEW c \in Callers, LetGo(c)
  PROVE  /\ holder' \in Callers \cup { Unheld }
         /\ position' \in [Callers \cup { "shared" } -> Nat]
         /\ \A d \in Callers \ { c } :
              /\ holder = d => holder' = d
              /\ position'[Descriptor(d)] = position[Descriptor(d)]
<1>1. Types /\ "shared" \notin Callers
  BY ReadAssumption DEF ReadInv
<1>2. \A d \in Callers \ { c } : /\ Descriptor(d) # c
                                /\ Descriptor(d) \in Callers \cup { "shared" }
  BY <1>1 DEF Descriptor
<1> QED
  BY <1>1, <1>2 DEF LetGo, Types

\* The buffer is full, or the source is at its end: it holds all there is.
LEMMA ReadDoneStep == ASSUME ReadInv, NEW c \in Callers, ReadDone(c) PROVE ReadInv'
<1>1. Types /\ CallerInv(c)
  BY DEF ReadInv
<1>2. /\ place[c] = "reading" /\ place' = [place EXCEPT ![c] = "idle"]
      /\ Full(c) \/ AtEnd(c)
      /\ Replied(c, buffer[c]) /\ LetGo(c) /\ UNCHANGED << file, range, buffer >>
  BY DEF ReadDone, Goes
<1>3. PICK n \in 0 .. Wanted(c) : /\ buffer[c] = Bytes(First(c), n)
                                  /\ position[Descriptor(c)] = First(c) + n
                                  /\ n = 0 \/ First(c) + n <= file[c].end
  BY <1>1, <1>2 DEF CallerInv, ReadSoFar
<1>4. n = Left(c)
  <2>1. range[c].offset < file[c].size
    BY <1>1, <1>2 DEF CallerInv, Alone
  <2>2. Wanted(c) \in Nat
    BY <1>1, <2>1, Numbers DEF Wanted, Smaller
  <2>3. n \in Nat /\ First(c) \in Nat /\ Len(buffer[c]) = n
    BY <1>1, <1>3, <2>2, Numbers, BytesSeq
  <2>4. n = Wanted(c) \/ First(c) + n >= file[c].end
    BY <1>2, <1>3, <2>3 DEF Full, AtEnd
  <2> QED
    BY <1>1, <1>3, <2>1, <2>4, LeftIs
<1>5. /\ Exact(c)'
      /\ given' \in [Callers -> Replies]
      /\ \A d \in Callers \ { c } : given'[d] = given[d]
  BY <1>1, <1>2, <1>3, <1>4, ReplyExact
<1>6. /\ holder' \in Callers \cup { Unheld }
      /\ position' \in [Callers \cup { "shared" } -> Nat]
      /\ \A d \in Callers \ { c } :
           /\ holder = d => holder' = d
           /\ position'[Descriptor(d)] = position[Descriptor(d)]
  BY <1>2, LetGoOthers
<1>7. Types'
  BY <1>1, <1>2, <1>5, <1>6 DEF Types
<1>8. CallerInv(c)'
  BY <1>1, <1>2, <1>5 DEF Types, CallerInv, Alone, ReadSoFar
<1>9. \A d \in Callers \ { c } : place'[d] = place[d]
  BY <1>1, <1>2 DEF Types
<1> QED
  BY <1>2, <1>5, <1>6, <1>7, <1>8, <1>9, StepOf

LEMMA ReadFailsStep == ASSUME ReadInv, NEW c \in Callers, ReadFails(c) PROVE ReadInv'
<1> DEFINE error == [status |-> "UNEXPECTED_IO_ERROR", data |-> << >>]
<1>1. Types
  BY DEF ReadInv
<1>2. /\ place' = [place EXCEPT ![c] = "idle"] /\ given' = [given EXCEPT ![c] = error]
      /\ LetGo(c) /\ UNCHANGED << file, range, buffer >>
  BY DEF ReadFails
<1>3. error \in Replies
  BY EmptySeq DEF Replies
<1>4. /\ holder' \in Callers \cup { Unheld }
      /\ position' \in [Callers \cup { "shared" } -> Nat]
      /\ \A d \in Callers \ { c } :
           /\ holder = d => holder' = d
           /\ position'[Descriptor(d)] = position[Descriptor(d)]
  BY <1>2, LetGoOthers
<1>5. Types'
  BY <1>1, <1>2, <1>3, <1>4 DEF Types
<1>6. CallerInv(c)'
  BY <1>1, <1>2 DEF Types, CallerInv, Alone, ReadSoFar, Exact
<1>7. \A d \in Callers \ { c } : place'[d] = place[d] /\ given'[d] = given[d]
  BY <1>1, <1>2 DEF Types
<1> QED
  BY <1>2, <1>4, <1>5, <1>6, <1>7, StepOf

-----------------------------------------------------------------------------
(* The theorems.                                                            *)

LEMMA InitReadInv == ReadInit => ReadInv
<1> SUFFICES ASSUME ReadInit PROVE ReadInv
  OBVIOUS
<1>1. Types
  <2>1. /\ [offset |-> 0, minimum |-> 0, length |-> 0] \in
             [offset : Nat, minimum : Nat, length : 0 .. MAX_READ_SIZE]
        /\ [status |-> "none", data |-> << >>] \in Replies
        /\ Len(<< >>) <= MAX_READ_SIZE
    BY ReadAssumption, EmptySeq DEF Replies
  <2> QED
    BY <2>1 DEF ReadInit, Types
<1>2. \A c \in Callers : CallerInv(c)
  BY DEF ReadInit, CallerInv, Alone, ReadSoFar, Exact
<1> QED
  BY <1>1, <1>2 DEF ReadInv

LEMMA ReadInvStep == ReadInv /\ [ReadNext]_readVars => ReadInv'
<1> SUFFICES ASSUME ReadInv, [ReadNext]_readVars PROVE ReadInv'
  OBVIOUS
<1>1. CASE UNCHANGED readVars
  <2>1. Types'
    BY <1>1 DEF readVars, ReadInv, Types
  <2>2. ASSUME NEW d \in Callers PROVE CallerInv(d)'
    <3>1. CallerInv(d)
      BY DEF ReadInv
    <3> QED
      BY <1>1, <3>1, OthersStay DEF readVars
  <2> QED
    BY <2>1, <2>2 DEF ReadInv
<1>2. CASE ReadNext
  BY <1>2, AskStep, AtOnceStep, BeginStep, SeekStep, ReadSomeStep, ReadDoneStep, ReadFailsStep
     DEF ReadNext
<1> QED
  BY <1>1, <1>2

\* Mutex and descriptors: whoever reads the archive stands where its own bytes
\* are, for any number of connections, files and short reads.
THEOREM ReadInvariance == ReadSpec => []ReadInv
  BY InitReadInv, ReadInvStep, PTL DEF ReadSpec

\* READ answers with exactly the bytes of the file and range asked for, fewer
\* only at an end, for any callers, files, offsets, lengths and minima.
THEOREM ReadsAreExact == ReadSpec => []ReadsExact
<1>1. Types => ReadTypeOK
  BY Numbers DEF Types, ReadTypeOK
<1>2. ReadInv => ReadsExact
  BY <1>1 DEF ReadInv, CallerInv, Exact, ReadsExact, Left, First, Bytes
<1> QED
  BY <1>2, ReadInvariance, PTL

-----------------------------------------------------------------------------
(* Glob: where a character leads.                                          *)

IsLoop(c) == c \in {"*", "<"}

\* From place j of a name on, the rest of a pattern behind i leads to the end.
Ends(p, n, i, j) ==
  \E path \in [i .. Len(p) -> 0 .. Len(n)] :
    /\ path[i] = j /\ path[Len(p)] = Len(n)
    /\ \A m \in i + 1 .. Len(p) : path[m] \in Leads(p[m], n, path[m - 1])

LEMMA MeansEnds ==
  ASSUME NEW p, NEW n, Len(p) \in Nat, p # << >>
  PROVE  Means(p, n) <=> Ends(p, n, 0, 0)
<1>1. 0 + 1 = 1
  OBVIOUS
<1> QED
  BY <1>1, Zenon DEF Means, Ends

LEMMA EndsAtEnd ==
  ASSUME NEW p, NEW n, Len(p) \in Nat, Len(n) \in Nat, NEW j \in 0 .. Len(n)
  PROVE  Ends(p, n, Len(p), j) <=> j = Len(n)
<1>1. ASSUME Ends(p, n, Len(p), j) PROVE j = Len(n)
  BY <1>1 DEF Ends
<1>2. ASSUME j = Len(n) PROVE Ends(p, n, Len(p), j)
  <2> DEFINE path == [m \in Len(p) .. Len(p) |-> j]
  <2>1. path \in [Len(p) .. Len(p) -> 0 .. Len(n)] /\ path[Len(p)] = j
    OBVIOUS
  <2>2. \A m \in Len(p) + 1 .. Len(p) : FALSE
    OBVIOUS
  <2> QED
    BY <1>2, <2>1, <2>2, Zenon DEF Ends
<1> QED
  BY <1>1, <1>2

\* The first of the characters, and the rest of them.
LEMMA EndsFirst ==
  ASSUME NEW p, NEW n, Len(p) \in Nat, Len(n) \in Nat,
         NEW i \in Nat, i < Len(p), NEW j \in 0 .. Len(n)
  PROVE  Ends(p, n, i, j) <=>
           \E k \in Leads(p[i + 1], n, j) : k \in 0 .. Len(n) /\ Ends(p, n, i + 1, k)
<1> DEFINE P == Len(p)
           N == Len(n)
           L(m, x) == Leads(p[m], n, x)
<1>0. P \in Nat /\ N \in Nat /\ i < P
  OBVIOUS
<1> HIDE DEF P, N, L
<1>1. ASSUME Ends(p, n, i, j)
      PROVE  \E k \in L(i + 1, j) : k \in 0 .. N /\ Ends(p, n, i + 1, k)
  <2>1. PICK path \in [i .. P -> 0 .. N] :
          /\ path[i] = j /\ path[P] = N
          /\ \A m \in i + 1 .. P : path[m] \in L(m, path[m - 1])
    BY <1>1, Zenon DEF Ends, P, N, L
  <2> DEFINE k == path[i + 1]
             rest == [m \in i + 1 .. P |-> path[m]]
  <2>2. i + 1 \in i + 1 .. P /\ (i + 1) - 1 = i /\ i + 1 \in i .. P /\ P \in i + 1 .. P
    BY <1>0
  <2>3. k \in L(i + 1, j) /\ k \in 0 .. N
    BY <2>1, <2>2
  <2>4. rest \in [i + 1 .. P -> 0 .. N] /\ rest[i + 1] = k /\ rest[P] = N
    <3>1. i + 1 .. P \subseteq i .. P
      BY <1>0
    <3> QED
      BY <2>1, <2>2, <3>1
  <2>5. ASSUME NEW m \in (i + 1) + 1 .. P PROVE rest[m] \in L(m, rest[m - 1])
    <3>1. m \in i + 1 .. P /\ m - 1 \in i + 1 .. P
      BY <1>0
    <3>2. rest[m] = path[m] /\ rest[m - 1] = path[m - 1]
      BY <3>1
    <3> QED
      BY <2>1, <3>1, <3>2
  <2> HIDE DEF k, rest
  <2>6. Ends(p, n, i + 1, k)
    BY <2>4, <2>5, Zenon DEF Ends, P, N, L
  <2> QED
    BY <2>3, <2>6
<1>2. ASSUME NEW k \in L(i + 1, j), k \in 0 .. N, Ends(p, n, i + 1, k)
      PROVE  Ends(p, n, i, j)
  <2>1. PICK rest \in [i + 1 .. P -> 0 .. N] :
          /\ rest[i + 1] = k /\ rest[P] = N
          /\ \A m \in (i + 1) + 1 .. P : rest[m] \in L(m, rest[m - 1])
    BY <1>2, Zenon DEF Ends, P, N, L
  <2> DEFINE path == [m \in i .. P |-> IF m = i THEN j ELSE rest[m]]
  <2>2. \A m \in i .. P : m # i => m \in i + 1 .. P
    BY <1>0
  <2>3. P \in i .. P /\ P # i /\ i \in i .. P
    BY <1>0
  <2>4. path \in [i .. P -> 0 .. N] /\ path[i] = j /\ path[P] = N
    <3>1. j \in 0 .. N
      BY DEF N
    <3> QED
      BY <2>1, <2>2, <2>3, <3>1
  <2>5. ASSUME NEW m \in i + 1 .. P PROVE path[m] \in L(m, path[m - 1])
    <3>1. m \in i .. P /\ m # i /\ m - 1 \in i .. P
      BY <1>0
    <3>2. path[m] = rest[m] /\ path[m - 1] = IF m - 1 = i THEN j ELSE rest[m - 1]
      BY <3>1
    <3>3. CASE m = i + 1
      <4>1. m - 1 = i
        BY <1>0, <3>3
      <4> QED
        BY <1>2, <2>1, <3>2, <3>3, <4>1
    <3>4. CASE m # i + 1
      <4>1. m \in (i + 1) + 1 .. P /\ m - 1 # i
        BY <1>0, <3>4
      <4> QED
        BY <2>1, <3>2, <4>1
    <3> QED
      BY <3>3, <3>4
  <2> HIDE DEF path
  <2> QED
    BY <2>4, <2>5, Zenon DEF Ends, P, N, L
<1> QED
  BY <1>1, <1>2 DEF L, N

\* What `<` may take ends behind the last dot, or at the end.
LastOr(dots, N) == IF dots = {} THEN N ELSE CHOOSE d \in dots : \A e \in dots : e <= d

LEMMA IntervalCut ==
  ASSUME NEW N \in Nat, NEW j \in 0 .. N, NEW u \in j .. N
  PROVE  j .. u = {k \in j .. N : k <= u}
OBVIOUS

LEMMA LastOfDots ==
  ASSUME NEW N \in Nat, NEW j \in 0 .. N, NEW dots \in SUBSET (j + 1 .. N)
  PROVE  /\ LastOr(dots, N) \in j .. N
         /\ {k \in j .. N : dots = {} \/ \E d \in dots : k <= d} = j .. LastOr(dots, N)
<1> DEFINE until == LastOr(dots, N)
<1>0. until = IF dots = {} THEN N ELSE CHOOSE d \in dots : \A e \in dots : e <= d
  BY DEF LastOr
<1> HIDE DEF until
<1>1. CASE dots = {}
  BY <1>0, <1>1 DEF until
<1>2. CASE dots # {}
  <2>1. \E d \in dots : \A e \in dots : e <= d
    <3>1. dots \in SUBSET (0 .. N)
      OBVIOUS
    <3>2. \E d \in dots : \A e \in dots : d >= e
      BY <1>2, <3>1, GreatestOf
    <3> QED
      BY <3>1, <3>2
  <2>2. until \in dots /\ \A e \in dots : e <= until
    BY <1>0, <1>2, <2>1
  <2>3. until \in j + 1 .. N
    BY <2>2
  <2>4. ASSUME NEW k \in j .. N, NEW d \in dots, k <= d PROVE k <= until
    <3>1. d \in Int /\ d <= until
      BY <2>2
    <3> QED
      BY <2>3, <2>4, <3>1
  <2>5. \A k \in j .. N : k <= until => \E d \in dots : k <= d
    BY <2>2
  <2>6. j .. until = {k \in j .. N : k <= until}
    <3>1. until \in j .. N
      BY <2>3
    <3> QED
      BY <3>1, IntervalCut
  <2>7. {k \in j .. N : \E d \in dots : k <= d} = {k \in j .. N : k <= until}
    BY <2>4, <2>5, Zenon
  <2>8. until \in j .. N
    BY <2>3
  <2> QED
    BY <1>2, <2>6, <2>7, <2>8, Zenon DEF until
<1> QED
  BY <1>1, <1>2

\* What a call does with a character of the pattern is where the character leads.
LEMMA CharacterIs ==
  ASSUME NEW c, Len(name) \in Nat, at_name \in 0 .. Len(name), Character(c)
  PROVE  \/ /\ IsLoop(c)
            /\ \E until \in at_name .. Len(name) :
                 Try(until) /\ Leads(c, name, at_name) = at_name .. until
         \/ /\ ~IsLoop(c)
            /\ \/ /\ \E k \in 0 .. Len(name) : Rest(k) /\ Leads(c, name, at_name) = {k}
               \/ ReturnFalse /\ Leads(c, name, at_name) = {}
<1> DEFINE ended == at_name = Len(name)
           dot   == ~ended /\ name[at_name + 1] = "."
           same  == Fold[c] = Fold[name[at_name + 1]]
<1>1. /\ at_name \in 0 .. Len(name) /\ (~ended => at_name + 1 \in 0 .. Len(name))
      /\ Len(name) \in at_name .. Len(name)
  OBVIOUS
<1>2. CASE c = "*"
  <2>1. Try(Len(name)) /\ Leads(c, name, at_name) = at_name .. Len(name)
    BY <1>2, Zenon DEF Character, Leads
  <2> QED
    BY <1>1, <1>2, <2>1, Zenon DEF IsLoop
<1>3. CASE c = "<"
  <2>1. c # "*"
    BY <1>3
  <2>2. /\ Try(PastLastDot)
        /\ Leads(c, name, at_name) =
             {k \in at_name .. Len(name) : \/ Dots(name, at_name) = {}
                                          \/ \E d \in Dots(name, at_name) : k <= d}
    BY <1>3, <2>1, Zenon DEF Character, Leads
  <2>3. Dots(name, at_name) \in SUBSET (at_name + 1 .. Len(name))
    BY DEF Dots
  <2>4. /\ PastLastDot \in at_name .. Len(name)
        /\ {k \in at_name .. Len(name) : \/ Dots(name, at_name) = {}
                                         \/ \E d \in Dots(name, at_name) : k <= d}
             = at_name .. PastLastDot
    <3> DEFINE dots == Dots(name, at_name)
               N == Len(name)
    <3>1. PastLastDot = LastOr(dots, N)
      BY Zenon DEF PastLastDot, LastOr
    <3>2. dots \in SUBSET (at_name + 1 .. N) /\ N \in Nat /\ at_name \in 0 .. N
      BY <2>3
    <3> HIDE DEF dots, N
    <3>3. /\ PastLastDot \in at_name .. N
          /\ {k \in at_name .. N : dots = {} \/ \E d \in dots : k <= d}
               = at_name .. PastLastDot
      BY <3>1, <3>2, LastOfDots
    <3> QED
      BY <3>3, Zenon DEF dots, N
  <2> QED
    BY <1>3, <2>2, <2>4, Zenon DEF IsLoop
<1>4. CASE c \notin {"*", "<"}
  <2>0. ~IsLoop(c) /\ c # "*" /\ c # "<"
    BY <1>4 DEF IsLoop
  <2>1. CASE c = ">"
    <3>1. /\ Rest(IF ended \/ dot THEN at_name ELSE at_name + 1)
          /\ Leads(c, name, at_name) = {IF ended \/ dot THEN at_name ELSE at_name + 1}
      BY <2>0, <2>1, Zenon DEF Character, Leads
    <3> QED
      BY <1>1, <2>0, <3>1, Zenon
  <2>2. CASE c = "dot"
    <3>1. c # ">"
      BY <2>2
    <3>2. /\ IF ended THEN Rest(at_name) ELSE IF dot THEN Rest(at_name + 1) ELSE ReturnFalse
          /\ Leads(c, name, at_name) =
               IF ended THEN {at_name} ELSE {k \in {at_name + 1} : dot}
      BY <2>0, <2>2, <3>1, Zenon DEF Character, Leads
    <3> QED
      BY <1>1, <2>0, <3>2, Zenon
  <2>3. CASE c = "?"
    <3>1. c # ">" /\ c # "dot"
      BY <2>3
    <3>2. /\ IF ended THEN ReturnFalse ELSE Rest(at_name + 1)
          /\ Leads(c, name, at_name) = {k \in {at_name + 1} : ~ended}
      BY <2>0, <2>3, <3>1, Zenon DEF Character, Leads
    <3> QED
      BY <1>1, <2>0, <3>2, Zenon
  <2>4. CASE c \notin {">", "dot", "?"}
    <3>1. c # ">" /\ c # "dot" /\ c # "?"
      BY <2>4
    <3>2. /\ IF ~ended /\ same THEN Rest(at_name + 1) ELSE ReturnFalse
          /\ Leads(c, name, at_name) =
               {k \in {at_name + 1} : ~ended /\ Fold[c] = Fold[name[k]]}
      BY <2>0, <3>1, Zenon DEF Character, Leads
    <3> QED
      BY <1>1, <2>0, <3>2, Zenon
  <2> QED
    BY <2>1, <2>2, <2>3, <2>4
<1> QED
  BY <1>2, <1>3, <1>4

-----------------------------------------------------------------------------
(* Glob: the inductive invariant.                                          *)

Called == matching = "call"
Back == matching = "back"
Failed == matching = "failed"
Matched == matching = "matched"

LoopType(P, N) == {l \in [pat : 1 .. P, at : 0 .. N, until : 0 .. N] : l.at <= l.until}

\* Types: no place is behind the end, and a loop that goes on is there.
GlobTypes ==
  /\ Len(pattern) \in Nat /\ Len(name) \in Nat /\ budget \in Nat
  /\ at_pattern \in 0 .. Len(pattern) /\ at_name \in 0 .. Len(name)
  /\ loops \in Seq(LoopType(Len(pattern), Len(name)))
  /\ Called \/ Back \/ Failed => pattern # << >>
  /\ Back => loops # << >>
  /\ matching = "idle" => loops = << >> /\ at_pattern = 0 /\ at_name = 0

Asked == Ends(pattern, name, 0, 0)
AtCall == Ends(pattern, name, at_pattern, at_name)

\* What a loop has tried last, or will try, leads to the end.
Leading(l, k) == Ends(pattern, name, l.pat, k)

\* Whatever a loop tries is part of a match of the whole.
LoopsAsked == \A d \in DOMAIN loops : \A k \in loops[d].at .. loops[d].until :
                Leading(loops[d], k) => Asked

\* Whatever is tried is part of a match of the whole.
OnlyMatches ==
  /\ Matched => Means(pattern, name)
  /\ Called => (AtCall => Asked)
  /\ Called \/ Back => LoopsAsked

\* A loop is there that will find the match.
Waits == \E d \in DOMAIN loops : \E k \in loops[d].at + 1 .. loops[d].until :
           Leading(loops[d], k)

\* No more than one loop, and a budget the ceiling has not cut.
Few == Cardinality(Loops(pattern)) <= 1 /\ Pairs(pattern, name) <= CEILING

GaveUp == budget = 0 /\ ~Few

\* A match is found, is still ahead, or the budget is gone.
NoneMissed ==
  /\ Called /\ Asked => AtCall \/ Waits \/ GaveUp
  /\ Back /\ Asked => Waits \/ GaveUp
  /\ Failed /\ Asked /\ Len(pattern) <= MAX_PATTERN => GaveUp

\* The calls that were made.
Calls == match_budget(pattern, name) - budget

\* Before its first loop, glob_match has called itself once for every character.
NoLoopYet ==
  Calls = at_pattern /\ \A m \in 1 .. at_pattern : m \notin Loops(pattern)

\* The only loop there is.
OneLoop == Len(loops) = 1 /\ loops[1].pat \in Loops(pattern) /\ loops[1].pat <= at_pattern

\* For every place of its loop it has called itself on the rest of the pattern once.
CallsUpTo(calls) == Calls <= loops[1].at * (Len(pattern) + 1) + calls

CallsOfOne ==
  Few =>
    /\ Called /\ loops = << >> => NoLoopYet
    /\ (Called \/ Back) /\ loops # << >> => OneLoop
    /\ Called /\ loops # << >> => CallsUpTo(at_pattern)
    /\ Back /\ loops # << >> => CallsUpTo(Len(pattern) + 1)

GlobInv == GlobTypes /\ OnlyMatches /\ NoneMissed /\ CallsOfOne

-----------------------------------------------------------------------------
(* Glob: the steps.                                                        *)

Same == pattern' = pattern /\ name' = name
Here == at_pattern' = at_pattern /\ at_name' = at_name

NowCalled == Called' /\ ~Back' /\ ~Failed' /\ ~Matched' /\ matching' # "idle"
NowBack == Back' /\ ~Called' /\ ~Failed' /\ ~Matched' /\ matching' # "idle"
NowFailed == Failed' /\ ~Called' /\ ~Back' /\ ~Matched' /\ matching' # "idle"
NowMatched == Matched' /\ ~Called' /\ ~Failed' /\ ~Back' /\ matching' # "idle"

LEMMA Becomes ==
  /\ matching' = "call" => NowCalled
  /\ matching' = "back" => NowBack
  /\ matching' = "failed" => NowFailed
  /\ matching' = "matched" => NowMatched
  /\ Called => matching # "idle" /\ ~Back
  /\ Back => matching # "idle" /\ ~Called
BY DEF NowCalled, NowBack, NowFailed, NowMatched, Called, Back, Failed, Matched

Fails == /\ loops' = loops /\ Here
         /\ loops = << >> => NowFailed
         /\ loops # << >> => NowBack

OpensAt(until) ==
  /\ loops' = Append(loops, [pat |-> at_pattern + 1, at |-> at_name, until |-> until])
  /\ at_pattern' = at_pattern + 1 /\ at_name' = at_name
  /\ AtCall <=> \E k \in at_name .. until : Ends(pattern, name, at_pattern + 1, k)

\* A loop begins.
Opens == /\ at_pattern < Len(pattern) /\ at_pattern + 1 \in Loops(pattern)
         /\ NowCalled
         /\ \E until \in at_name .. Len(name) : OpensAt(until)

PassesTo(k) == /\ at_pattern' = at_pattern + 1 /\ at_name' = k
               /\ AtCall <=> Ends(pattern, name, at_pattern + 1, k)

\* A character that leads to one place is passed.
Passes == /\ at_pattern < Len(pattern) /\ at_pattern + 1 \notin Loops(pattern)
          /\ NowCalled /\ loops' = loops
          /\ \E k \in 0 .. Len(name) : PassesTo(k)

\* A character, with what it means for the match.
CharacterSteps == Opens \/ Passes \/ (Fails /\ ~AtCall)

LEMMA FalseIs == ReturnFalse => Fails
BY Becomes, Zenon DEF ReturnFalse, Fails, Here

LEMMA CharacterStepsAre ==
  ASSUME GlobTypes, at_pattern # Len(pattern), Character(pattern[at_pattern + 1])
  PROVE  CharacterSteps
<1> DEFINE c == pattern[at_pattern + 1]
           L == Leads(c, name, at_name)
<1>0. /\ Len(pattern) \in Nat /\ Len(name) \in Nat /\ at_pattern \in Nat
      /\ at_pattern < Len(pattern) /\ at_name \in 0 .. Len(name)
      /\ at_pattern + 1 \in 1 .. Len(pattern)
  BY DEF GlobTypes
<1>1. IsLoop(c) <=> at_pattern + 1 \in Loops(pattern)
  BY <1>0, Zenon DEF IsLoop, Loops
<1>2. AtCall <=> \E k \in L : k \in 0 .. Len(name) /\ Ends(pattern, name, at_pattern + 1, k)
  BY <1>0, EndsFirst DEF AtCall
<1>3. Character(c)
  OBVIOUS
<1> HIDE DEF c, L
<1>4. \/ /\ IsLoop(c)
         /\ \E until \in at_name .. Len(name) : Try(until) /\ L = at_name .. until
      \/ /\ ~IsLoop(c)
         /\ \/ \E k \in 0 .. Len(name) : Rest(k) /\ L = {k}
            \/ ReturnFalse /\ L = {}
  BY <1>0, <1>3, CharacterIs, Zenon DEF L
<1>5. ASSUME IsLoop(c), NEW until \in at_name .. Len(name), Try(until), L = at_name .. until
      PROVE  Opens
  <2>1. \A k \in at_name .. until : k \in 0 .. Len(name)
    BY <1>0
  <2>2. AtCall <=> \E k \in at_name .. until : Ends(pattern, name, at_pattern + 1, k)
    BY <1>2, <1>5, <2>1, Zenon
  <2>3. OpensAt(until) /\ NowCalled
    BY <1>5, <2>2, Becomes, Zenon DEF OpensAt, Try
  <2> QED
    BY <1>0, <1>1, <1>5, <2>3, Zenon DEF Opens
<1>6. ASSUME ~IsLoop(c), NEW k \in 0 .. Len(name), Rest(k), L = {k}
      PROVE  Passes
  <2>1. AtCall <=> Ends(pattern, name, at_pattern + 1, k)
    BY <1>2, <1>6, Zenon
  <2>2. PassesTo(k) /\ NowCalled /\ loops' = loops
    BY <1>6, <2>1, Becomes, Zenon DEF PassesTo, Rest
  <2> QED
    BY <1>0, <1>1, <1>6, <2>2, Zenon DEF Passes
<1>7. ASSUME ReturnFalse, L = {}
      PROVE  Fails /\ ~AtCall
  BY <1>2, <1>7, FalseIs, Zenon
<1> QED
  BY <1>4, <1>5, <1>6, <1>7, Zenon DEF CharacterSteps

\* A call, with what it means for the match.
LEMMA CallIs ==
  ASSUME GlobTypes, glob_match
  PROVE  /\ Called /\ Same
         /\ \/ budget = 0 /\ budget' = 0 /\ Fails
            \/ /\ budget # 0 /\ budget' = budget - 1
               /\ \/ NowMatched /\ AtCall /\ Here /\ loops' = loops
                  \/ CharacterSteps
<1>1. Called /\ Same
  BY Zenon DEF glob_match, Called, Same
<1>2. CASE budget = 0
  BY <1>1, <1>2, FalseIs, Zenon DEF glob_match
<1>3. CASE budget # 0
  <2>1. budget' = budget - 1
    BY <1>3, Zenon DEF glob_match
  <2>2. CASE at_pattern = Len(pattern)
    <3>1. PatternEnds
      BY <1>3, <2>2, Zenon DEF glob_match
    <3>2. AtCall <=> at_name = Len(name)
      BY <2>2, EndsAtEnd, Zenon DEF GlobTypes, AtCall
    <3>3. \/ NowMatched /\ AtCall /\ Here /\ loops' = loops
          \/ Fails /\ ~AtCall
      BY <3>1, <3>2, FalseIs, Becomes, Zenon DEF PatternEnds, Here
    <3> QED
      BY <1>1, <1>3, <2>1, <3>3, Zenon DEF CharacterSteps
  <2>3. CASE at_pattern # Len(pattern)
    <3>1. Character(pattern[at_pattern + 1])
      BY <1>3, <2>3, Zenon DEF glob_match
    <3> QED
      BY <1>1, <1>3, <2>1, <2>3, <3>1, CharacterStepsAre, Zenon
  <2> QED
    BY <2>2, <2>3
<1> QED
  BY <1>2, <1>3

\* The last loop.
Inner == loops[Len(loops)]

Resumes == /\ loops' = [loops EXCEPT ![Len(loops)].at = @ + 1]
           /\ at_pattern' = Inner.pat /\ at_name' = Inner.at + 1

Leaves == /\ loops' = SubSeq(loops, 1, Len(loops) - 1) /\ Here
          /\ Len(loops) = 1 => NowFailed
          /\ Len(loops) # 1 => NowBack

\* What GoOn does.
LEMMA GoOnIs ==
  ASSUME GoOn
  PROVE  /\ Back /\ Same /\ budget' = budget
         /\ \/ Inner.at # Inner.until /\ budget # 0 /\ NowCalled /\ Resumes
            \/ (Inner.at = Inner.until \/ budget = 0) /\ Leaves
<1>1. Last(loops) = Inner /\ Front(loops) = SubSeq(loops, 1, Len(loops) - 1)
  BY Zenon DEF Last, Front, Inner
<1>2. Back /\ Same /\ budget' = budget
  BY Zenon DEF GoOn, Back, Same
<1>3. CASE Inner.at # Inner.until /\ budget # 0
  <2>1. NowCalled /\ Resumes
    BY <1>1, <1>3, Becomes, Zenon DEF GoOn, Resumes
  <2> QED
    BY <1>2, <1>3, <2>1
<1>4. CASE Inner.at = Inner.until \/ budget = 0
  <2>1. Leaves
    BY <1>1, <1>4, Becomes, Zenon DEF GoOn, Leaves, Here
  <2> QED
    BY <1>2, <1>4, <2>1
<1> QED
  BY <1>2, <1>3, <1>4

\* One loop more, the innermost one place further, and one loop less.
LEMMA LoopsGrow ==
  ASSUME NEW T, NEW ls \in Seq(T), NEW l \in T, NEW more, more = Append(ls, l)
  PROVE  /\ more \in Seq(T) /\ Len(more) = Len(ls) + 1 /\ more # << >>
         /\ Len(ls) \in Nat /\ Len(ls) + 1 \in DOMAIN more /\ more[Len(ls) + 1] = l
         /\ \A d \in DOMAIN ls : d \in DOMAIN more /\ more[d] = ls[d]
         /\ \A d \in DOMAIN more : more[d] = l \/ (d \in DOMAIN ls /\ more[d] = ls[d])
<1>1. /\ more \in Seq(T) /\ Len(more) = Len(ls) + 1 /\ more[Len(ls) + 1] = l
      /\ \A d \in 1 .. Len(ls) : more[d] = ls[d]
  BY AppendProperties
<1>2. Len(ls) \in Nat /\ DOMAIN ls = 1 .. Len(ls) /\ DOMAIN more = 1 .. Len(more)
  BY <1>1, LenProperties
<1>3. more # << >>
  BY AppendProperties
<1> QED
  BY <1>1, <1>2, <1>3

LEMMA LoopsGoOn ==
  ASSUME NEW P \in Nat, NEW N \in Nat, NEW ls \in Seq(LoopType(P, N)), ls # << >>,
         ls[Len(ls)].at # ls[Len(ls)].until
  PROVE  LET on == [ls EXCEPT ![Len(ls)].at = @ + 1]
             l  == ls[Len(ls)]
         IN /\ on \in Seq(LoopType(P, N)) /\ Len(on) = Len(ls) /\ on # << >>
            /\ l \in LoopType(P, N) /\ l.at + 1 \in l.at + 1 .. l.until
            /\ l.at + 1 \in 0 .. N /\ l.pat \in 1 .. P
            /\ Len(ls) \in DOMAIN ls /\ DOMAIN on = DOMAIN ls
            /\ \A d \in DOMAIN ls : d # Len(ls) => on[d] = ls[d]
            /\ /\ on[Len(ls)].at = l.at + 1 /\ on[Len(ls)].until = l.until
               /\ on[Len(ls)].pat = l.pat
<1> DEFINE n == Len(ls)
           l == ls[n]
           on == [ls EXCEPT ![n].at = @ + 1]
           m == [l EXCEPT !.at = @ + 1]
<1>1. n \in Nat /\ DOMAIN ls = 1 .. n /\ n # 0
  BY LenProperties, EmptySeq
<1>2. n \in 1 .. n
  BY <1>1
<1>3. l \in LoopType(P, N)
  BY <1>1, <1>2
<1>4. /\ l \in [pat : 1 .. P, at : 0 .. N, until : 0 .. N]
      /\ l.at \in 0 .. N /\ l.until \in 0 .. N /\ l.at < l.until /\ l.pat \in 1 .. P
  BY <1>3 DEF LoopType
<1>5. /\ l.at + 1 \in l.at + 1 .. l.until /\ l.at + 1 \in 0 .. N
  BY <1>4
<1>6. /\ m \in [pat : 1 .. P, at : 0 .. N, until : 0 .. N]
      /\ m.at = l.at + 1 /\ m.until = l.until /\ m.pat = l.pat
  BY <1>4, <1>5
<1>7. m \in LoopType(P, N)
  BY <1>4, <1>6 DEF LoopType
<1>8. on = [ls EXCEPT ![n] = m]
  OBVIOUS
<1> HIDE DEF m, l
<1>9. /\ on \in Seq(LoopType(P, N)) /\ Len(on) = n /\ on[n] = m /\ DOMAIN on = DOMAIN ls
      /\ \A d \in DOMAIN ls : d # n => on[d] = ls[d]
  <2> HIDE DEF on, n
  <2>1. [ls EXCEPT ![n] = m] \in Seq(LoopType(P, N)) /\ Len([ls EXCEPT ![n] = m]) = Len(ls)
    BY <1>1, <1>2, <1>7, ExceptSeq
  <2>2. /\ [ls EXCEPT ![n] = m][n] = m /\ DOMAIN [ls EXCEPT ![n] = m] = DOMAIN ls
        /\ \A d \in DOMAIN ls : d # n => [ls EXCEPT ![n] = m][d] = ls[d]
    BY <1>1, <1>2
  <2> QED
    BY <1>8, <2>1, <2>2 DEF n
<1>10. on # << >>
  BY <1>1, <1>9, EmptySeq
<1> QED
  BY <1>1, <1>2, <1>3, <1>4, <1>5, <1>6, <1>9, <1>10 DEF l

LEMMA LoopsEnd ==
  ASSUME NEW T, NEW ls \in Seq(T), ls # << >>
  PROVE  LET rest == SubSeq(ls, 1, Len(ls) - 1)
         IN /\ rest \in Seq(T) /\ Len(rest) = Len(ls) - 1 /\ Len(ls) \in Nat
            /\ Len(ls) \in DOMAIN ls
            /\ \A d \in DOMAIN rest : d \in DOMAIN ls /\ rest[d] = ls[d]
            /\ \A d \in DOMAIN ls : d # Len(ls) => d \in DOMAIN rest
            /\ Len(ls) # 1 => rest # << >>
<1> DEFINE n == Len(ls)
           rest == SubSeq(ls, 1, n - 1)
<1>1. n \in Nat /\ DOMAIN ls = 1 .. n /\ n # 0
  BY LenProperties, EmptySeq
<1>2. /\ rest \in Seq(T) /\ Len(rest) = n - 1
      /\ \A d \in 1 .. n - 1 : rest[d] = ls[d]
  <2>1. \A i \in 1 .. n - 1 : i \in 1 .. n
    BY <1>1
  <2> QED
    BY <1>1, <2>1, SubSeqProperties
<1>3. DOMAIN rest = 1 .. n - 1
  BY <1>1, <1>2, LenProperties
<1> HIDE DEF rest
<1>4. n # 1 => rest # << >>
  <2>1. Len(<< >>) = 0
    BY EmptySeq
  <2> QED
    BY <1>1, <1>2, <2>1
<1> QED
  BY <1>1, <1>2, <1>3, <1>4 DEF rest

-----------------------------------------------------------------------------
(* Glob: nothing but matches is tried.                                     *)

\* Places that the pattern and the name of a step share.
LEMMA SameMeaning ==
  ASSUME Same
  PROVE  /\ Asked' <=> Asked
         /\ AtCall' <=> Ends(pattern, name, at_pattern', at_name')
         /\ Few' <=> Few
         /\ \A i, k : Ends(pattern', name', i, k) <=> Ends(pattern, name, i, k)
         /\ Means(pattern', name') <=> Means(pattern, name)
         /\ Loops(pattern') = Loops(pattern)
         /\ Len(pattern') = Len(pattern) /\ Len(name') = Len(name)
         /\ match_budget(pattern', name') = match_budget(pattern, name)
BY Zenon DEF Same, Asked, AtCall, Few

LEMMA LoopsAskedGrow ==
  ASSUME NEW T, loops \in Seq(T), NEW l \in T, loops' = Append(loops, l), Same,
         LoopsAsked, \A k \in l.at .. l.until : Ends(pattern, name, l.pat, k) => Asked
  PROVE  LoopsAsked'
<1>1. ASSUME NEW d \in DOMAIN loops', NEW k \in loops'[d].at .. loops'[d].until,
             Ends(pattern', name', loops'[d].pat, k)
      PROVE  Asked'
  <2>1. Ends(pattern, name, loops'[d].pat, k) /\ (Asked' <=> Asked)
    BY <1>1, SameMeaning, Zenon
  <2>2. loops'[d] = l \/ (d \in DOMAIN loops /\ loops'[d] = loops[d])
    BY LoopsGrow
  <2> QED
    BY <1>1, <2>1, <2>2, Zenon DEF LoopsAsked, Leading
<1> QED
  BY <1>1, Zenon DEF LoopsAsked, Leading

LEMMA LoopsAskedStay ==
  ASSUME Same, LoopsAsked,
         \A d \in DOMAIN loops' :
           /\ d \in DOMAIN loops /\ loops'[d].pat = loops[d].pat
           /\ loops'[d].at .. loops'[d].until \subseteq loops[d].at .. loops[d].until
  PROVE  LoopsAsked'
<1>1. ASSUME NEW d \in DOMAIN loops', NEW k \in loops'[d].at .. loops'[d].until,
             Ends(pattern', name', loops'[d].pat, k)
      PROVE  Asked'
  <2>1. Ends(pattern, name, loops[d].pat, k) /\ (Asked' <=> Asked)
    BY <1>1, SameMeaning, Zenon
  <2> QED
    BY <1>1, <2>1, Zenon DEF LoopsAsked, Leading
<1> QED
  BY <1>1, Zenon DEF LoopsAsked, Leading

\* The loops of a state, and the new one.
LEMMA NewLoopType ==
  ASSUME GlobTypes, at_pattern < Len(pattern), NEW until \in at_name .. Len(name)
  PROVE  LET l == [pat |-> at_pattern + 1, at |-> at_name, until |-> until]
         IN /\ l \in LoopType(Len(pattern), Len(name))
            /\ l.pat = at_pattern + 1 /\ l.at = at_name /\ l.until = until
            /\ at_pattern + 1 \in 0 .. Len(pattern)
            /\ l.at \in l.at .. l.until
            /\ \A k \in l.at .. l.until : k = l.at \/ k \in l.at + 1 .. l.until
            /\ l.at + 1 .. l.until \subseteq l.at .. l.until
<1> DEFINE P == Len(pattern)
           N == Len(name)
<1>1. P \in Nat /\ N \in Nat /\ at_pattern \in 0 .. P /\ at_name \in 0 .. N /\ at_pattern < P
  BY DEF GlobTypes
<1>2. until \in at_name .. N
  OBVIOUS
<1> HIDE DEF P, N
<1> QED
  BY ONLY <1>1, <1>2 DEF LoopType, P, N

LEMMA CharacterOnlyMatches ==
  ASSUME GlobTypes, OnlyMatches, Called, Same, CharacterSteps
  PROVE  OnlyMatches'
<1>1. (AtCall => Asked) /\ LoopsAsked /\ loops \in Seq(LoopType(Len(pattern), Len(name)))
  BY Zenon DEF OnlyMatches, GlobTypes
<1>2. CASE Opens
  <2>1. PICK until \in at_name .. Len(name) : OpensAt(until)
    BY <1>2 DEF Opens
  <2> DEFINE l == [pat |-> at_pattern + 1, at |-> at_name, until |-> until]
  <2>2. /\ l \in LoopType(Len(pattern), Len(name))
        /\ l.pat = at_pattern + 1 /\ l.at = at_name /\ l.until = until
        /\ l.at \in l.at .. l.until
    BY <1>2, NewLoopType, Zenon DEF Opens
  <2>3. /\ loops' = Append(loops, l)
        /\ at_pattern' = l.pat /\ at_name' = l.at
        /\ AtCall <=> \E k \in l.at .. l.until : Ends(pattern, name, l.pat, k)
    BY <2>1, <2>2, Zenon DEF OpensAt
  <2> HIDE DEF l
  <2>4. \A k \in l.at .. l.until : Ends(pattern, name, l.pat, k) => Asked
    BY <1>1, <2>3, Zenon
  <2>5. LoopsAsked'
    BY <1>1, <2>2, <2>3, <2>4, LoopsAskedGrow, Zenon
  <2>6. AtCall' => Asked'
    BY <2>2, <2>3, <2>4, SameMeaning, Zenon
  <2>7. NowCalled
    BY <1>2, Zenon DEF Opens
  <2> QED
    BY <2>5, <2>6, <2>7, Zenon DEF OnlyMatches, NowCalled
<1>3. CASE Passes
  <2>1. PICK k \in 0 .. Len(name) : PassesTo(k)
    BY <1>3 DEF Passes
  <2>2. AtCall' => Asked'
    BY <1>1, <2>1, SameMeaning, Zenon DEF PassesTo
  <2>3. NowCalled /\ loops' = loops
    BY <1>3, Zenon DEF Passes
  <2>4. LoopsAsked'
    BY <1>1, <2>3, LoopsAskedStay, Zenon
  <2> QED
    BY <2>2, <2>3, <2>4, Zenon DEF OnlyMatches, NowCalled
<1>4. CASE Fails
  <2>1. (NowFailed \/ NowBack) /\ loops' = loops
    BY <1>4, Zenon DEF Fails
  <2>2. LoopsAsked'
    BY <1>1, <2>1, LoopsAskedStay, Zenon
  <2> QED
    BY <2>1, <2>2, Zenon DEF OnlyMatches, NowFailed, NowBack
<1> QED
  BY <1>2, <1>3, <1>4, Zenon DEF CharacterSteps

LEMMA CallOnlyMatches ==
  ASSUME GlobInv, glob_match
  PROVE  OnlyMatches'
<1>0. GlobTypes /\ OnlyMatches
  BY Zenon DEF GlobInv
<1>1. Called /\ Same
  BY <1>0, CallIs, Zenon
<1>2. CASE CharacterSteps
  BY <1>0, <1>1, <1>2, CharacterOnlyMatches, Zenon
<1>3. CASE Fails
  <2>1. (NowFailed \/ NowBack) /\ loops' = loops
    BY <1>3, Zenon DEF Fails
  <2>2. LoopsAsked'
    BY <1>0, <1>1, <2>1, LoopsAskedStay, Zenon DEF OnlyMatches
  <2> QED
    BY <2>1, <2>2, Zenon DEF OnlyMatches, NowFailed, NowBack
<1>4. CASE NowMatched /\ AtCall
  <2>1. Asked /\ pattern # << >>
    BY <1>0, <1>1, <1>4, Zenon DEF OnlyMatches, GlobTypes
  <2>2. Means(pattern, name)
    BY <1>0, <2>1, MeansEnds, Zenon DEF GlobTypes, Asked
  <2>3. Means(pattern', name')
    BY <1>1, <2>2, SameMeaning, Zenon
  <2> QED
    BY <1>4, <2>3, Zenon DEF OnlyMatches, NowMatched
<1> QED
  BY <1>0, <1>2, <1>3, <1>4, CallIs, Zenon

\* What the innermost loop goes on to.
LEMMA ResumesIs ==
  ASSUME GlobTypes, Back, Same, Inner.at # Inner.until, Resumes
  PROVE  /\ at_pattern' \in 0 .. Len(pattern) /\ at_name' \in 0 .. Len(name)
         /\ loops' \in Seq(LoopType(Len(pattern), Len(name)))
         /\ Len(loops') = Len(loops) /\ loops' # << >> /\ loops # << >>
         /\ Len(loops) \in DOMAIN loops /\ DOMAIN loops' = DOMAIN loops
         /\ at_name' = Inner.at + 1 /\ at_pattern' = Inner.pat
         /\ Inner.at + 1 \in Inner.at .. Inner.until /\ Inner.at \in Nat
         /\ Inner.at < Len(name)
         /\ \A k \in Inner.at + 1 .. Inner.until :
              k = Inner.at + 1 \/ k \in (Inner.at + 1) + 1 .. Inner.until
         /\ Inner.at + 1 .. Inner.until \subseteq Inner.at .. Inner.until
         /\ \A d \in DOMAIN loops : d # Len(loops) => loops'[d] = loops[d]
         /\ loops'[Len(loops)].at = Inner.at + 1 /\ loops'[Len(loops)].until = Inner.until
         /\ loops'[Len(loops)].pat = Inner.pat
<1> DEFINE P == Len(pattern)
           N == Len(name)
           n == Len(loops)
<1>1. P \in Nat /\ N \in Nat /\ loops \in Seq(LoopType(P, N)) /\ loops # << >>
  BY Zenon DEF GlobTypes
<1>2. /\ loops' = [loops EXCEPT ![n].at = @ + 1] /\ Inner = loops[n]
      /\ at_pattern' = Inner.pat /\ at_name' = Inner.at + 1
      /\ loops[n].at # loops[n].until
  BY Zenon DEF Resumes, Inner
<1> HIDE DEF P, N, n
<1>3. /\ loops' \in Seq(LoopType(P, N)) /\ Len(loops') = Len(loops) /\ loops' # << >>
      /\ Inner \in LoopType(P, N) /\ Inner.at + 1 \in Inner.at + 1 .. Inner.until
      /\ Inner.at + 1 \in 0 .. N /\ Inner.pat \in 1 .. P
      /\ n \in DOMAIN loops /\ DOMAIN loops' = DOMAIN loops
      /\ \A d \in DOMAIN loops : d # n => loops'[d] = loops[d]
      /\ loops'[n].at = Inner.at + 1 /\ loops'[n].until = Inner.until
      /\ loops'[n].pat = Inner.pat
  BY <1>1, <1>2, LoopsGoOn, Zenon DEF n
<1>4. Inner.at \in 0 .. N /\ Inner.until \in 0 .. N
  BY <1>3 DEF LoopType
<1>5. /\ Inner.at + 1 \in Inner.at .. Inner.until /\ Inner.at \in Nat /\ Inner.at < N
      /\ \A k \in Inner.at + 1 .. Inner.until :
           k = Inner.at + 1 \/ k \in (Inner.at + 1) + 1 .. Inner.until
      /\ Inner.at + 1 .. Inner.until \subseteq Inner.at .. Inner.until
      /\ Inner.pat \in 0 .. P
  BY <1>1, <1>3, <1>4
<1> QED
  BY <1>1, <1>2, <1>3, <1>5, Zenon DEF P, N, n

\* What is left of the loops when the innermost has nothing more to try.
LEMMA LeavesIs ==
  ASSUME GlobTypes, Back, Same, Leaves
  PROVE  /\ loops' \in Seq(LoopType(Len(pattern), Len(name)))
         /\ Len(loops) \in DOMAIN loops /\ loops # << >>
         /\ \A d \in DOMAIN loops' : d \in DOMAIN loops /\ loops'[d] = loops[d]
         /\ \A d \in DOMAIN loops : d # Len(loops) => d \in DOMAIN loops'
         /\ Len(loops) # 1 => loops' # << >>
         /\ (NowFailed /\ Len(loops) = 1) \/ (NowBack /\ Len(loops) # 1)
<1>1. /\ loops \in Seq(LoopType(Len(pattern), Len(name))) /\ loops # << >>
      /\ loops' = SubSeq(loops, 1, Len(loops) - 1)
  BY Zenon DEF GlobTypes, Leaves
<1>2. (NowFailed /\ Len(loops) = 1) \/ (NowBack /\ Len(loops) # 1)
  BY Zenon DEF Leaves
<1> QED
  BY <1>1, <1>2, LoopsEnd, Zenon

LEMMA GoOnOnlyMatches ==
  ASSUME GlobInv, GoOn
  PROVE  OnlyMatches'
<1>0. GlobTypes /\ OnlyMatches
  BY Zenon DEF GlobInv
<1>1. Back /\ Same /\ LoopsAsked
  BY <1>0, GoOnIs, Zenon DEF OnlyMatches
<1>2. CASE Inner.at # Inner.until /\ NowCalled /\ Resumes
  <2>1. \A d \in DOMAIN loops' :
          /\ d \in DOMAIN loops /\ loops'[d].pat = loops[d].pat
          /\ loops'[d].at .. loops'[d].until \subseteq loops[d].at .. loops[d].until
    <3> SUFFICES ASSUME NEW d \in DOMAIN loops'
                 PROVE  /\ d \in DOMAIN loops /\ loops'[d].pat = loops[d].pat
                        /\ loops'[d].at .. loops'[d].until
                             \subseteq loops[d].at .. loops[d].until
      OBVIOUS
    <3>1. CASE d = Len(loops)
      BY <1>0, <1>1, <1>2, <3>1, ResumesIs, Zenon DEF Inner
    <3>2. CASE d # Len(loops)
      <4>1. d \in DOMAIN loops /\ loops'[d] = loops[d]
        BY <1>0, <1>1, <1>2, <3>2, ResumesIs, Zenon
      <4> QED
        BY <4>1
    <3> QED
      BY <3>1, <3>2
  <2>2. LoopsAsked'
    BY <1>1, <2>1, LoopsAskedStay, Zenon
  <2>3. AtCall' => Asked'
    <3>1. /\ at_name' = Inner.at + 1 /\ at_pattern' = Inner.pat
          /\ Inner.at + 1 \in Inner.at .. Inner.until /\ Len(loops) \in DOMAIN loops
      BY <1>0, <1>1, <1>2, ResumesIs, Zenon
    <3>2. Ends(pattern, name, Inner.pat, Inner.at + 1) => Asked
      BY <1>1, <3>1, Zenon DEF LoopsAsked, Leading, Inner
    <3> QED
      BY <1>1, <3>1, <3>2, SameMeaning, Zenon
  <2> QED
    BY <1>2, <2>2, <2>3, Zenon DEF OnlyMatches, NowCalled
<1>3. CASE Leaves
  <2>1. LoopsAsked'
    <3>1. \A d \in DOMAIN loops' : d \in DOMAIN loops /\ loops'[d] = loops[d]
      BY <1>0, <1>1, <1>3, LeavesIs, Zenon
    <3> QED
      BY <1>1, <3>1, LoopsAskedStay, Zenon
  <2>2. NowFailed \/ NowBack
    BY <1>0, <1>1, <1>3, LeavesIs, Zenon
  <2> QED
    BY <2>1, <2>2, Zenon DEF OnlyMatches, NowFailed, NowBack
<1> QED
  BY <1>0, <1>2, <1>3, GoOnIs, Zenon

-----------------------------------------------------------------------------
(* Glob: the budget of one loop lasts.                                     *)

\* What products of places come to.
LEMMA Products ==
  ASSUME NEW P \in Nat, NEW N \in Nat
  PROVE  /\ (P + 1) * (N + 1) \in Nat
         /\ N * (P + 1) + P < (P + 1) * (N + 1)
         /\ \A a \in Nat : /\ a * (P + 1) \in Nat
                           /\ (a + 1) * (P + 1) = a * (P + 1) + (P + 1)
                           /\ a <= N => a * (P + 1) <= N * (P + 1)
                           /\ a < N => a * (P + 1) + (P + 1) <= N * (P + 1)
<1>1. \A a, b \in Nat : a * b \in Nat
  OBVIOUS
<1>2. (P + 1) * (N + 1) = N * (P + 1) + (P + 1)
  OBVIOUS
<1>3. ASSUME NEW a \in Nat, a <= N PROVE a * (P + 1) <= N * (P + 1)
  <2>1. N - a \in Nat /\ N = a + (N - a)
    BY <1>3
  <2>2. (N - a) * (P + 1) \in Nat
    BY <2>1
  <2>3. N * (P + 1) = a * (P + 1) + (N - a) * (P + 1)
    BY <2>1
  <2> QED
    BY <2>2, <2>3
<1>4. ASSUME NEW a \in Nat PROVE (a + 1) * (P + 1) = a * (P + 1) + (P + 1)
  OBVIOUS
<1>5. ASSUME NEW a \in Nat, a < N PROVE a * (P + 1) + (P + 1) <= N * (P + 1)
  <2>1. N - (a + 1) \in Nat /\ N = (a + 1) + (N - (a + 1))
    BY <1>5
  <2>2. (N - (a + 1)) * (P + 1) \in Nat
    BY <2>1
  <2>3. N * (P + 1) = (a + 1) * (P + 1) + (N - (a + 1)) * (P + 1)
    BY <2>1
  <2> QED
    BY <1>4, <2>2, <2>3
<1>6. (P + 1) * (N + 1) \in Nat /\ N * (P + 1) \in Nat /\ P + 1 \in Nat
  BY <1>1
<1>7. N * (P + 1) + P < (P + 1) * (N + 1)
  BY <1>2, <1>6
<1>8. \A a \in Nat : a * (P + 1) \in Nat
  BY <1>1, <1>6
<1> QED
  BY <1>3, <1>4, <1>5, <1>6, <1>7, <1>8

LEMMA PairsIs ==
  ASSUME GlobTypes
  PROVE  /\ Pairs(pattern, name) \in Nat
         /\ Pairs(pattern, name) = (Len(pattern) + 1) * (Len(name) + 1)
         /\ Pairs(pattern, name) <= Pairs(pattern, name) * REVISITS
         /\ Pairs(pattern, name) * REVISITS \in Nat
<1>1. Len(pattern) \in Nat /\ Len(name) \in Nat
  BY DEF GlobTypes
<1>2. Pairs(pattern, name) = (Len(pattern) + 1) * (Len(name) + 1)
  BY Zenon DEF Pairs
<1>3. Pairs(pattern, name) \in Nat
  BY <1>1, <1>2, Products
<1>4. \A x \in Nat, r \in Nat \ {0} : x <= x * r /\ x * r \in Nat
  <2> TAKE x \in Nat, r \in Nat \ {0}
  <2>1. r - 1 \in Nat /\ x * r = x + x * (r - 1)
    OBVIOUS
  <2>2. x * (r - 1) \in Nat
    BY <2>1
  <2> QED
    BY <2>1, <2>2
<1>5. REVISITS \in Nat \ {0}
  BY GlobAssumption
<1> QED
  BY <1>2, <1>3, <1>4, <1>5, Zenon

LEMMA BudgetIs ==
  ASSUME GlobTypes
  PROVE  /\ match_budget(pattern, name) \in Nat
         /\ Few => Pairs(pattern, name) <= match_budget(pattern, name)
<1> DEFINE pairs == Pairs(pattern, name)
           most == Pairs(pattern, name) * REVISITS
<1>1. pairs \in Nat /\ most \in Nat /\ pairs <= most
  BY PairsIs
<1>2. match_budget(pattern, name) = IF most < CEILING THEN most ELSE CEILING
  BY DEF match_budget, Least2
<1>3. CEILING \in Nat
  BY GlobAssumption
<1>4. Few => pairs <= CEILING
  BY DEF Few
<1> HIDE DEF pairs, most
<1> QED
  BY ONLY <1>1, <1>2, <1>3, <1>4 DEF pairs, most

\* While there is one loop at most, a call finds something in the budget, and so
\* does a loop that is not at its end.
LEMMA BudgetLasts ==
  ASSUME GlobInv, Few
  PROVE  /\ Called => budget # 0
         /\ Back /\ Inner.at # Inner.until => budget # 0
<1> DEFINE P == Len(pattern)
           N == Len(name)
           B == match_budget(pattern, name)
           pairs == Pairs(pattern, name)
<1>0. GlobTypes /\ CallsOfOne
  BY Zenon DEF GlobInv
<1>1. /\ P \in Nat /\ N \in Nat /\ budget \in Nat /\ at_pattern \in 0 .. P
      /\ B \in Nat /\ pairs <= B /\ pairs = (P + 1) * (N + 1) /\ Calls = B - budget
      /\ pairs \in Nat
  BY <1>0, PairsIs, BudgetIs, Zenon DEF GlobTypes, Calls
<1>2. ASSUME Called, loops = << >> PROVE budget # 0
  <2>1. Calls = at_pattern
    BY <1>0, <1>2, Zenon DEF CallsOfOne, NoLoopYet
  <2>2. N * (P + 1) + P < pairs /\ N * (P + 1) \in Nat
    BY <1>1, Products
  <2> HIDE DEF P, N, B, pairs
  <2> QED
    BY ONLY <1>1, <2>1, <2>2
<1>3. ASSUME loops # << >>, Called \/ Back
      PROVE  /\ Inner = loops[1]
             /\ Inner.at \in 0 .. N /\ Inner.until \in 0 .. N /\ Inner.at <= Inner.until
  <2>1. Len(loops) = 1 /\ loops \in Seq(LoopType(P, N))
    BY <1>0, <1>3, Zenon DEF CallsOfOne, OneLoop, GlobTypes
  <2>2. loops[1] \in LoopType(P, N)
    <3>1. loops \in [1 .. Len(loops) -> LoopType(P, N)]
      BY <2>1, LenProperties
    <3>2. 1 \in 1 .. Len(loops)
      BY <2>1
    <3> QED
      BY <3>1, <3>2, Zenon
  <2>3. Inner = loops[1]
    BY <2>1 DEF Inner
  <2> QED
    BY <2>2, <2>3 DEF LoopType
<1>4. ASSUME Called, loops # << >> PROVE budget # 0
  <2>1. Calls <= Inner.at * (P + 1) + at_pattern
    BY <1>0, <1>3, <1>4, Zenon DEF CallsOfOne, CallsUpTo
  <2>2. Inner.at \in Nat /\ Inner.at <= N
    BY <1>3, <1>4
  <2>3. Inner.at * (P + 1) <= N * (P + 1) /\ Inner.at * (P + 1) \in Nat
    BY <1>1, <2>2, Products
  <2>4. N * (P + 1) + P < pairs /\ N * (P + 1) \in Nat
    BY <1>1, Products
  <2> DEFINE x == Inner.at * (P + 1)
             y == N * (P + 1)
  <2> HIDE DEF P, N, B, pairs, x, y
  <2>5. Calls <= x + at_pattern /\ x <= y /\ x \in Nat /\ y + P < pairs /\ y \in Nat
    BY ONLY <2>1, <2>3, <2>4 DEF x, y
  <2> QED
    BY ONLY <1>1, <2>5
<1>5. ASSUME Back, Inner.at # Inner.until PROVE budget # 0
  <2>0. loops # << >>
    BY <1>0, <1>5, Zenon DEF GlobTypes
  <2>1. Calls <= Inner.at * (P + 1) + (P + 1)
    BY <1>0, <1>3, <1>5, <2>0, Zenon DEF CallsOfOne, CallsUpTo
  <2>2. Inner.at \in Nat /\ Inner.at < N
    BY <1>3, <1>5, <2>0
  <2>3. Inner.at * (P + 1) + (P + 1) <= N * (P + 1) /\ Inner.at * (P + 1) \in Nat
    BY <1>1, <2>2, Products
  <2>4. N * (P + 1) + P < pairs /\ N * (P + 1) \in Nat
    BY <1>1, Products
  <2> DEFINE x == Inner.at * (P + 1)
             y == N * (P + 1)
  <2> HIDE DEF P, N, B, pairs, x, y
  <2>5. /\ Calls <= x + (P + 1) /\ x + (P + 1) <= y /\ x \in Nat
        /\ y + P < pairs /\ y \in Nat
    BY ONLY <2>1, <2>3, <2>4 DEF x, y
  <2> QED
    BY ONLY <1>1, <2>5
<1> QED
  BY <1>2, <1>4, <1>5

-----------------------------------------------------------------------------
(* Glob: no match is missed.                                               *)

LEMMA WaitsGrow ==
  ASSUME Same, Waits,
         \A d \in DOMAIN loops : d \in DOMAIN loops' /\ loops'[d] = loops[d]
  PROVE  Waits'
<1>1. PICK d \in DOMAIN loops : \E k \in loops[d].at + 1 .. loops[d].until :
             Leading(loops[d], k)
  BY DEF Waits
<1>2. PICK k \in loops[d].at + 1 .. loops[d].until : Leading(loops[d], k)
  BY <1>1
<1>3. d \in DOMAIN loops' /\ k \in loops'[d].at + 1 .. loops'[d].until
  BY <1>1, <1>2, Zenon
<1>4. Ends(pattern', name', loops'[d].pat, k)
  BY <1>1, <1>2, SameMeaning, Zenon DEF Leading
<1> QED
  BY <1>3, <1>4, Zenon DEF Waits, Leading

LEMMA CharacterMissesNone ==
  ASSUME GlobTypes, NoneMissed, Called, Same, budget # 0, CharacterSteps
  PROVE  NoneMissed'
<1>1. /\ Asked => AtCall \/ Waits
      /\ loops \in Seq(LoopType(Len(pattern), Len(name)))
      /\ Asked' <=> Asked
  BY SameMeaning, Zenon DEF NoneMissed, GlobTypes, GaveUp
<1>2. CASE Opens
  <2>1. PICK until \in at_name .. Len(name) : OpensAt(until)
    BY <1>2 DEF Opens
  <2> DEFINE l == [pat |-> at_pattern + 1, at |-> at_name, until |-> until]
  <2>2. /\ l \in LoopType(Len(pattern), Len(name))
        /\ l.pat = at_pattern + 1 /\ l.at = at_name /\ l.until = until
        /\ \A k \in l.at .. l.until : k = l.at \/ k \in l.at + 1 .. l.until
    BY <1>2, NewLoopType, Zenon DEF Opens
  <2>3. /\ loops' = Append(loops, l)
        /\ at_pattern' = l.pat /\ at_name' = l.at
        /\ AtCall <=> \E k \in l.at .. l.until : Ends(pattern, name, l.pat, k)
    BY <2>1, <2>2, Zenon DEF OpensAt
  <2> HIDE DEF l
  <2>4. /\ Len(loops) + 1 \in DOMAIN loops' /\ loops'[Len(loops) + 1] = l
        /\ \A d \in DOMAIN loops : d \in DOMAIN loops' /\ loops'[d] = loops[d]
    BY <1>1, <2>2, <2>3, LoopsGrow
  <2>5. Waits => Waits'
    BY <2>4, WaitsGrow, Zenon
  <2>6. ASSUME AtCall PROVE AtCall' \/ Waits'
    <3>1. PICK k \in l.at .. l.until : Ends(pattern, name, l.pat, k)
      BY <2>3, <2>6
    <3>2. CASE k = l.at
      BY <2>3, <3>1, <3>2, SameMeaning, Zenon
    <3>3. CASE k \in l.at + 1 .. l.until
      <4>1. Ends(pattern', name', l.pat, k)
        BY <3>1, SameMeaning, Zenon
      <4> QED
        BY <2>4, <3>3, <4>1, Zenon DEF Waits, Leading
    <3> QED
      BY <2>2, <3>1, <3>2, <3>3
  <2>7. NowCalled
    BY <1>2, Zenon DEF Opens
  <2> QED
    BY <1>1, <2>5, <2>6, <2>7, Zenon DEF NoneMissed, NowCalled
<1>3. CASE Passes
  <2>1. PICK k \in 0 .. Len(name) : PassesTo(k)
    BY <1>3 DEF Passes
  <2>2. AtCall => AtCall'
    BY <2>1, SameMeaning, Zenon DEF PassesTo
  <2>3. NowCalled /\ loops' = loops
    BY <1>3, Zenon DEF Passes
  <2>4. Waits => Waits'
    BY <2>3, WaitsGrow, Zenon
  <2> QED
    BY <1>1, <2>2, <2>3, <2>4, Zenon DEF NoneMissed, NowCalled
<1>4. CASE Fails /\ ~AtCall
  <2>1. loops' = loops /\ (loops = << >> => NowFailed) /\ (loops # << >> => NowBack)
    BY <1>4, Zenon DEF Fails
  <2>2. Waits => Waits'
    BY <2>1, WaitsGrow, Zenon
  <2>3. Waits => loops # << >>
    <3>1. DOMAIN << >> = {}
      OBVIOUS
    <3> QED
      BY <3>1, Zenon DEF Waits
  <2> QED
    BY <1>1, <1>4, <2>1, <2>2, <2>3, Zenon DEF NoneMissed, NowFailed, NowBack
<1> QED
  BY <1>2, <1>3, <1>4, Zenon DEF CharacterSteps

LEMMA CallMissesNone ==
  ASSUME GlobInv, glob_match
  PROVE  NoneMissed'
<1>0. GlobTypes /\ NoneMissed
  BY Zenon DEF GlobInv
<1>1. Called /\ Same
  BY <1>0, CallIs, Zenon
<1>2. CASE budget # 0 /\ CharacterSteps
  BY <1>0, <1>1, <1>2, CharacterMissesNone, Zenon
<1>3. CASE budget = 0 /\ budget' = 0 /\ Fails
  <2>1. ~Few
    BY <1>1, <1>3, BudgetLasts, Zenon
  <2>2. GaveUp'
    BY <1>1, <1>3, <2>1, SameMeaning, Zenon DEF GaveUp
  <2>3. NowFailed \/ NowBack
    BY <1>3, Zenon DEF Fails
  <2> QED
    BY <2>2, <2>3, Zenon DEF NoneMissed, NowFailed, NowBack
<1>4. CASE NowMatched
  BY <1>4, Zenon DEF NoneMissed, NowMatched
<1> QED
  BY <1>0, <1>2, <1>3, <1>4, CallIs, Zenon

LEMMA GoOnMissesNone ==
  ASSUME GlobInv, GoOn
  PROVE  NoneMissed'
<1>0. GlobTypes /\ NoneMissed
  BY Zenon DEF GlobInv
<1>1. Back /\ Same /\ budget' = budget /\ (Asked => Waits \/ GaveUp) /\ (Asked' <=> Asked)
  BY <1>0, GoOnIs, SameMeaning, Zenon DEF NoneMissed
<1>2. CASE Inner.at # Inner.until /\ budget # 0 /\ NowCalled /\ Resumes
  <2>0. Asked => Waits
    BY <1>1, <1>2, Zenon DEF GaveUp
  <2>1. ASSUME Waits PROVE AtCall' \/ Waits'
    <3>1. PICK d \in DOMAIN loops : \E k \in loops[d].at + 1 .. loops[d].until :
                 Leading(loops[d], k)
      BY <2>1 DEF Waits
    <3>2. PICK k \in loops[d].at + 1 .. loops[d].until : Leading(loops[d], k)
      BY <3>1
    <3>3. Ends(pattern', name', loops[d].pat, k)
      BY <3>2, <1>1, SameMeaning, Zenon DEF Leading
    <3>4. CASE d # Len(loops)
      <4>1. d \in DOMAIN loops' /\ loops'[d] = loops[d]
        BY <1>0, <1>1, <1>2, <3>4, ResumesIs, Zenon
      <4> QED
        BY <3>2, <3>3, <4>1, Zenon DEF Waits, Leading
    <3>5. CASE d = Len(loops)
      <4>1. loops[d] = Inner
        BY <3>5, Zenon DEF Inner
      <4>2. k = Inner.at + 1 \/ k \in (Inner.at + 1) + 1 .. Inner.until
        BY <1>0, <1>1, <1>2, <3>2, <4>1, ResumesIs, Zenon
      <4>3. CASE k = Inner.at + 1
        BY <1>0, <1>1, <1>2, <3>3, <4>1, <4>3, ResumesIs, SameMeaning, Zenon DEF Leading, AtCall
      <4>4. CASE k \in (Inner.at + 1) + 1 .. Inner.until
        <5>1. /\ d \in DOMAIN loops' /\ loops'[d].at = Inner.at + 1
              /\ loops'[d].until = Inner.until /\ loops'[d].pat = Inner.pat
          BY <1>0, <1>1, <1>2, <3>5, ResumesIs, Zenon
        <5>2. k \in loops'[d].at + 1 .. loops'[d].until
          BY <4>4, <5>1, Zenon
        <5>3. Ends(pattern', name', loops'[d].pat, k)
          BY <3>3, <4>1, <5>1, Zenon
        <5> QED
          BY <5>1, <5>2, <5>3, Zenon DEF Waits, Leading
      <4> QED
        BY <4>2, <4>3, <4>4
    <3> QED
      BY <3>4, <3>5
  <2> QED
    BY <1>1, <1>2, <2>0, <2>1, Zenon DEF NoneMissed, NowCalled
<1>3. CASE (Inner.at = Inner.until \/ budget = 0) /\ Leaves
  <2>1. (NowFailed /\ Len(loops) = 1) \/ (NowBack /\ Len(loops) # 1)
    BY <1>0, <1>1, <1>3, LeavesIs, Zenon
  <2>2. CASE GaveUp
    <3>1. GaveUp'
      BY <1>1, <2>2, SameMeaning, Zenon DEF GaveUp
    <3> QED
      BY <2>1, <3>1, Zenon DEF NoneMissed, NowFailed, NowBack
  <2>3. CASE ~GaveUp
    <3>1. Inner.at = Inner.until
      BY <1>1, <1>3, <2>3, BudgetLasts, Zenon DEF GaveUp
    <3>2. ASSUME Waits PROVE Waits' /\ Len(loops) # 1
      <4>1. PICK d \in DOMAIN loops : \E k \in loops[d].at + 1 .. loops[d].until :
                   Leading(loops[d], k)
        BY <3>2 DEF Waits
      <4>2. PICK k \in loops[d].at + 1 .. loops[d].until : Leading(loops[d], k)
        BY <4>1
      <4>3. d # Len(loops)
        <5>1. ASSUME d = Len(loops) PROVE FALSE
          <6>1. k \in Inner.at + 1 .. Inner.at
            BY <3>1, <4>2, <5>1 DEF Inner
          <6>2. Inner.at \in Int
            <7>1. Inner \in LoopType(Len(pattern), Len(name))
              <8>1. loops \in Seq(LoopType(Len(pattern), Len(name)))
                BY <1>0, Zenon DEF GlobTypes
              <8>2. loops \in [1 .. Len(loops) -> LoopType(Len(pattern), Len(name))]
                BY <8>1, LenProperties
              <8>3. d \in 1 .. Len(loops)
                BY <4>1, <8>2
              <8> QED
                BY <5>1, <8>2, <8>3, Zenon DEF Inner
            <7> QED
              BY <7>1 DEF LoopType
          <6> QED
            BY <6>1, <6>2
        <5> QED
          BY <5>1
      <4>4. d \in DOMAIN loops'
        BY <1>0, <1>1, <1>3, <4>3, LeavesIs, Zenon
      <4>5. loops'[d] = loops[d]
        BY <1>0, <1>1, <1>3, <4>4, LeavesIs, Zenon
      <4>6. Ends(pattern', name', loops'[d].pat, k)
        BY <4>2, <4>5, <1>1, SameMeaning, Zenon DEF Leading
      <4>7. Waits'
        BY <4>2, <4>4, <4>5, <4>6, Zenon DEF Waits, Leading
      <4>8. Len(loops) # 1
        <5>1. ASSUME Len(loops) = 1 PROVE d = Len(loops)
          <6>1. DOMAIN loops = 1 .. Len(loops)
            BY <1>0, LenProperties, Zenon DEF GlobTypes
          <6> QED
            BY <4>1, <5>1, <6>1
        <5> QED
          BY <4>3, <5>1
      <4> QED
        BY <4>7, <4>8
    <3> QED
      BY <1>1, <2>1, <2>3, <3>2, Zenon DEF NoneMissed, NowFailed, NowBack
  <2> QED
    BY <2>2, <2>3
<1> QED
  BY <1>0, <1>2, <1>3, GoOnIs, Zenon

-----------------------------------------------------------------------------
(* Glob: the calls of one loop.                                            *)

LEMMA LoopsOfPattern ==
  ASSUME NEW p, Len(p) \in Nat
  PROVE  /\ Cardinality(Loops(p)) \in Nat
         /\ Cardinality(Loops(p)) <= 1 => \A a, b \in Loops(p) : a = b
<1>1. IsFiniteSet(1 .. Len(p)) /\ Loops(p) \subseteq 1 .. Len(p)
  <2>1. IsFiniteSet(1 .. Len(p))
    BY FS_Interval
  <2>2. Loops(p) \subseteq 1 .. Len(p)
    BY Zenon DEF Loops
  <2> QED
    BY <2>1, <2>2
<1>2. IsFiniteSet(Loops(p))
  BY <1>1, FS_Subset
<1>3. Cardinality(Loops(p)) \in Nat
  BY <1>2, FS_CardinalityType
<1>4. ASSUME NEW a \in Loops(p), NEW b \in Loops(p), a # b
      PROVE  ~ (Cardinality(Loops(p)) <= 1)
  <2> DEFINE rest == Loops(p) \ {a}
  <2>1. IsFiniteSet(rest) /\ Cardinality(rest) = Cardinality(Loops(p)) - 1
    BY <1>2, FS_RemoveElement
  <2>2. b \in rest
    BY <1>4
  <2>3. Cardinality(rest) \in Nat /\ Cardinality(rest) # 0
    BY <2>1, <2>2, FS_CardinalityType, FS_EmptySet
  <2> HIDE DEF rest
  <2> QED
    BY <1>3, <2>1, <2>3
<1> QED
  BY <1>3, <1>4

\* A call more.
LEMMA OneCall ==
  ASSUME GlobTypes, Same
  PROVE  /\ Calls \in Int
         /\ budget # 0 /\ budget' = budget - 1 => Calls' = Calls + 1
         /\ budget' = budget => Calls' = Calls
<1> DEFINE B == match_budget(pattern, name)
           C == match_budget(pattern', name')
<1>1. B \in Nat /\ budget \in Nat /\ C = B
  BY BudgetIs, SameMeaning, Zenon DEF GlobTypes
<1>2. Calls = B - budget /\ Calls' = C - budget'
  BY Zenon DEF Calls
<1> HIDE DEF B, C
<1> QED
  BY ONLY <1>1, <1>2

LEMMA CharacterCalls ==
  ASSUME GlobTypes, CallsOfOne, Few, Called, Same,
         budget # 0, budget' = budget - 1, CharacterSteps
  PROVE  CallsOfOne'
<1> DEFINE P == Len(pattern)
<1>0. /\ P \in Nat /\ at_pattern \in 0 .. P /\ at_name \in 0 .. Len(name)
      /\ Len(name) \in Nat /\ loops \in Seq(LoopType(P, Len(name)))
      /\ Len(pattern') = P /\ Loops(pattern') = Loops(pattern)
      /\ Calls \in Int /\ Calls' = Calls + 1
  BY OneCall, SameMeaning, Zenon DEF GlobTypes
<1>1. /\ loops = << >> => NoLoopYet
      /\ loops # << >> => OneLoop /\ CallsUpTo(at_pattern)
  BY Zenon DEF CallsOfOne
<1>2. CASE Opens
  <2>1. PICK until \in at_name .. Len(name) : OpensAt(until)
    BY <1>2 DEF Opens
  <2> DEFINE l == [pat |-> at_pattern + 1, at |-> at_name, until |-> until]
  <2>2. l \in LoopType(P, Len(name)) /\ l.pat = at_pattern + 1 /\ l.at = at_name
    BY <1>2, NewLoopType, Zenon DEF Opens
  <2>3. loops' = Append(loops, l) /\ at_pattern' = at_pattern + 1
    BY <2>1, Zenon DEF OpensAt
  <2> HIDE DEF l
  <2>4. loops = << >>
    <3>1. ASSUME loops # << >> PROVE FALSE
      <4>1. loops[1].pat \in Loops(pattern) /\ loops[1].pat <= at_pattern
        BY <1>1, <3>1, Zenon DEF OneLoop
      <4>2. at_pattern + 1 \in Loops(pattern)
        BY <1>2, Zenon DEF Opens
      <4>3. loops[1].pat = at_pattern + 1
        BY <1>0, <4>1, <4>2, LoopsOfPattern, Zenon DEF Few
      <4> QED
        BY <1>0, <4>1, <4>3
    <3> QED
      BY <3>1
  <2>5. Calls = at_pattern
    BY <1>1, <2>4, Zenon DEF NoLoopYet
  <2>6. Len(loops) = 0
    BY <2>4, EmptySeq
  <2>7. loops' # << >> /\ Len(loops') = 1 /\ loops'[1] = l
    <3>1. loops' # << >> /\ Len(loops') = Len(loops) + 1 /\ loops'[Len(loops) + 1] = l
      BY <1>0, <2>2, <2>3, LoopsGrow
    <3> QED
      BY <2>6, <3>1
  <2>8. OneLoop'
    <3>1. loops'[1].pat \in Loops(pattern') /\ loops'[1].pat = at_pattern'
      BY <1>0, <1>2, <2>2, <2>3, <2>7, Zenon DEF Opens
    <3>2. at_pattern' <= at_pattern'
      BY <1>0, <2>3
    <3> QED
      BY <2>7, <3>1, <3>2, Zenon DEF OneLoop
  <2>9. Calls' <= loops'[1].at * (Len(pattern') + 1) + at_pattern'
    <3>1. at_name * (P + 1) \in Nat
      BY <1>0, Products
    <3>2. loops'[1].at * (Len(pattern') + 1) = at_name * (P + 1)
      BY <1>0, <2>2, <2>7, Zenon
    <3> DEFINE x == at_name * (P + 1)
               y == loops'[1].at * (Len(pattern') + 1)
    <3> HIDE DEF x, y
    <3>3. x \in Nat /\ y = x
      BY ONLY <3>1, <3>2 DEF x, y
    <3>4. Calls' <= y + at_pattern'
      BY ONLY <1>0, <2>3, <2>5, <3>3
    <3> QED
      BY <3>4 DEF y
  <2>10. CallsUpTo(at_pattern)'
    BY <2>9, Zenon DEF CallsUpTo
  <2>11. NowCalled
    BY <1>2, Zenon DEF Opens
  <2> QED
    BY <2>7, <2>8, <2>10, <2>11, Zenon DEF CallsOfOne, NowCalled
<1>3. CASE Passes
  <2>1. /\ at_pattern' = at_pattern + 1 /\ loops' = loops /\ NowCalled
        /\ at_pattern + 1 \notin Loops(pattern)
    BY <1>3, Zenon DEF Passes, PassesTo
  <2>2. ASSUME loops = << >> PROVE NoLoopYet'
    <3>1. Calls = at_pattern /\ \A m \in 1 .. at_pattern : m \notin Loops(pattern)
      BY <1>1, <2>2, Zenon DEF NoLoopYet
    <3>2. Calls' = at_pattern'
      BY <1>0, <2>1, <3>1
    <3>3. \A m \in 1 .. at_pattern + 1 : m \in 1 .. at_pattern \/ m = at_pattern + 1
      BY <1>0
    <3>4. \A m \in 1 .. at_pattern' : m \notin Loops(pattern')
      BY <1>0, <2>1, <3>1, <3>3, Zenon
    <3> QED
      BY <3>2, <3>4, Zenon DEF NoLoopYet
  <2>3. ASSUME loops # << >> PROVE OneLoop' /\ CallsUpTo(at_pattern)'
    <3>1. /\ Len(loops) = 1 /\ loops[1].pat \in Loops(pattern)
          /\ loops[1].pat <= at_pattern
          /\ Calls <= loops[1].at * (P + 1) + at_pattern
      BY <1>1, <2>3, Zenon DEF OneLoop, CallsUpTo
    <3>2. loops[1] \in LoopType(P, Len(name))
      <4>1. 1 \in 1 .. Len(loops)
        BY <3>1
      <4> QED
        BY <1>0, <4>1, ElementOfSeq
    <3>3. loops[1].at \in Nat /\ loops[1].pat \in Nat
      BY <3>2, <1>0 DEF LoopType
    <3>4. loops[1].at * (P + 1) \in Nat
      BY <1>0, <3>3, Products
    <3>5. Calls' <= loops[1].at * (P + 1) + at_pattern'
      <4> DEFINE x == loops[1].at * (P + 1)
      <4> HIDE DEF x, P
      <4>1. x \in Nat /\ Calls <= x + at_pattern
        BY ONLY <3>1, <3>4 DEF x
      <4>2. Calls' <= x + at_pattern'
        BY ONLY <1>0, <2>1, <4>1
      <4> QED
        BY <4>2 DEF x
    <3>6. loops[1].pat <= at_pattern'
      <4> HIDE DEF P
      <4> QED
        BY ONLY <1>0, <2>1, <3>1, <3>3
    <3> QED
      BY <1>0, <2>1, <3>1, <3>5, <3>6, Zenon DEF OneLoop, CallsUpTo
  <2> QED
    BY <2>1, <2>2, <2>3, Zenon DEF CallsOfOne, NowCalled
<1>4. CASE Fails
  <2>1. /\ at_pattern' = at_pattern /\ loops' = loops
        /\ loops = << >> => NowFailed
        /\ loops # << >> => NowBack
    BY <1>4, Zenon DEF Fails, Here
  <2>2. ASSUME loops # << >> PROVE OneLoop' /\ CallsUpTo(Len(pattern) + 1)'
    <3>1. /\ Len(loops) = 1 /\ loops[1].pat \in Loops(pattern)
          /\ loops[1].pat <= at_pattern
          /\ Calls <= loops[1].at * (P + 1) + at_pattern
      BY <1>1, <2>2, Zenon DEF OneLoop, CallsUpTo
    <3>2. loops[1].at \in Nat
      <4>1. 1 \in 1 .. Len(loops)
        BY <3>1
      <4>2. loops[1] \in LoopType(P, Len(name))
        BY <1>0, <4>1, ElementOfSeq
      <4> QED
        BY <4>2, <1>0 DEF LoopType
    <3>3. loops[1].at * (P + 1) \in Nat
      BY <1>0, <3>2, Products
    <3>4. Calls' <= loops[1].at * (P + 1) + (P + 1)
      <4> DEFINE x == loops[1].at * (P + 1)
      <4> HIDE DEF x, P
      <4>1. x \in Nat /\ Calls <= x + at_pattern
        BY ONLY <3>1, <3>3 DEF x
      <4>2. Calls' <= x + (P + 1)
        BY ONLY <1>0, <4>1
      <4> QED
        BY <4>2 DEF x
    <3> QED
      BY <1>0, <2>1, <3>1, <3>4, Zenon DEF OneLoop, CallsUpTo
  <2> QED
    BY <2>1, <2>2, Zenon DEF CallsOfOne, NowFailed, NowBack
<1> QED
  BY <1>2, <1>3, <1>4, Zenon DEF CharacterSteps

LEMMA CallCountsCalls ==
  ASSUME GlobInv, glob_match
  PROVE  CallsOfOne'
<1>0. GlobTypes /\ CallsOfOne
  BY Zenon DEF GlobInv
<1>1. Called /\ Same
  BY <1>0, CallIs, Zenon
<1>2. CASE ~Few
  BY <1>1, <1>2, SameMeaning, Zenon DEF CallsOfOne
<1>3. CASE Few /\ CharacterSteps /\ budget # 0 /\ budget' = budget - 1
  BY <1>0, <1>1, <1>3, CharacterCalls, Zenon
<1>4. CASE NowMatched
  BY <1>4, Zenon DEF CallsOfOne, NowMatched
<1>5. CASE Few /\ budget = 0
  BY <1>1, <1>5, BudgetLasts, Zenon
<1> QED
  BY <1>0, <1>2, <1>3, <1>4, <1>5, CallIs, Zenon

LEMMA GoOnCountsCalls ==
  ASSUME GlobInv, GoOn
  PROVE  CallsOfOne'
<1> DEFINE P == Len(pattern)
<1>0. GlobTypes /\ CallsOfOne
  BY Zenon DEF GlobInv
<1>1. Back /\ Same /\ budget' = budget
  BY <1>0, GoOnIs, Zenon
<1>2. CASE ~Few
  BY <1>1, <1>2, SameMeaning, Zenon DEF CallsOfOne
<1>3. ASSUME Few
      PROVE  /\ Len(loops) = 1 /\ Inner = loops[1] /\ loops[1].pat \in Loops(pattern)
             /\ Calls <= loops[1].at * (P + 1) + (P + 1)
  <2>1. OneLoop /\ CallsUpTo(P + 1)
    BY <1>0, <1>1, <1>3, Zenon DEF CallsOfOne, GlobTypes
  <2>2. Len(loops) = 1
    BY <2>1, Zenon DEF OneLoop
  <2>3. Inner = loops[1]
    BY <2>2, Zenon DEF Inner
  <2> QED
    BY <2>1, <2>2, <2>3, Zenon DEF OneLoop, CallsUpTo
<1>4. CASE Few /\ Inner.at # Inner.until /\ NowCalled /\ Resumes
  <2>1. /\ Len(loops') = 1 /\ loops' # << >> /\ at_pattern' = Inner.pat
        /\ loops'[1].at = Inner.at + 1 /\ loops'[1].pat = Inner.pat
        /\ Inner.at \in Nat /\ at_pattern' \in 0 .. P /\ P \in Nat
    BY <1>0, <1>1, <1>3, <1>4, ResumesIs, Zenon DEF GlobTypes
  <2>2. Calls' = Calls /\ Calls \in Int /\ Len(pattern') = P /\ Loops(pattern') = Loops(pattern)
    BY <1>0, <1>1, OneCall, SameMeaning, Zenon
  <2>3. (Inner.at + 1) * (P + 1) = Inner.at * (P + 1) + (P + 1) /\ Inner.at * (P + 1) \in Nat
    BY <2>1, Products
  <2>4. Calls <= Inner.at * (P + 1) + (P + 1)
    BY <1>3, <1>4, Zenon
  <2>5. Calls' <= (Inner.at + 1) * (P + 1) + at_pattern'
    <3> DEFINE x == Inner.at * (P + 1)
               y == (Inner.at + 1) * (P + 1)
    <3> HIDE DEF x, y, P
    <3>1. Calls <= x + (P + 1) /\ y = x + (P + 1) /\ x \in Nat
      BY ONLY <2>3, <2>4 DEF x, y
    <3>2. Calls' <= y + at_pattern'
      BY ONLY <2>1, <2>2, <3>1
    <3> QED
      BY <3>2 DEF y
  <2>6. CallsUpTo(at_pattern)'
    BY <2>1, <2>2, <2>5, Zenon DEF CallsUpTo
  <2>7. at_pattern' <= at_pattern'
    BY <2>1
  <2>8. OneLoop'
    BY <1>3, <1>4, <2>1, <2>2, <2>7, Zenon DEF OneLoop
  <2> QED
    BY <1>4, <2>1, <2>6, <2>8, Zenon DEF CallsOfOne, NowCalled
<1>5. CASE Few /\ Leaves
  <2>1. NowFailed
    BY <1>0, <1>1, <1>3, <1>5, LeavesIs, Zenon
  <2> QED
    BY <2>1, Zenon DEF CallsOfOne, NowFailed
<1> QED
  BY <1>0, <1>2, <1>4, <1>5, GoOnIs, Zenon

-----------------------------------------------------------------------------
(* Glob: types, and the theorem.                                           *)

LEMMA CallTypes ==
  ASSUME GlobInv, glob_match
  PROVE  GlobTypes'
<1> DEFINE P == Len(pattern)
           N == Len(name)
<1>0. /\ GlobTypes /\ P \in Nat /\ N \in Nat /\ budget \in Nat
      /\ at_pattern \in 0 .. P /\ at_name \in 0 .. N /\ loops \in Seq(LoopType(P, N))
  BY Zenon DEF GlobInv, GlobTypes
<1>1. Called /\ Same /\ pattern # << >>
  BY <1>0, CallIs, Zenon DEF GlobTypes
<1>2. Len(pattern') = P /\ Len(name') = N /\ pattern' # << >>
  BY <1>1, SameMeaning, Zenon DEF Same
<1>3. budget' \in Nat
  <2>1. budget' = 0 \/ (budget # 0 /\ budget' = budget - 1)
    BY <1>0, CallIs, Zenon
  <2> QED
    BY ONLY <1>0, <2>1
<1>4. CASE Opens
  <2>1. PICK until \in at_name .. N : OpensAt(until)
    BY <1>4 DEF Opens
  <2> DEFINE l == [pat |-> at_pattern + 1, at |-> at_name, until |-> until]
  <2>2. l \in LoopType(P, N) /\ at_pattern + 1 \in 0 .. P
    BY <1>0, <1>4, NewLoopType, Zenon DEF Opens
  <2>3. loops' = Append(loops, l) /\ at_pattern' \in 0 .. P /\ at_name' \in 0 .. N
    BY <1>0, <2>1, <2>2, Zenon DEF OpensAt
  <2> HIDE DEF l
  <2>4. loops' \in Seq(LoopType(P, N))
    BY <1>0, <2>2, <2>3, LoopsGrow
  <2>5. NowCalled
    BY <1>4, Zenon DEF Opens
  <2> QED
    BY <1>0, <1>2, <1>3, <2>3, <2>4, <2>5, Zenon DEF GlobTypes, NowCalled
<1>5. CASE Passes
  <2>1. at_pattern + 1 \in 0 .. P
    BY <1>0, <1>5 DEF Passes
  <2>2. at_pattern' \in 0 .. P /\ at_name' \in 0 .. N /\ loops' = loops /\ NowCalled
    BY <1>5, <2>1, Zenon DEF Passes, PassesTo
  <2> QED
    BY <1>0, <1>2, <1>3, <2>2, Zenon DEF GlobTypes, NowCalled
<1>6. CASE Fails
  <2>1. /\ loops' = loops /\ Here /\ (NowFailed \/ NowBack)
        /\ loops = << >> => NowFailed
    BY <1>6, Zenon DEF Fails
  <2>2. at_pattern' \in 0 .. P /\ at_name' \in 0 .. N /\ loops' \in Seq(LoopType(P, N))
    BY <1>0, <1>6, <2>1, Zenon DEF Here, Fails
  <2> QED
    BY <1>0, <1>2, <1>3, <2>1, <2>2, Zenon DEF GlobTypes, NowFailed, NowBack
<1>7. CASE NowMatched /\ Here /\ loops' = loops
  BY <1>0, <1>2, <1>3, <1>7, Zenon DEF GlobTypes, NowMatched, Here
<1> QED
  BY <1>0, <1>4, <1>5, <1>6, <1>7, CallIs, Zenon DEF CharacterSteps

LEMMA GoOnTypes ==
  ASSUME GlobInv, GoOn
  PROVE  GlobTypes'
<1> DEFINE P == Len(pattern)
           N == Len(name)
<1>0. /\ GlobTypes /\ P \in Nat /\ N \in Nat /\ budget \in Nat
      /\ at_pattern \in 0 .. P /\ at_name \in 0 .. N /\ loops \in Seq(LoopType(P, N))
  BY Zenon DEF GlobInv, GlobTypes
<1>1. Back /\ Same /\ pattern # << >> /\ budget' \in Nat
  BY <1>0, GoOnIs, Zenon DEF GlobTypes
<1>2. Len(pattern') = P /\ Len(name') = N /\ pattern' # << >>
  BY <1>1, SameMeaning, Zenon DEF Same
<1>3. CASE Inner.at # Inner.until /\ NowCalled /\ Resumes
  <2>1. /\ at_pattern' \in 0 .. P /\ at_name' \in 0 .. N
        /\ loops' \in Seq(LoopType(P, N))
    BY <1>0, <1>1, <1>3, ResumesIs, Zenon
  <2> QED
    BY <1>0, <1>1, <1>2, <1>3, <2>1, Zenon DEF GlobTypes, NowCalled
<1>4. CASE Leaves
  <2>1. /\ loops' \in Seq(LoopType(P, N))
        /\ (NowFailed \/ (NowBack /\ loops' # << >>)) /\ Here
    BY <1>0, <1>1, <1>4, LeavesIs, Zenon DEF Leaves
  <2>2. at_pattern' \in 0 .. P /\ at_name' \in 0 .. N
    BY <1>0, <2>1, Zenon DEF Here
  <2> QED
    BY <1>0, <1>1, <1>2, <2>1, <2>2, Zenon DEF GlobTypes, NowFailed, NowBack
<1> QED
  BY <1>0, <1>3, <1>4, GoOnIs, Zenon

\* What pattern_matches begins with.
LEMMA BeginIs ==
  ASSUME GlobTypes, pattern_matches
  PROVE  /\ Len(pattern') \in Nat /\ Len(name') \in Nat
         /\ budget' = match_budget(pattern', name')
         /\ loops = << >> /\ loops' = << >> /\ at_pattern' = 0 /\ at_name' = 0
         /\ \/ NowMatched /\ Means(pattern', name')
            \/ NowFailed /\ pattern' # << >> /\ ~ (Len(pattern') <= MAX_PATTERN)
            \/ NowCalled /\ pattern' # << >>
<1>1. PICK p \in Patterns, n \in Names :
        /\ pattern' = p /\ name' = n /\ budget' = match_budget(p, n)
        /\ matching' = IF p \in {<< >>, << "*" >>} THEN "matched"
                       ELSE IF Len(p) > MAX_PATTERN THEN "failed" ELSE "call"
  BY Zenon DEF pattern_matches
<1>2. /\ loops = << >> /\ loops' = << >> /\ at_pattern' = 0 /\ at_name' = 0
  BY Zenon DEF pattern_matches, GlobTypes
<1>3. Len(p) \in Nat /\ Len(n) \in Nat /\ MAX_PATTERN \in Nat
  <2>1. p \in Seq(ToSet(p)) /\ n \in Seq(DOMAIN Fold) /\ MAX_PATTERN \in Nat
    BY GlobAssumption
  <2> QED
    BY <2>1, LenProperties
<1>4. CASE p = << >>
  <2>1. NowMatched
    BY <1>1, <1>4, Becomes, Zenon
  <2>2. Means(pattern', name')
    BY <1>1, <1>4, Zenon DEF Means
  <2> QED
    BY <1>1, <1>2, <1>3, <2>1, <2>2, Zenon
<1>5. CASE p = << "*" >>
  <2>1. NowMatched
    BY <1>1, <1>5, Becomes, Zenon
  <2>2. Means(p, n)
    <3> DEFINE N == Len(n)
               path == [i \in 0 .. 1 |-> IF i = 0 THEN 0 ELSE N]
    <3>1. Len(p) = 1 /\ p[1] = "*"
      BY <1>5
    <3>2. Leads("*", n, 0) = 0 .. N
      BY Zenon DEF Leads
    <3>3. N \in 0 .. N /\ 0 \in 0 .. N
      <4> HIDE DEF N
      <4>1. N \in Nat
        BY ONLY <1>3 DEF N
      <4> QED
        BY ONLY <4>1
    <3>4. 0 \in 0 .. 1 /\ 1 \in 0 .. 1 /\ 1 # 0 /\ \A i \in 1 .. 1 : i = 1 /\ i - 1 = 0
      OBVIOUS
    <3>5. path \in [0 .. 1 -> 0 .. N] /\ path[0] = 0 /\ path[1] = N
      <4> HIDE DEF N
      <4> QED
        BY ONLY <3>3, <3>4
    <3> HIDE DEF path, N
    <3>6. \A i \in 1 .. 1 : path[i] \in Leads(p[i], n, path[i - 1])
      BY <3>1, <3>2, <3>3, <3>4, <3>5, Zenon
    <3> QED
      BY <3>1, <3>5, <3>6, Zenon DEF Means, N
  <2> QED
    BY <1>1, <1>2, <1>3, <2>1, <2>2, Zenon
<1>6. CASE p \notin {<< >>, << "*" >>}
  <2>1. pattern' # << >>
    BY <1>1, <1>6
  <2>2. CASE Len(p) > MAX_PATTERN
    <3>1. NowFailed
      BY <1>1, <1>6, <2>2, Becomes, Zenon
    <3>2. ~ (Len(p) <= MAX_PATTERN)
      BY ONLY <1>3, <2>2
    <3> QED
      BY <1>1, <1>2, <1>3, <2>1, <3>1, <3>2, Zenon
  <2>3. CASE ~ (Len(p) > MAX_PATTERN)
    <3>1. NowCalled
      BY <1>1, <1>6, <2>3, Becomes, Zenon
    <3> QED
      BY <1>1, <1>2, <1>3, <2>1, <3>1, Zenon
  <2> QED
    BY <2>2, <2>3
<1> QED
  BY <1>4, <1>5, <1>6, Zenon

LEMMA BeginKeeps ==
  ASSUME GlobInv, pattern_matches
  PROVE  GlobInv'
<1>0. /\ GlobTypes /\ Len(pattern') \in Nat /\ Len(name') \in Nat
      /\ budget' = match_budget(pattern', name')
      /\ loops' = << >> /\ at_pattern' = 0 /\ at_name' = 0
      /\ \/ NowMatched /\ Means(pattern', name')
         \/ NowFailed /\ pattern' # << >> /\ ~ (Len(pattern') <= MAX_PATTERN)
         \/ NowCalled /\ pattern' # << >>
  BY BeginIs, Zenon DEF GlobInv
<1>1. GlobTypes'
  <2>1. 0 \in 0 .. Len(pattern') /\ 0 \in 0 .. Len(name')
    BY <1>0
  <2>2. match_budget(pattern', name') \in Nat
    <3> DEFINE x == Pairs(pattern', name') * REVISITS
    <3>1. Pairs(pattern', name') \in Nat
      BY <1>0, Products DEF Pairs
    <3>2. x \in Nat /\ CEILING \in Nat
      BY <3>1, GlobAssumption
    <3> HIDE DEF x
    <3>3. match_budget(pattern', name') = x \/ match_budget(pattern', name') = CEILING
      BY DEF match_budget, Least2, x
    <3> QED
      BY <3>2, <3>3
  <2>3. loops' \in Seq(LoopType(Len(pattern'), Len(name')))
    BY <1>0, EmptySeq
  <2> QED
    BY <1>0, <2>1, <2>2, <2>3, Zenon DEF GlobTypes, NowMatched, NowFailed, NowCalled
<1>2. DOMAIN loops' = {}
  BY <1>0
<1>3. OnlyMatches'
  <2>1. LoopsAsked'
    BY <1>2, Zenon DEF LoopsAsked
  <2>2. AtCall' => Asked'
    BY <1>0, Zenon DEF AtCall, Asked
  <2> QED
    BY <1>0, <2>1, <2>2, Zenon DEF OnlyMatches, NowMatched, NowFailed, NowCalled
<1>4. NoneMissed'
  <2>1. Asked' => AtCall'
    BY <1>0, Zenon DEF AtCall, Asked
  <2> QED
    BY <1>0, <2>1, Zenon DEF NoneMissed, NowMatched, NowFailed, NowCalled
<1>5. CallsOfOne'
  <2>1. Calls' = at_pattern'
    <3> DEFINE B == match_budget(pattern', name')
    <3>1. budget' = B /\ budget' \in Nat /\ Calls' = B - budget' /\ at_pattern' = 0
      BY <1>0, <1>1, Zenon DEF Calls, GlobTypes
    <3> HIDE DEF B
    <3> QED
      BY ONLY <3>1
  <2>2. \A m \in 1 .. at_pattern' : m \notin Loops(pattern')
    BY <1>0
  <2>3. NoLoopYet'
    BY <2>1, <2>2, Zenon DEF NoLoopYet
  <2> QED
    BY <1>0, <2>3, Zenon DEF CallsOfOne, NowMatched, NowFailed, NowCalled
<1> QED
  BY <1>1, <1>3, <1>4, <1>5, Zenon DEF GlobInv

LEMMA GlobBegins == GlobInit => GlobInv
<1> SUFFICES ASSUME GlobInit PROVE GlobInv
  OBVIOUS
<1>1. /\ pattern = << >> /\ name = << >> /\ loops = << >>
      /\ budget = 0 /\ at_pattern = 0 /\ at_name = 0
      /\ ~Called /\ ~Back /\ ~Failed /\ ~Matched
  BY DEF GlobInit, Called, Back, Failed, Matched
<1>2. Len(pattern) = 0 /\ Len(name) = 0 /\ DOMAIN loops = {}
  BY <1>1
<1>3. loops \in Seq(LoopType(Len(pattern), Len(name)))
  BY <1>1, EmptySeq
<1>4. 0 \in 0 .. 0 /\ 0 \in Nat
  OBVIOUS
<1>5. GlobTypes
  BY <1>1, <1>2, <1>3, <1>4, Zenon DEF GlobTypes
<1> QED
  BY <1>1, <1>5, Zenon DEF GlobInv, OnlyMatches, NoneMissed, CallsOfOne

LEMMA GlobSteps == GlobInv /\ [GlobNext]_globVars => GlobInv'
<1> SUFFICES ASSUME GlobInv, [GlobNext]_globVars PROVE GlobInv'
  OBVIOUS
<1>1. CASE pattern_matches
  BY <1>1, BeginKeeps
<1>2. CASE glob_match
  BY <1>2, CallTypes, CallOnlyMatches, CallMissesNone, CallCountsCalls, Zenon DEF GlobInv
<1>3. CASE GoOn
  BY <1>3, GoOnTypes, GoOnOnlyMatches, GoOnMissesNone, GoOnCountsCalls, Zenon DEF GlobInv
<1>4. CASE UNCHANGED globVars
  BY <1>4, Zenon DEF globVars, GlobInv, GlobTypes, OnlyMatches, NoneMissed, CallsOfOne,
       Called, Back, Failed, Matched, Asked, AtCall, LoopsAsked, Leading, Waits, Few, GaveUp,
       Calls, NoLoopYet, OneLoop, CallsUpTo
<1> QED
  BY <1>1, <1>2, <1>3, <1>4, Zenon DEF GlobNext

LEMMA GlobInvMeans == GlobInv => GlobMeans
<1> SUFFICES ASSUME GlobInv PROVE GlobMeans
  OBVIOUS
<1>0. GlobTypes /\ OnlyMatches /\ NoneMissed
  BY Zenon DEF GlobInv
<1>1. matching = "matched" => Means(pattern, name)
  BY <1>0, Zenon DEF OnlyMatches, Matched
<1>2. ASSUME Failed, Means(pattern, name), Len(pattern) <= MAX_PATTERN
      PROVE  /\ match_budget(pattern, name) - budget >=
                  Least2(Pairs(pattern, name) * REVISITS, CEILING)
             /\ Cardinality(Loops(pattern)) > 1 \/ Pairs(pattern, name) > CEILING
  <2>1. Asked
    BY <1>0, <1>2, MeansEnds, Zenon DEF GlobTypes, Asked
  <2>2. budget = 0 /\ ~ (Cardinality(Loops(pattern)) <= 1 /\ Pairs(pattern, name) <= CEILING)
    BY <1>0, <1>2, <2>1, Zenon DEF NoneMissed, GaveUp, Few
  <2> DEFINE B == match_budget(pattern, name)
             c == Cardinality(Loops(pattern))
             x == Pairs(pattern, name)
  <2>3. B \in Nat /\ B = Least2(x * REVISITS, CEILING)
    BY <1>0, BudgetIs, Zenon DEF match_budget
  <2>4. c \in Nat /\ x \in Nat /\ CEILING \in Nat
    BY <1>0, LoopsOfPattern, PairsIs, GlobAssumption, Zenon DEF GlobTypes
  <2> HIDE DEF B, c, x
  <2>5. c > 1 \/ x > CEILING
    BY ONLY <2>2, <2>4 DEF c, x
  <2>6. B - budget >= B
    BY ONLY <2>2, <2>3
  <2> QED
    BY <2>3, <2>5, <2>6, Zenon DEF B, c, x
<1> QED
  BY <1>1, <1>2, Zenon DEF GlobMeans, Failed

\* Backtracking, with a budget that is paid call by call, answers what the wildcards
\* mean: a match is never invented, and one is missed only where two `*` or `<` share a
\* pattern or the ceiling cuts the budget, and then after all the calls that it allows.
THEOREM MatchesAreMeant == GlobSpec => []GlobMeans
<1>1. GlobSpec => []GlobInv
  BY GlobBegins, GlobSteps, PTL DEF GlobSpec
<1> QED
  BY <1>1, GlobInvMeans, PTL
=============================================================================
