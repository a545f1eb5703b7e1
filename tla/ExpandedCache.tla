---------------------------- MODULE ExpandedCache ----------------------------
(***************************************************************************)
(* The expanded entries of a ZIP archive (src/archive/zip.rs).  A READ of  *)
(* an entry needs a decompressed copy of it on disk.  Each entry has a slot*)
(* for that copy under a mutex of its own; the least-recently-used account *)
(* of all copies is under another mutex, and decompressing under a third.  *)
(* A reader never holds the slot and the account together, so a copy is in *)
(* its slot before the account knows of it, and the account drops copies   *)
(* from slots that readers may be looking at.                              *)
(*                                                                         *)
(* A lock is held by whoever stands at a position between taking and giving*)
(* it back.  Ticks are abstracted to the order they put entries in.        *)
(***************************************************************************)
EXTENDS Naturals, FiniteSets, FiniteSetsExt

CONSTANTS
  Readers,   \* the threads that serve READs of the archive
  Entries,   \* the files in the archive
  Size,      \* the expanded size of each
  Limit      \* MAX_EXPANDED_BYTES

ASSUME CacheAssumption ==
  /\ IsFiniteSet(Readers)
  /\ Size \in [Entries -> Nat]
  /\ Limit \in Nat

VARIABLES
  pc,        \* where each reader stands in expand
  want,      \* the entry it opened last
  cached,    \* the entries whose slot holds a copy
  resident,  \* the entries the account knows of
  older,     \* <<e, f>>: e was used before f, both resident
  total,     \* the bytes the account adds up to
  todo       \* the candidates eviction has not come to yet
vars == <<pc, want, cached, resident, older, total, todo>>

account == <<resident, older, total, todo>>

Positions == {"idle", "asking", "looking", "waiting", "rechecking", "queued",
              "expanding", "touching", "remembering", "evicting"}

\* Holding the mutex of the slot of the entry it wants.
HoldsSlot == {"looking", "rechecking", "queued", "expanding"}

Locked(e) == \E r \in Readers : want[r] = e /\ pc[r] \in HoldsSlot
ArchiveLocked == \E r \in Readers : pc[r] = "expanding"
AccountLocked == \E r \in Readers : pc[r] = "evicting"

Goto(r, from, to) == pc[r] = from /\ pc' = [pc EXCEPT ![r] = to]

Init == /\ pc = [r \in Readers |-> "idle"]
        /\ want \in [Readers -> Entries]
        /\ cached = {}
        /\ resident = {}
        /\ older = {}
        /\ total = 0
        /\ todo = {}

-----------------------------------------------------------------------------
(* Finding the copy, or making it.                                         *)

\* open: a READ on a handle that has no reader yet.
Open(r, e) ==
  /\ Goto(r, "idle", "asking")
  /\ want' = [want EXCEPT ![r] = e]
  /\ UNCHANGED <<cached, account>>

\* The slot is locked for a look.
LookInSlot(r) ==
  /\ ~Locked(want[r])
  /\ Goto(r, "asking", "looking")
  /\ UNCHANGED <<want, cached, account>>

\* The slot is given back, and the copy it held, if any, is taken along.
LookedInSlot(r) ==
  /\ IF want[r] \in cached THEN Goto(r, "looking", "touching")
                           ELSE Goto(r, "looking", "waiting")
  /\ UNCHANGED <<want, cached, account>>

\* Nothing there: the slot is locked again, to be filled.
LockSlot(r) ==
  /\ ~Locked(want[r])
  /\ Goto(r, "waiting", "rechecking")
  /\ UNCHANGED <<want, cached, account>>

\* A mutant of Recheck: the slot is not looked at again.
RecheckSkipped(r) ==
  /\ Goto(r, "rechecking", "queued")
  /\ UNCHANGED <<want, cached, account>>

\* Somebody else may have filled it in between.
Recheck(r) ==
  /\ IF want[r] \in cached THEN Goto(r, "rechecking", "touching")
                           ELSE Goto(r, "rechecking", "queued")
  /\ UNCHANGED <<want, cached, account>>

\* The archive's own mutex is taken while the slot is held.
LockArchive(r) ==
  /\ ~ArchiveLocked
  /\ Goto(r, "queued", "expanding")
  /\ UNCHANGED <<want, cached, account>>

\* The copy is complete, and of the size the index promised: it goes into the
\* slot, and all mutexes are given back before the account is asked for.
Expanded(r) ==
  /\ Goto(r, "expanding", "remembering")
  /\ cached' = cached \union {want[r]}
  /\ UNCHANGED <<want, account>>

\* Decompressing failed, or the disk is full.  The partial copy goes away.
ExpandFailed(r) ==
  /\ Goto(r, "expanding", "idle")
  /\ UNCHANGED <<want, cached, account>>

-----------------------------------------------------------------------------
(* The account.                                                            *)

SaturatingSub(a, b) == IF a > b THEN a - b ELSE 0

OlderWithout(e) == {p \in older : p[1] # e /\ p[2] # e}

\* The order with e used last.
UsedLast(e) == OlderWithout(e) \union ((resident \ {e}) \X {e})

\* touch_expanded: an entry that is not (or not yet) resident is passed over.
Touch(r) ==
  /\ ~AccountLocked
  /\ Goto(r, "touching", "idle")
  /\ older' = IF want[r] \in resident THEN UsedLast(want[r]) ELSE older
  /\ UNCHANGED <<want, cached, resident, total, todo>>

\* remember_expanded, insert: the copy is accounted for as the one used last.
\* If that goes past the limit, the mutex is kept for the eviction.
Remember(r) ==
  LET e == want[r]
      rest == IF e \in resident THEN SaturatingSub(total, Size[e]) ELSE total
  IN /\ ~AccountLocked
     /\ resident' = resident \union {e}
     /\ older' = UsedLast(e)
     /\ total' = rest + Size[e]
     /\ IF rest + Size[e] <= Limit
        THEN /\ Goto(r, "remembering", "idle")
             /\ todo' = {}
        ELSE /\ Goto(r, "remembering", "evicting")
             /\ todo' = resident \ {e}
     /\ UNCHANGED <<want, cached>>

\* evict_down_to_limit takes the candidates from the oldest on.
Oldest(e) == e \in todo /\ \A f \in todo \ {e} : <<e, f>> \in older

\* The slot is free: the copy is dropped from it and from the account.  Handles
\* that have the copy keep it.
Evict(r, e) ==
  /\ pc[r] = "evicting"
  /\ total > Limit
  /\ Oldest(e)
  /\ ~Locked(e)
  /\ cached' = cached \ {e}
  /\ resident' = resident \ {e}
  /\ older' = OlderWithout(e)
  /\ total' = SaturatingSub(total, Size[e])
  /\ todo' = todo \ {e}
  /\ UNCHANGED <<pc, want>>

\* A mutant of PassOver: the eviction ends at the first slot that is locked.
PassOverAll(r, e) ==
  /\ pc[r] = "evicting"
  /\ total > Limit
  /\ Oldest(e)
  /\ Locked(e)
  /\ todo' = {}
  /\ UNCHANGED <<pc, want, cached, resident, older, total>>

\* try_lock fails: the candidate is passed over, and not come back to.
PassOver(r, e) ==
  /\ pc[r] = "evicting"
  /\ total > Limit
  /\ Oldest(e)
  /\ Locked(e)
  /\ todo' = todo \ {e}
  /\ UNCHANGED <<pc, want, cached, resident, older, total>>

\* The total is under the limit, or the candidates are used up.
EvictionDone(r) ==
  /\ total <= Limit \/ todo = {}
  /\ Goto(r, "evicting", "idle")
  /\ todo' = {}
  /\ UNCHANGED <<want, cached, resident, older, total>>

Find(r) == \/ \E e \in Entries : Open(r, e)
           \/ LookInSlot(r)
           \/ LookedInSlot(r)
           \/ LockSlot(r)
           \/ Recheck(r)
           \/ LockArchive(r)
           \/ Expanded(r)
           \/ ExpandFailed(r)

Account(r) == \/ Touch(r)
              \/ Remember(r)
              \/ \E e \in Entries : Evict(r, e)
              \/ \E e \in Entries : PassOver(r, e)
              \/ EvictionDone(r)

Next == \E r \in Readers : Find(r) \/ Account(r)

Spec == Init /\ [][Next]_vars

-----------------------------------------------------------------------------
(* Properties.                                                             *)

\* The state has its types.  One reader at a time is inside each mutex.
TypeOK == /\ pc \in [Readers -> Positions]
          /\ want \in [Readers -> Entries]
          /\ cached \subseteq Entries
          /\ resident \subseteq Entries
          /\ older \subseteq resident \X resident
          /\ total \in Nat
          /\ todo \subseteq resident

\* expand: a copy that lies in a slot counts towards the limit, or the one
\* reader that made it is about to see to that; nothing else is counted.  No
\* copy stays on disk that eviction could never find.
CopiesCounted ==
  /\ resident \subseteq cached
  /\ \A e \in cached \ resident :
       \E r \in Readers : pc[r] = "remembering" /\ want[r] = e

\* expand: an entry is not decompressed while there is a copy of it, nor by two
\* readers at once, and no copy is counted twice.
ExpandedOnce ==
  /\ \A r \in Readers :
       /\ pc[r] \in {"queued", "expanding"} => want[r] \notin cached
       /\ pc[r] = "remembering" => want[r] \in cached \ resident
  /\ \A r, s \in Readers :
       r # s /\ want[r] = want[s] /\ pc[r] = "remembering" => pc[s] # "remembering"

\* ExpandedCache: `order` orders the entries of `resident`, all of them and
\* nothing else.
OrderOfResidents ==
  /\ \A e, f \in resident : e # f => <<e, f>> \in older \/ <<f, e>> \in older
  /\ \A e, f \in Entries : <<e, f>> \in older =>
       /\ e \in resident /\ f \in resident
       /\ <<f, e>> \notin older
  /\ \A e, f, g \in Entries :
       <<e, f>> \in older /\ <<f, g>> \in older => <<e, g>> \in older

\* ExpandedCache: the total is what the resident copies take.
TotalIsSum == total = MapThenSumSet(LAMBDA e : Size[e], resident)

\* ExpandedCache, expand: what lies in the slots, what is being expanded and what
\* the account knows agree, whoever is between any two of its locks, and the total
\* is theirs.
CacheAgrees == TypeOK /\ CopiesCounted /\ ExpandedOnce /\ OrderOfResidents /\ TotalIsSum

\* evict_down_to_limit: copies that were in use when the eviction came by stay
\* over the limit, but each of them costs a reader who cannot look at another
\* before the eviction is over.  Past the limit there are therefore never more
\* copies counted than there are readers.
LimitMet == total > Limit /\ ~AccountLocked => Cardinality(resident) <= Cardinality(Readers)

-----------------------------------------------------------------------------
(* The inductive invariant of the proofs.                                  *)

\* A slot has one holder, and so have the archive and the account.
LocksExclude ==
  \A r, s \in Readers : r # s =>
    /\ ~(want[r] = want[s] /\ pc[r] \in HoldsSlot /\ pc[s] \in HoldsSlot)
    /\ ~(pc[r] = "evicting" /\ pc[s] = "evicting")

\* What the eviction has passed over has a reader that was looking at it and
\* waits for the account now, or will.
PassedOverInUse ==
  \A r \in Readers : pc[r] = "evicting" =>
    \A e \in resident \ (todo \union {want[r]}) :
      \E s \in Readers \ {r} :
        want[s] = e /\ pc[s] \in {"looking", "rechecking", "touching"}

IInv == TypeOK /\ LocksExclude /\ CopiesCounted /\ ExpandedOnce
        /\ OrderOfResidents /\ PassedOverInUse /\ LimitMet
=============================================================================
