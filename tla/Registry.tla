------------------------------- MODULE Registry -------------------------------
(* OpenRegistry (smb/files.rs): the vector of weak references to the files   *)
(* that are open, in which a load finds them.  Contents has what it is for;  *)
(* here is how large it gets, with connections that open and close files     *)
(* while another registers one under the mutex.                              *)
(*                                                                           *)
(* An entry is the open file it refers to, as long as the vector has it; the *)
(* order of entries is not told apart.  How a vector grows is the standard   *)
(* library's.                                                                *)
EXTENDS Integers, FiniteSets

CONSTANTS
  Opens,          \* what can be open: each again once nothing refers to it
  NoOpen,
  MIN_CAPACITY    \* of a vector that has an entry

ASSUME RegistryAssumption == /\ IsFiniteSet(Opens) /\ NoOpen \notin Opens
                             /\ MIN_CAPACITY \in Nat \ {0}

VARIABLES
  states,         \* the entries
  capacity,       \* of the vector
  alive,          \* what is open
  unregistered,   \* what has been opened and is not in the vector yet
  registering,    \* what is being registered, under the mutex
  kept,           \* the entries retain has looked at and left in
  peak            \* history: the most that was open at once since the last load

registryVars == << states, capacity, alive, unregistered, registering, kept, peak >>

-----------------------------------------------------------------------------

Full  == Cardinality(states) = capacity
Grown == IF 2 * capacity < MIN_CAPACITY THEN MIN_CAPACITY ELSE 2 * capacity

\* CREATE: a new OpenState.
OpenNew(o) ==
  /\ o \notin alive \cup states
  /\ alive' = alive \cup {o} /\ unregistered' = unregistered \cup {o}
  /\ peak' = IF Cardinality(alive') > peak THEN Cardinality(alive') ELSE peak
  /\ UNCHANGED << states, capacity, registering, kept >>

\* A mutant of LookThrough: dead entries are never looked for.
NeverLook == kept' = states

\* retain begins if there is no room; otherwise everything stays.
LookThrough == kept' = IF Full THEN {} ELSE states

\* register takes the mutex.
BeginRegister(o) ==
  /\ registering = NoOpen /\ o \in unregistered
  /\ registering' = o
  /\ LookThrough
  /\ UNCHANGED << states, capacity, alive, unregistered, peak >>

\* retain looks at one more entry.
Retain(o) ==
  /\ registering # NoOpen /\ o \in states \ kept
  /\ IF o \in alive THEN kept' = kept \cup {o} /\ UNCHANGED states
     ELSE states' = states \ {o} /\ UNCHANGED kept
  /\ UNCHANGED << capacity, alive, unregistered, registering, peak >>

\* push, which grows a full vector, and the mutex is given back.
Push ==
  /\ registering # NoOpen /\ kept = states
  /\ states' = states \cup {registering}
  /\ capacity' = IF Full THEN Grown ELSE capacity
  /\ unregistered' = unregistered \ {registering}
  /\ registering' = NoOpen /\ kept' = {}
  /\ UNCHANGED << alive, peak >>

\* CLOSE, a tree or a connection that goes: the last reference is dropped, and
\* nothing waits for who is registering.
DropOpen(o) ==
  /\ o \in alive \ unregistered
  /\ alive' = alive \ {o}
  /\ UNCHANGED << states, capacity, unregistered, registering, kept, peak >>

\* invalidate_all takes the vector, and leaves one without an allocation.
InvalidateAll ==
  /\ registering = NoOpen
  /\ states' = {} /\ capacity' = 0 /\ peak' = Cardinality(alive)
  /\ UNCHANGED << alive, unregistered, registering, kept >>

RegistryInit ==
  /\ states = {} /\ capacity = 0 /\ alive = {} /\ unregistered = {}
  /\ registering = NoOpen /\ kept = {} /\ peak = 0

RegistryNext ==
  \/ \E o \in Opens : OpenNew(o) \/ BeginRegister(o) \/ Retain(o) \/ DropOpen(o)
  \/ Push
  \/ InvalidateAll

RegistrySpec == RegistryInit /\ [][RegistryNext]_registryVars

-----------------------------------------------------------------------------
(* Properties.                                                             *)

\* register: the vector holds what it was made for, and is never twice as large as
\* what was open at once, however many files are opened and closed one after the
\* other and whoever closes one while another is registered.
RegistryBounded ==
  /\ Cardinality(states) <= capacity
  /\ capacity <= MIN_CAPACITY \/ capacity < 2 * peak
=============================================================================
