------------------------------ MODULE Contents ------------------------------
(***************************************************************************)
(* The contents of a running share, and their replacement by              *)
(* SmbHandle::load while clients are reading (smb/mod.rs `Contents`,       *)
(* smb/files.rs `OpenState` and `OpenRegistry`).                           *)
(*                                                                         *)
(* Connections run on the runtime's worker threads, the loader on the      *)
(* owner's.  A file command holds the read guard of the contents lock from *)
(* its first look at the handle to its reply; CLOSE, LOGOFF,               *)
(* TREE_DISCONNECT and the end of a connection release handles without it. *)
(* A load takes the write guard, invalidates every registered handle,      *)
(* swaps the backing and lets go.                                          *)
(*                                                                         *)
(* A backing is its generation: 1 for the first one, one more per load.    *)
(* Data is represented by the generation it came from; paths, offsets and  *)
(* bytes are left out.  A handle is a model value, used once, as handle    *)
(* identifiers are never reused.                                           *)
(***************************************************************************)
EXTENDS Naturals

CONSTANTS
  Conns,      \* connections, each one served by a task of its own
  Handles,    \* OpenState objects that may be created
  None,       \* no handle and no connection
  MaxGen      \* bound: the number of generations a run goes through

ASSUME ContentsAssumption == /\ None \notin Handles \cup Conns
                             /\ MaxGen \in Nat \ {0}

VARIABLES
  gen,        \* the generation of `*current`, the backing being served
  loader,     \* where SmbHandle::load stands
  todo,       \* weak references taken by invalidate_all, not yet visited
  held,       \* the OpenState invalidate_all has upgraded, or None
  registry,   \* OpenRegistry::states
  pc,         \* where each connection's request stands
  cur,        \* the handle the request in hand names
  local,      \* generation of what the handler got from the backing
  reply,      \* the reply a file command is about to return
  stage,      \* life of each OpenState: see Stages
  owner,      \* the connection whose table the handle was put in
  kind,       \* NodeInfo::kind of the handle
  born,       \* generation whose stat() made the handle's NodeInfo
  valid,      \* OpenState::valid
  cache       \* generation of the cached reader or dir_entries, 0 for None

vars == << gen, loader, todo, held, registry, pc, cur, local, reply,
           stage, owner, kind, born, valid, cache >>

connVars   == << pc, cur, local, reply >>
loaderVars == << gen, loader, todo, held >>
stateVars  == << stage, owner, kind, born, valid, cache >>

Gens   == 1 .. MaxGen
Kinds  == { "file", "dir" }
Stages == { "unborn",     \* not created
            "open",       \* in its owner's handle table
            "dropping",   \* out of the table, its Arc still to be dropped
            "lent",       \* its owner's Arc is gone, the loader's is not
            "dying",      \* strong count 0, its resources being dropped
            "gone" }

NoReply     == [status |-> "none", from |-> 0]
Closed      == [status |-> "closed", from |-> 0]
Done        == [status |-> "done", from |-> 0]
Failed      == [status |-> "error", from |-> 0]
Served(g)   == [status |-> "ok", from |-> g]
Attributes(g) == [status |-> "attributes", from |-> g]

\* Positions of a connection at which it holds the read guard.
Guarded    == { "create", "insert", "read", "readAt", "list", "fill",
                "queryDir", "info", "replying" }
\* Positions of the loader at which it holds the write guard.
Exclusive  == { "take", "walk", "release" }
\* Positions at which a connection holds its handle's `resources` mutex.
InResources == { "readAt" }

(***************************************************************************)
(* The lock.  A writer that has found readers inside sets the waiting bit  *)
(* ("queued"), and readers that come later wait behind it.                 *)
(***************************************************************************)
Readers      == { c \in Conns : pc[c] \in Guarded }

ReadLockable == loader \notin Exclusive \cup { "queued" }

\* Arc::strong_count() > 0, which is also whether Weak::upgrade succeeds.
Strong(h) == stage[h] \in { "open", "dropping", "lent" }

\* Whether h is in c's table (Handles::get).
InTable(c, h) == stage[h] = "open" /\ owner[h] = c

Init ==
  /\ gen = 1
  /\ loader = "idle"
  /\ todo = {}
  /\ held = None
  /\ registry = {}
  /\ pc = [c \in Conns |-> "idle"]
  /\ cur = [c \in Conns |-> None]
  /\ local = [c \in Conns |-> 0]
  /\ reply = [c \in Conns |-> NoReply]
  /\ stage = [h \in Handles |-> "unborn"]
  /\ owner = [h \in Handles |-> None]
  /\ kind = [h \in Handles |-> "none"]
  /\ born = [h \in Handles |-> 0]
  /\ valid = [h \in Handles |-> FALSE]
  /\ cache = [h \in Handles |-> 0]

-----------------------------------------------------------------------------
(* File commands, under the read guard.                                    *)

Goto(c, p) == pc' = [pc EXCEPT ![c] = p]

\* The handler has its answer; the guard is dropped as file_command returns.
Answer(c, r) == /\ reply' = [reply EXCEPT ![c] = r]
                /\ Goto(c, "replying")

\* file_command takes the read guard for a command naming handle h.  The
\* client may name a handle it has closed, or one it never had.
BeginCommand(c, op, h) ==
  /\ pc[c] = "idle"
  /\ ReadLockable
  /\ Goto(c, op)
  /\ cur' = [cur EXCEPT ![c] = h]
  /\ UNCHANGED << loaderVars, registry, local, reply, stateVars >>

\* CREATE names no handle; h is the one it will make if it succeeds.
BeginCreate(c, h) ==
  /\ stage[h] = "unborn"
  /\ \A d \in Conns : pc[d] \in { "create", "insert" } => cur[d] # h
  /\ BeginCommand(c, "create", h)

\* create: the path is looked up in the backing, which may refuse it.
CreateStat(c) ==
  /\ pc[c] = "create"
  /\ \/ /\ local' = [local EXCEPT ![c] = gen]
        /\ Goto(c, "insert")
        /\ UNCHANGED reply
     \/ /\ Answer(c, Failed)
        /\ UNCHANGED local
  /\ UNCHANGED << loaderVars, registry, cur, stateVars >>

\* Mutant of Register: it drops the living and keeps the dead.
RegisterRetainsDead(h) == registry' = { s \in registry : ~Strong(s) } \cup { h }

\* OpenRegistry::register.  Dead entries go when the vector is full; how full
\* it is is not modelled here, so either may happen.
Register(h) ==
  \/ registry' = registry \cup { h }
  \/ registry' = { s \in registry : Strong(s) } \cup { h }

\* create, Handles::insert: a new OpenState, registered and put in the table.
CreateInsert(c, k) ==
  LET h == cur[c] IN
  /\ pc[c] = "insert"
  /\ stage[h] = "unborn"
  /\ Register(h)
  /\ stage' = [stage EXCEPT ![h] = "open"]
  /\ owner' = [owner EXCEPT ![h] = c]
  /\ kind' = [kind EXCEPT ![h] = k]
  /\ born' = [born EXCEPT ![h] = local[c]]
  /\ valid' = [valid EXCEPT ![h] = TRUE]
  /\ Answer(c, Served(local[c]))
  /\ UNCHANGED << loaderVars, cur, local, cache >>

\* Mutant of Usable: nobody asks whether a load has invalidated the handle.
UsableIfOpen(c, h) == InTable(c, h)

\* The checks every handler opens with: the handle is in this connection's
\* table and no load has invalidated it, else FILE_CLOSED.
Usable(c, h) == InTable(c, h) /\ valid[h]

\* A command refused with FILE_CLOSED, or because its body is malformed or the
\* handle of the other kind (INVALID_DEVICE_REQUEST, NOT_A_DIRECTORY).
Refuse(c) ==
  /\ \/ ~Usable(c, cur[c]) /\ Answer(c, Closed)
     \/ Answer(c, Failed)
  /\ UNCHANGED << loaderVars, registry, cur, local, stateVars >>

\* read: the checks, then the reader is opened unless it is cached.  Opening
\* may fail, and then nothing is cached.
Read(c) ==
  LET h == cur[c] IN
  /\ pc[c] = "read"
  /\ \/ Refuse(c)
     \/ /\ Usable(c, h) /\ kind[h] = "file"
        /\ \/ /\ cache' = [cache EXCEPT ![h] = IF @ = 0 THEN gen ELSE @]
              /\ Goto(c, "readAt")
              /\ UNCHANGED reply
           \/ /\ cache[h] = 0
              /\ Answer(c, Failed)
              /\ UNCHANGED cache
        /\ UNCHANGED << loaderVars, registry, cur, local, stage, owner, kind,
                         born, valid >>

\* Mutant of ReadAt: it asks for the read guard again, which it has already.
ReadAtGuardAgain(c) ==
  /\ pc[c] = "readAt"
  /\ ReadLockable
  /\ \E r \in { Served(cache[cur[c]]), Failed } : Answer(c, r)
  /\ UNCHANGED << loaderVars, registry, cur, local, stateVars >>

\* read: reader.read_at, with the resources mutex held.
ReadAt(c) ==
  /\ pc[c] = "readAt"
  /\ \E r \in { Served(cache[cur[c]]), Failed } : Answer(c, r)
  /\ UNCHANGED << loaderVars, registry, cur, local, stateVars >>

\* query_directory, first half: the checks, and whether a listing is needed.
QueryDirectory(c) ==
  LET h == cur[c] IN
  /\ pc[c] = "queryDir"
  /\ \/ Refuse(c)
     \/ /\ Usable(c, h) /\ kind[h] = "dir"
        /\ Goto(c, IF cache[h] = 0 THEN "list" ELSE "fill")
        /\ UNCHANGED << loaderVars, registry, cur, local, reply, stateVars >>

\* query_directory: backing.list, outside the resources mutex.
ListBacking(c) ==
  /\ pc[c] = "list"
  /\ \/ /\ local' = [local EXCEPT ![c] = gen]
        /\ Goto(c, "fill")
        /\ UNCHANGED reply
     \/ /\ Answer(c, Failed)
        /\ UNCHANGED local
  /\ UNCHANGED << loaderVars, registry, cur, stateVars >>

\* query_directory, second half: the handle is looked up and checked again,
\* the listing stored, and a page of the stored one returned, unless there is
\* none (see module DirScan).
FillListing(c) ==
  LET h == cur[c] IN
  /\ pc[c] = "fill"
  /\ \/ /\ ~Usable(c, h)
        /\ Answer(c, Closed)
        /\ UNCHANGED cache
     \/ /\ Usable(c, h)
        /\ cache' = [cache EXCEPT ![h] = IF local[c] # 0 THEN local[c] ELSE @]
        /\ \E r \in { Served(cache'[h]), Failed } : Answer(c, r)
  /\ UNCHANGED << loaderVars, registry, cur, local, stage, owner, kind, born,
                   valid >>

\* query_info: the FILE classes answer from the handle's NodeInfo, the
\* FILESYSTEM ones from the backing.
QueryInfo(c) ==
  LET h == cur[c] IN
  /\ pc[c] = "info"
  /\ \/ Refuse(c)
     \/ /\ Usable(c, h)
        /\ \E g \in { born[h], gen } : Answer(c, Served(g))
        /\ UNCHANGED << loaderVars, registry, cur, local, stateVars >>

\* file_command returns: the read guard goes, and the reply with it.
EndCommand(c) ==
  /\ pc[c] = "replying"
  /\ Goto(c, "idle")
  /\ cur' = [cur EXCEPT ![c] = None]
  /\ local' = [local EXCEPT ![c] = 0]
  /\ reply' = [reply EXCEPT ![c] = NoReply]
  /\ UNCHANGED << loaderVars, registry, stateVars >>
-----------------------------------------------------------------------------
(* Releasing handles, without the contents lock.                           *)

\* The handles in S leave c's table; their Arcs are dropped one by one.
Release(c, S, r) ==
  /\ pc[c] = "idle"
  /\ Goto(c, "dropping")
  /\ stage' = [h \in Handles |-> IF h \in S THEN "dropping" ELSE stage[h]]
  /\ reply' = [reply EXCEPT ![c] = r]
  /\ UNCHANGED << loaderVars, registry, cur, local, owner, kind, born, valid,
                  cache >>

Table(c) == { h \in Handles : InTable(c, h) }

\* close: no check of `valid`, so a handle that a load has invalidated closes
\* normally; POSTQUERY_ATTRIB asks for the NodeInfo it was opened with.  Or the
\* body is malformed.
Close(c, h) ==
  \/ /\ InTable(c, h)
     /\ \E r \in { Done, Attributes(born[h]) } : Release(c, { h }, r)
  \/ ~InTable(c, h) /\ Release(c, {}, Closed)
  \/ Release(c, {}, Failed)

\* close_tree, for TREE_DISCONNECT: S is what the tree owns.
CloseTree(c, S) == S \subseteq Table(c) /\ Release(c, S, Done)

\* close_all, for LOGOFF, and the handle table's own drop when the connection
\* ends.
CloseAll(c) == Release(c, Table(c), Done)

\* c drops the Arc of one handle it has taken out of its table.  The strong
\* count reaches zero unless invalidate_all holds an upgraded one.
DropArc(c, h) ==
  /\ pc[c] = "dropping"
  /\ owner[h] = c /\ stage[h] = "dropping"
  /\ \A s \in Handles : ~(owner[s] = c /\ stage[s] = "dying")
  /\ stage' = [stage EXCEPT ![h] = IF held = h THEN "lent" ELSE "dying"]
  /\ UNCHANGED << loaderVars, registry, connVars, owner, kind, born, valid,
                  cache >>

\* ... and the drop of the OpenState drops the cached reader and listing.
DropState(c, h) ==
  /\ pc[c] = "dropping"
  /\ owner[h] = c /\ stage[h] = "dying"
  /\ stage' = [stage EXCEPT ![h] = "gone"]
  /\ cache' = [cache EXCEPT ![h] = 0]
  /\ UNCHANGED << loaderVars, registry, connVars, owner, kind, born, valid >>

EndRelease(c) ==
  /\ pc[c] = "dropping"
  /\ \A h \in Handles : ~(owner[h] = c /\ stage[h] \in { "dropping", "dying" })
  /\ Goto(c, "idle")
  /\ reply' = [reply EXCEPT ![c] = NoReply]
  /\ UNCHANGED << loaderVars, registry, cur, local, stateVars >>

-----------------------------------------------------------------------------
(* SmbHandle::load, Contents::replace                                      *)

\* The owner has opened another archive and calls load.
Load ==
  /\ loader = "idle"
  /\ gen < MaxGen
  /\ loader' = "want"
  /\ UNCHANGED << gen, todo, held, registry, connVars, stateVars >>

\* Readers inside: the writer sets the waiting bit and sleeps.
LoadQueue ==
  /\ loader = "want"
  /\ Readers # {}
  /\ loader' = "queued"
  /\ UNCHANGED << gen, todo, held, registry, connVars, stateVars >>

LoadLock ==
  /\ loader \in { "want", "queued" }
  /\ Readers = {}
  /\ loader' = "take"
  /\ UNCHANGED << gen, todo, held, registry, connVars, stateVars >>

\* invalidate_all takes the vector of weak references...
LoadTake ==
  /\ loader = "take"
  /\ todo' = registry
  /\ registry' = {}
  /\ loader' = "walk"
  /\ UNCHANGED << gen, held, connVars, stateVars >>

\* ... upgrades each one that still can be; in no particular order here...
LoadUpgrade(h) ==
  /\ loader = "walk" /\ held = None
  /\ h \in todo
  /\ todo' = todo \ { h }
  /\ held' = IF Strong(h) THEN h ELSE None
  /\ UNCHANGED << gen, loader, registry, connVars, stateVars >>

\* Mutant of LoadInvalidate: the flag is cleared, the resources are not.
LoadInvalidateFlag ==
  /\ held # None /\ valid[held]
  /\ valid' = [valid EXCEPT ![held] = FALSE]
  /\ UNCHANGED << gen, loader, todo, held, registry, connVars, stage, owner,
                  kind, born, cache >>

\* ... and invalidates it: OpenState::invalidate takes the resources mutex.
LoadInvalidate ==
  /\ held # None /\ valid[held]
  /\ \A c \in Conns : ~(pc[c] \in InResources /\ cur[c] = held)
  /\ valid' = [valid EXCEPT ![held] = FALSE]
  /\ cache' = [cache EXCEPT ![held] = 0]
  /\ UNCHANGED << gen, loader, todo, held, registry, connVars, stage, owner,
                  kind, born >>

\* The upgraded Arc goes at the end of the loop body.  It is the last one if
\* the connection has dropped its own; there is nothing cached left to drop.
LoadDropArc ==
  /\ held # None /\ ~valid[held]
  /\ held' = None
  /\ stage' = [stage EXCEPT ![held] = IF @ = "lent" THEN "gone" ELSE @]
  /\ UNCHANGED << gen, loader, todo, registry, connVars, owner, kind, born,
                  valid, cache >>

\* Mutant of LoadSwap: it does not wait for invalidate_all.
LoadSwapFirst ==
  /\ loader = "walk" /\ held = None
  /\ gen' = gen + 1
  /\ todo' = {}
  /\ loader' = "release"
  /\ UNCHANGED << held, registry, connVars, stateVars >>

\* *current = backing, and the old backing goes.
LoadSwap ==
  /\ loader = "walk" /\ held = None /\ todo = {}
  /\ gen' = gen + 1
  /\ loader' = "release"
  /\ UNCHANGED << todo, held, registry, connVars, stateVars >>

\* The write guard is dropped and load returns.
LoadReturn ==
  /\ loader = "release"
  /\ loader' = "idle"
  /\ UNCHANGED << gen, todo, held, registry, connVars, stateVars >>

-----------------------------------------------------------------------------
Commands == { "read", "queryDir", "info" }

\* The steps of a command or a release that is under way.
ConnStep(c) ==
  \/ CreateStat(c)
  \/ \E k \in Kinds : CreateInsert(c, k)
  \/ Read(c)
  \/ ReadAt(c)
  \/ QueryDirectory(c)
  \/ ListBacking(c)
  \/ FillListing(c)
  \/ QueryInfo(c)
  \/ EndCommand(c)
  \/ \E h \in Handles : DropArc(c, h)
  \/ \E h \in Handles : DropState(c, h)
  \/ EndRelease(c)

\* The requests a client may send next.
ConnRequest(c) ==
  \/ \E h \in Handles : BeginCreate(c, h)
  \/ \E op \in Commands, h \in Handles : BeginCommand(c, op, h)
  \/ \E h \in Handles : Close(c, h)
  \/ \E S \in SUBSET Handles : CloseTree(c, S)
  \/ CloseAll(c)

\* The steps of a load that is under way.
LoadStep ==
  \/ LoadQueue
  \/ LoadLock
  \/ LoadTake
  \/ \E h \in Handles : LoadUpgrade(h)
  \/ LoadInvalidate
  \/ LoadDropArc
  \/ LoadSwap
  \/ LoadReturn

Next == \/ \E c \in Conns : ConnRequest(c) \/ ConnStep(c)
        \/ Load
        \/ LoadStep

Spec == Init /\ [][Next]_vars

\* The runtime keeps running a handler it has begun (block_in_place) and the
\* owner's thread a load; backing calls return.  Nothing makes a client send
\* another request or the owner load again.
Fairness == /\ \A c \in Conns : WF_vars(ConnStep(c))
            /\ WF_vars(LoadStep)

FairSpec == Spec /\ Fairness

-----------------------------------------------------------------------------
Replies == { NoReply, Closed, Done, Failed }
           \cup { Served(g) : g \in Gens } \cup { Attributes(g) : g \in Gens }

\* The type invariant: the positions, sets and generations the code can be at.
TypeOK ==
  /\ gen \in Gens
  /\ loader \in { "idle", "want", "queued" } \cup Exclusive
  /\ todo \subseteq Handles
  /\ held \in Handles \cup { None }
  /\ registry \subseteq Handles
  /\ pc \in [Conns -> { "idle", "dropping" } \cup Guarded]
  /\ cur \in [Conns -> Handles \cup { None }]
  /\ local \in [Conns -> Gens \cup { 0 }]
  /\ reply \in [Conns -> Replies]
  /\ stage \in [Handles -> Stages]
  /\ owner \in [Handles -> Conns \cup { None }]
  /\ kind \in [Handles -> Kinds \cup { "none" }]
  /\ born \in [Handles -> Gens \cup { 0 }]
  /\ valid \in [Handles -> BOOLEAN]
  /\ cache \in [Handles -> Gens \cup { 0 }]

\* Whatever READ, QUERY_DIRECTORY, QUERY_INFO or CREATE returns comes from the
\* contents that are loaded at that moment: no reader or listing cached by an
\* earlier request, and nothing a handler fetched before it was delayed,
\* survives a load.
ServedFresh ==
  [][\A c \in Conns :
       reply'[c] # reply[c] /\ reply'[c].status = "ok" => reply'[c].from = gen]_vars

\* Between loads a handle works exactly if it was opened against what is
\* loaded: a load invalidates every older one, including those registered or
\* closed while it waited, and no newer one.
UsableExactlyIfCurrent ==
  loader \notin Exclusive =>
    \A h \in Handles : stage[h] = "open" => (valid[h] <=> born[h] = gen)

\* OpenState: "no data from an old archive remains retained after the operation
\* returns", for every handle somebody still holds.
NoRetainedCache ==
  loader \notin Exclusive =>
    \A h \in Handles : Strong(h) => cache[h] \in { 0, gen }

\* SmbHandle::load: "when this method returns, no cached file reader keeps the
\* previous backing open".
LoadLeavesNoReader ==
  loader = "idle" =>
    \A h \in Handles : kind[h] = "file" => cache[h] \in { 0, gen }

\* SmbHandle::load returns: "active backing operations finish first", and
\* clients that keep asking do not keep it out.
LoadReturns == loader # "idle" ~> loader = "idle"

Abstract == INSTANCE Share WITH table <- [c \in Conns |-> Table(c)],
                                opened <- born

\* Clients and owner see the atomic share of module Share.
ImplementsShare == Abstract!Spec

-----------------------------------------------------------------------------
(* The inductive invariant behind these properties, in named parts.        *)

\* The contents lock excludes the loader and the file commands.
LockExcludes == loader \in Exclusive => \A c \in Conns : pc[c] \notin Guarded

\* invalidate_all's locals, and the registry it has emptied until the write
\* guard is dropped.
LoaderLocals == /\ loader \notin { "idle", "release" } => gen < MaxGen
                /\ loader # "walk" => todo = {} /\ held = None
                /\ loader \in { "walk", "release" } => registry = {}
                /\ held # None => Strong(held)
                /\ \A h \in Handles : stage[h] = "lent" => held = h

\* No valid handle escapes the walk: it is registered, or about to be visited.
\* This is what CREATE's registering under the read guard is for.
ValidRegistered ==
  \A h \in Handles :
    Strong(h) /\ valid[h] => /\ h \in registry \cup todo \cup { held }
                            /\ born[h] = gen

\* What is cached is of the handle's own generation, and only valid handles
\* cache anything.
CacheOfOwnGen ==
  \A h \in Handles : Strong(h) /\ cache[h] # 0 => valid[h] /\ cache[h] = born[h]

\* Only a load invalidates, and what it invalidates is older than what it
\* installs.
InvalidIsOld ==
  \A h \in Handles :
    /\ born[h] <= gen
    /\ stage[h] = "unborn" <=> born[h] = 0
    /\ stage[h] = "unborn" => cache[h] = 0
    /\ stage[h] \in { "open", "dropping" } => owner[h] \in Conns
    /\ loader # "walk" /\ stage[h] = "open" /\ ~valid[h] => born[h] < gen

\* What a handler holds in its locals is still true at its next step.
HandlerLocals ==
  \A c \in Conns :
    /\ pc[c] \in Guarded => cur[c] \in Handles
    /\ pc[c] \notin { "insert", "fill", "replying" } => local[c] = 0
    /\ pc[c] = "insert" => local[c] = gen
    /\ pc[c] \in { "readAt", "list", "fill" } => Usable(c, cur[c])
    /\ pc[c] = "readAt" => cache[cur[c]] = gen
    /\ pc[c] = "fill" => local[c] = gen \/ (local[c] = 0 /\ cache[cur[c]] = gen)

\* There is an answer exactly from when it is decided to when it leaves.
ReplyPending ==
  \A c \in Conns : reply[c] = NoReply <=> pc[c] \notin { "replying", "dropping" }

IInv == /\ TypeOK
        /\ LockExcludes
        /\ LoaderLocals
        /\ ValidRegistered
        /\ CacheOfOwnGen
        /\ InvalidIsOld
        /\ HandlerLocals
        /\ ReplyPending
=============================================================================
