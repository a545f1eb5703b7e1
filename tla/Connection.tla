----------------------------- MODULE Connection -----------------------------
(***************************************************************************)
(* One connection of the server: the session, trees, handles and pipe a    *)
(* client builds up, and the compound messages it does it with             *)
(* (smb/mod.rs `serve_connection`, `handle_message`, `execute`;            *)
(* smb/session.rs; `Handles` of smb/files.rs).                             *)
(*                                                                         *)
(* One step is one request of a message, in the order the chain gives      *)
(* them.  Any request may be refused for reasons outside this module (its  *)
(* body, its path, the contents), so refusal is one action, `Refuse`, and  *)
(* each other action is a request that is carried out.  Once a connection  *)
(* holds a signing key a message it accepts is signed with it; the one     *)
(* exemption, an unsigned ECHO, does nothing here.                         *)
(*                                                                         *)
(* Identifiers are small numbers in the order they are handed out.         *)
(***************************************************************************)
EXTENDS Naturals, FiniteSets

CONSTANTS
  MaxSessionId,     \* bound: session ids drawn on one connection
  MaxNonce,         \* bound: challenges issued on one connection
  MaxTreeId,        \* the end of the tree id space (u32::MAX in the code)
  MaxFileId,        \* bound: handles opened on one connection
  MaxTrees,         \* MAX_TREES
  MaxFailedLogons   \* MAX_FAILED_LOGONS

ASSUME ConnectionAssumption ==
  /\ { MaxSessionId, MaxNonce, MaxTreeId, MaxFileId } \subseteq Nat
  /\ { MaxTrees, MaxFailedLogons } \subseteq Nat \ {0}

VARIABLES
  phase,          \* "closed", "wait" for a message, or in a "chain"
  negotiated,     \* SessionState::negotiated
  session_id,     \* SessionState::session_id, 0 for none
  sessions,       \* session ids drawn so far
  authenticated,  \* SessionState::authenticated
  challenge,      \* SessionState::server_challenge, 0 for None
  nonces,         \* challenges issued so far
  accepted,       \* history: the challenges a logon has succeeded against
  signing_key,    \* SessionState::signing_key: whether there is one
  failed,         \* SessionState::failed_logons
  trees,          \* SessionState::trees
  next_tree,      \* SessionState::next_tree_id
  open,           \* Handles::open, each handle with its tree, 0 if not open
  next_id,        \* Handles::next_id
  last_created,   \* Handles::last_created, 0 for None
  pipe,           \* whether Conn::pipe is Some
  chain           \* the Chain of the message in hand

session == << negotiated, session_id, sessions, authenticated, challenge,
              nonces, accepted, failed >>
tables  == << trees, next_tree, open, next_id, pipe >>
vars    == << phase, session, signing_key, tables, last_created, chain >>

SessionIds == 0 .. MaxSessionId
TreeIds    == 1 .. MaxTreeId
FileIds    == 1 .. MaxFileId
NoSession  == MaxSessionId + 1    \* u64::MAX, an id no session has
NoTree     == MaxTreeId + 1       \* u32::MAX, an id no tree has
Kinds      == { "disk", "ipc" }

(***************************************************************************)
(* Chain: the identity a related request inherits and whether a CREATE has *)
(* failed.  The rest is history: whether a request has run yet, and the    *)
(* handles the message has made.                                           *)
(***************************************************************************)
FreshChain == [session |-> NoSession, tree |-> NoTree, create_error |-> FALSE,
               begun |-> FALSE, made |-> {}]

Init ==
  /\ phase = "wait"
  /\ negotiated = FALSE
  /\ session_id = 0
  /\ sessions = 0
  /\ authenticated = FALSE
  /\ challenge = 0
  /\ nonces = 0
  /\ accepted = {}
  /\ signing_key = FALSE
  /\ failed = 0
  /\ trees = [t \in TreeIds |-> "none"]
  /\ next_tree = 0
  /\ open = [f \in FileIds |-> 0]
  /\ next_id = 1
  /\ last_created = 0
  /\ pipe = FALSE
  /\ chain = FreshChain

\* The connection is gone and everything it held with it.
Reset ==
  /\ negotiated' = FALSE
  /\ session_id' = 0
  /\ sessions' = 0
  /\ authenticated' = FALSE
  /\ challenge' = 0
  /\ nonces' = 0
  /\ accepted' = {}
  /\ signing_key' = FALSE
  /\ failed' = 0
  /\ trees' = [t \in TreeIds |-> "none"]
  /\ next_tree' = 0
  /\ open' = [f \in FileIds |-> 0]
  /\ next_id' = 1
  /\ last_created' = 0
  /\ pipe' = FALSE
  /\ chain' = FreshChain

LiveTrees   == { t \in TreeIds : trees[t] # "none" }
OpenHandles == { f \in FileIds : open[f] # 0 }

-----------------------------------------------------------------------------
(* Messages                                                                *)

BeginMessage ==
  /\ phase = "wait"
  /\ phase' = "chain"
  /\ chain' = FreshChain
  /\ UNCHANGED << session, signing_key, tables, last_created >>

\* The message is malformed, or its chain repeats NEGOTIATE, or its responses
\* pass MAX_COMPOUND_RESPONSE; or the peer goes or is silent too long.  The
\* connection's state is dropped.
Drop ==
  /\ phase # "closed"
  /\ Reset
  /\ phase' = "closed"

\* accept_loop takes another connection.
Accept == /\ phase = "closed"
          /\ phase' = "wait"
          /\ UNCHANGED << session, signing_key, tables, last_created, chain >>

\* Mutant of TooManyRefusals: off by one.
TooManyRefusalsLate == failed > MaxFailedLogons

TooManyRefusals == failed >= MaxFailedLogons

\* Mutant of KeyAfterReply: a LOGOFF leaves the key to the next message.
KeyKept == signing_key

\* The replies to a LOGOFF were the last thing its key was good for.
KeyAfterReply == signing_key /\ authenticated

\* The replies are signed and sent.  A LOGOFF's key has then done its work, and
\* a connection with too many refused logons is dropped.
EndMessage ==
  /\ phase = "chain" /\ chain.begun
  /\ IF TooManyRefusals
       THEN Reset /\ phase' = "closed"
       ELSE /\ phase' = "wait"
            /\ chain' = FreshChain
            /\ signing_key' = KeyAfterReply
            /\ UNCHANGED << session, tables, last_created >>

-----------------------------------------------------------------------------
(* Requests                                                                *)

\* The identity a request runs under: its header's, or the chain's.
Identities(related) ==
  IF related THEN { << chain.session, chain.tree >> }
             ELSE SessionIds \X (TreeIds \cup { NoTree })

Poisoned(related) == related /\ chain.create_error

\* Mutant of InSession: the session a first leg has allocated counts as one.
InAllocatedSession(id) == session_id # 0 /\ id[1] = session_id

\* needs_session: anything but NEGOTIATE, SESSION_SETUP and ECHO.
InSession(id) == authenticated /\ id[1] = session_id

\* clear_chain before every unrelated request: what is left of last_created.
Carried(related) == IF related THEN last_created ELSE 0

\* A request that is carried out hands the identity it ran under, or the one it
\* established, to the next.
HandOn(id) == [chain EXCEPT !.session = id[1], !.tree = id[2],
                            !.begun = TRUE]

\* A refused one hands nothing on.
NotHandedOn == [chain EXCEPT !.begun = TRUE]

Runs(related, id) == /\ phase = "chain"
                     /\ id \in Identities(related)
                     /\ ~Poisoned(related)
                     /\ UNCHANGED phase

\* A request answered with an error, having changed nothing: the first CREATE
\* to fail poisons the related ones after it.
Refuse(cmd, related, id) ==
  /\ phase = "chain"
  /\ id \in Identities(related)
  /\ chain' = [NotHandedOn EXCEPT !.create_error = @ \/ cmd = "CREATE"]
  /\ last_created' = Carried(related)
  /\ UNCHANGED << phase, session, signing_key, tables >>

Negotiate(related, id) ==
  /\ Runs(related, id)
  /\ ~negotiated
  /\ negotiated' = TRUE
  /\ chain' = HandOn(id)
  /\ last_created' = Carried(related)
  /\ UNCHANGED << session_id, sessions, authenticated, challenge, nonces,
                  accepted, failed, signing_key, tables >>

Echo(related, id) ==
  /\ Runs(related, id)
  /\ chain' = HandOn(id)
  /\ last_created' = Carried(related)
  /\ UNCHANGED << session, signing_key, tables >>

\* session_setup, first leg: a session id if there is none, and a challenge.
SetupChallenge(related, id) ==
  /\ Runs(related, id)
  /\ negotiated
  /\ nonces < MaxNonce
  /\ IF session_id = 0
       THEN /\ sessions < MaxSessionId
            /\ sessions' = sessions + 1
            /\ session_id' = sessions'
       ELSE UNCHANGED << sessions, session_id >>
  /\ nonces' = nonces + 1
  /\ challenge' = nonces'
  /\ chain' = HandOn(<< session_id', id[2] >>)
  /\ last_created' = Carried(related)
  /\ UNCHANGED << negotiated, authenticated, accepted, failed, signing_key,
                  tables >>

\* Mutant of SpendChallenge: the challenge stays for another try.
KeepChallenge == UNCHANGED challenge

\* server_challenge.take()
SpendChallenge == challenge' = 0

\* session_setup, second leg: a response computed from the password against
\* challenge n.  It verifies if that is the one outstanding, and spends it.
SetupAuthenticate(related, id, n) ==
  /\ Runs(related, id)
  /\ negotiated
  /\ challenge # 0
  /\ n = challenge
  /\ SpendChallenge
  /\ authenticated' = TRUE
  /\ signing_key' = TRUE
  /\ accepted' = accepted \cup { n }
  /\ failed' = 0
  /\ chain' = HandOn(<< session_id, id[2] >>)
  /\ last_created' = Carried(related)
  /\ UNCHANGED << negotiated, session_id, sessions, nonces, tables >>

\* The response is to another challenge, of another account or wrong.  The
\* challenge is spent all the same.  (failed stops at its limit here.)
SetupRefused(related, id) ==
  /\ Runs(related, id)
  /\ negotiated
  /\ SpendChallenge
  /\ failed' = IF failed < MaxFailedLogons THEN failed + 1 ELSE failed
  /\ chain' = NotHandedOn
  /\ last_created' = Carried(related)
  /\ UNCHANGED << negotiated, session_id, sessions, authenticated, nonces,
                  accepted, signing_key, tables >>

\* The key stays until the reply is signed: see EndMessage.
Logoff(related, id) ==
  /\ Runs(related, id)
  /\ InSession(id)
  /\ authenticated' = FALSE
  /\ session_id' = 0
  /\ open' = [f \in FileIds |-> 0]
  /\ last_created' = 0
  /\ pipe' = FALSE
  /\ chain' = HandOn(id)
  /\ UNCHANGED << negotiated, sessions, challenge, nonces, accepted, failed,
                  signing_key, trees, next_tree, next_id >>

\* Mutant of AllocTreeId: the lowest id no tree has.
LowestFreeTreeId ==
  CHOOSE t \in TreeIds \ LiveTrees : \A u \in TreeIds \ LiveTrees : t <= u

\* alloc_tree_id: the next id, until they run out.
AllocTreeId == next_tree + 1

TreeConnect(related, id, k) ==
  /\ Runs(related, id)
  /\ InSession(id)
  /\ Cardinality(LiveTrees) < MaxTrees
  /\ next_tree < MaxTreeId
  /\ next_tree' = AllocTreeId
  /\ trees' = [trees EXCEPT ![next_tree'] = k]
  /\ pipe' = (pipe /\ k # "ipc")
  /\ chain' = HandOn(<< id[1], next_tree' >>)
  /\ last_created' = Carried(related)
  /\ UNCHANGED << session, signing_key, open, next_id >>

\* Mutant of ReleaseTree: without close_tree.
ReleaseTreeOnly(t) ==
  /\ trees' = [trees EXCEPT ![t] = "none"]
  /\ pipe' = (pipe /\ trees[t] # "ipc")
  /\ UNCHANGED open

\* remove_tree and close_tree; the pipe goes with an IPC$ tree.
ReleaseTree(t) ==
  /\ trees' = [trees EXCEPT ![t] = "none"]
  /\ open' = [f \in FileIds |-> IF open[f] = t THEN 0 ELSE open[f]]
  /\ pipe' = (pipe /\ trees[t] # "ipc")

\* forget_stale_last_created, given what is left open.
ForgetStale(l, left) == IF l # 0 /\ left[l] = 0 THEN 0 ELSE l

\* The tree's handles go with it.  The chain keeps the tree it had.
TreeDisconnect(related, id) ==
  /\ Runs(related, id)
  /\ InSession(id)
  /\ id[2] \in LiveTrees
  /\ ReleaseTree(id[2])
  /\ last_created' = ForgetStale(Carried(related), open')
  /\ chain' = [HandOn(id) EXCEPT !.tree = chain.tree]
  /\ UNCHANGED << session, signing_key, next_tree, next_id >>

\* What tree_kind finds for the tree a request runs under.
OnTree(id, k) == id[2] \in TreeIds /\ trees[id[2]] = k

\* create, Handles::insert: the new handle is what the placeholder now names.
CreateFile(related, id) ==
  /\ Runs(related, id)
  /\ InSession(id) /\ OnTree(id, "disk")
  /\ next_id \in FileIds
  /\ open' = [open EXCEPT ![next_id] = id[2]]
  /\ next_id' = next_id + 1
  /\ last_created' = next_id
  /\ chain' = [HandOn(id) EXCEPT !.made = @ \cup { next_id }]
  /\ UNCHANGED << session, signing_key, trees, next_tree, pipe >>

\* Handles::resolve: the placeholder names a handle only in a related request.
Placeholder == MaxFileId + 1
Resolve(related, f) == IF f = Placeholder /\ related THEN last_created ELSE f
Named(related, f)   == LET h == Resolve(related, f)
                       IN  h \in FileIds /\ open[h] # 0
                           /\ (related \/ f # Placeholder)

CloseFile(related, id, f) ==
  LET h == Resolve(related, f) IN
  /\ Runs(related, id)
  /\ InSession(id) /\ OnTree(id, "disk")
  /\ Named(related, f)
  /\ open' = [open EXCEPT ![h] = 0]
  /\ last_created' = IF Carried(related) = h THEN 0 ELSE Carried(related)
  /\ chain' = HandOn(id)
  /\ UNCHANGED << session, signing_key, trees, next_tree, next_id, pipe >>

\* READ, QUERY_DIRECTORY and QUERY_INFO change nothing here.
UseFile(related, id, f) ==
  /\ Runs(related, id)
  /\ InSession(id) /\ OnTree(id, "disk")
  /\ Named(related, f)
  /\ chain' = HandOn(id)
  /\ last_created' = Carried(related)
  /\ UNCHANGED << session, signing_key, tables >>

\* srvsvc::create, srvsvc::close; one pipe a connection, whichever IPC$ tree.
CreatePipe(related, id) ==
  /\ Runs(related, id)
  /\ InSession(id) /\ OnTree(id, "ipc")
  /\ ~pipe /\ pipe' = TRUE
  /\ chain' = HandOn(id)
  /\ last_created' = Carried(related)
  /\ UNCHANGED << session, signing_key, trees, next_tree, open, next_id >>

ClosePipe(related, id) ==
  /\ Runs(related, id)
  /\ InSession(id) /\ OnTree(id, "ipc")
  /\ pipe /\ pipe' = FALSE
  /\ chain' = HandOn(id)
  /\ last_created' = Carried(related)
  /\ UNCHANGED << session, signing_key, trees, next_tree, open, next_id >>

\* READ, WRITE and IOCTL on the pipe fill and drain its buffer.
UsePipe(related, id) ==
  /\ Runs(related, id)
  /\ InSession(id) /\ OnTree(id, "ipc")
  /\ pipe
  /\ chain' = HandOn(id)
  /\ last_created' = Carried(related)
  /\ UNCHANGED << session, signing_key, tables >>

Request(related, id) ==
  \/ \E cmd \in { "CREATE", "other" } : Refuse(cmd, related, id)
  \/ Negotiate(related, id)
  \/ Echo(related, id)
  \/ SetupChallenge(related, id)
  \/ \E n \in 1 .. MaxNonce : SetupAuthenticate(related, id, n)
  \/ SetupRefused(related, id)
  \/ Logoff(related, id)
  \/ \E k \in Kinds : TreeConnect(related, id, k)
  \/ TreeDisconnect(related, id)
  \/ CreateFile(related, id)
  \/ \E f \in FileIds \cup { Placeholder } :
       CloseFile(related, id, f) \/ UseFile(related, id, f)
  \/ CreatePipe(related, id)
  \/ ClosePipe(related, id)
  \/ UsePipe(related, id)

Next == \/ BeginMessage \/ EndMessage \/ Drop \/ Accept
        \/ \E related \in BOOLEAN :
             \E id \in Identities(related) : Request(related, id)

Spec == Init /\ [][Next]_vars

-----------------------------------------------------------------------------
Chains == [session : SessionIds \cup { NoSession },
           tree : TreeIds \cup { NoTree }, create_error : BOOLEAN,
           begun : BOOLEAN, made : SUBSET FileIds]

\* The type invariant.
TypeOK ==
  /\ phase \in { "closed", "wait", "chain" }
  /\ negotiated \in BOOLEAN /\ authenticated \in BOOLEAN
  /\ signing_key \in BOOLEAN /\ pipe \in BOOLEAN
  /\ session_id \in SessionIds /\ sessions \in SessionIds
  /\ nonces \in 0 .. MaxNonce /\ challenge \in 0 .. nonces
  /\ accepted \subseteq 1 .. nonces
  /\ failed \in 0 .. MaxFailedLogons
  /\ trees \in [TreeIds -> Kinds \cup { "none" }]
  /\ next_tree \in 0 .. MaxTreeId
  /\ open \in [FileIds -> TreeIds \cup { 0 }]
  /\ next_id \in 1 .. MaxFileId + 1
  /\ last_created \in 0 .. MaxFileId
  /\ chain \in Chains

\* serve_connection: whenever the next message is read, the connection checks
\* its signature exactly if a logon stands; a LOGOFF's key does not linger, and
\* no order of logons, refusals and LOGOFFs in one message leaves a logon
\* without a key.
KeyExactlyIfAuthenticated ==
  /\ phase = "wait" => (signing_key <=> authenticated)
  /\ authenticated => signing_key

\* LOGOFF: "no file id in it can ever be named again".  Whatever is open was
\* opened in the logon that stands.
NothingOpenWithoutLogon ==
  ~authenticated => OpenHandles = {} /\ ~pipe

\* TREE_DISCONNECT: "handles opened through this tree die with it", and those
\* of the other trees survive with a tree that is still there.
HandlesOnLiveTrees ==
  \A f \in OpenHandles : trees[open[f]] = "disk"

\* A pipe is never left where "no command could reach [it] again".
PipeReachable == pipe => \E t \in LiveTrees : trees[t] = "ipc"

\* forget_stale_last_created: the compound placeholder never dangles.
PlaceholderOpen == last_created # 0 => open[last_created] # 0

\* TREE_DISCONNECT, CLOSE, LOGOFF: in no order do they leave a handle, the pipe or
\* the placeholder with nothing behind it.
NothingDangles == HandlesOnLiveTrees /\ PipeReachable /\ PlaceholderOpen

\* server_challenge: a challenge that a logon has succeeded against is never
\* outstanding again, so the same AUTHENTICATE cannot be replayed.
ChallengeFresh == challenge \notin accepted

\* A connection that has refused MAX_FAILED_LOGONS logons in a row reads no
\* further message, however they were spread over chains and challenges.
RefusalsBounded == phase = "wait" => failed < MaxFailedLogons

\* alloc_tree_id: "ids are never reused within a connection".
TreeIdsNotReused ==
  [][\A t \in TreeIds :
       t <= next_tree /\ trees[t] = "none" => trees'[t] = "none"]_vars

\* What a connection leaves behind when it ends: nothing, so that the next one
\* starts from nothing.
ClosedIsReset == phase = "closed" => ~authenticated /\ ~signing_key /\ failed = 0

\* A tree id that has not been handed out yet names no tree.
TreesHandedOut == \A t \in TreeIds : trees[t] # "none" => t <= next_tree

\* The inductive invariant behind the invariants above.
IInv == /\ TypeOK
        /\ KeyExactlyIfAuthenticated
        /\ ChallengeFresh
        /\ RefusalsBounded
        /\ ClosedIsReset
        /\ NothingOpenWithoutLogon
        /\ HandlesOnLiveTrees
        /\ PipeReachable
        /\ PlaceholderOpen
        /\ TreesHandedOut

\* clear_chain: "the placeholder never outlives the chain that set it".  When a
\* related file command could resolve the placeholder, it names a handle made
\* in this message.
PlaceholderOfThisMessage ==
  (/\ phase = "chain" /\ ~chain.create_error
   /\ InSession(<< chain.session >>) /\ OnTree(<< chain.session, chain.tree >>, "disk")
   /\ last_created # 0)
    => last_created \in chain.made

\* session_setup: a session's id is "any non-zero value".
SessionIdNonZero == authenticated => session_id # 0
=============================================================================
