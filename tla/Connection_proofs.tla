------------------------- MODULE Connection_proofs -------------------------
(***************************************************************************)
(* The invariants of one connection, for every number of sessions,         *)
(* challenges, trees, handles and refusals.  IInv is inductive; its parts  *)
(* are proved in three groups, by the variables they speak of: the types,  *)
(* the session, and the tables.                                            *)
(***************************************************************************)
EXTENDS Connection, TLAPS

SessionInv == /\ KeyExactlyIfAuthenticated
              /\ ChallengeFresh
              /\ RefusalsBounded
              /\ ClosedIsReset

TableInv == /\ NothingOpenWithoutLogon
            /\ HandlesOnLiveTrees
            /\ PipeReachable
            /\ PlaceholderOpen
            /\ TreesHandedOut

\* The identity a request runs under is one a header or a chain can hold.
LEMMA IdentityTyped ==
  ASSUME TypeOK, NEW related \in BOOLEAN, NEW id \in Identities(related)
  PROVE  /\ id = << id[1], id[2] >>
         /\ id[1] \in SessionIds \cup { NoSession }
         /\ id[2] \in TreeIds \cup { NoTree }
  BY DEF Identities, TypeOK, Chains

\* The bounds are numbers.
LEMMA Bounds ==
  /\ MaxSessionId \in Nat /\ MaxNonce \in Nat /\ MaxTreeId \in Nat /\ MaxFileId \in Nat
  /\ MaxTrees \in Nat /\ MaxFailedLogons \in Nat /\ MaxFailedLogons > 0
  BY ConnectionAssumption

\* The chain a message starts with is a chain.
LEMMA FreshChainTyped == FreshChain \in Chains
  BY DEF FreshChain, Chains

\* What a chain becomes has the type of a chain.
LEMMA ChainTyped ==
  ASSUME TypeOK, NEW related \in BOOLEAN, NEW id \in Identities(related)
  PROVE  /\ NotHandedOn \in Chains
         /\ HandOn(id) \in Chains
         /\ \A s \in SessionIds : HandOn(<< s, id[2] >>) \in Chains
         /\ \A t \in TreeIds : HandOn(<< id[1], t >>) \in Chains
<1> chain \in Chains
  BY DEF TypeOK
<1>1. NotHandedOn \in Chains
  BY DEF NotHandedOn, Chains
<1>2. ASSUME NEW s \in SessionIds \cup { NoSession }, NEW t \in TreeIds \cup { NoTree }
      PROVE  HandOn(<< s, t >>) \in Chains
  BY DEF HandOn, Chains
<1> QED BY <1>1, <1>2, IdentityTyped

-----------------------------------------------------------------------------
(* Types.                                                                  *)

\* A connection that has just been accepted has its types.
LEMMA TypeInit ==
  ASSUME Init
  PROVE  TypeOK
<1>1. /\ negotiated \in BOOLEAN /\ authenticated \in BOOLEAN
      /\ signing_key \in BOOLEAN /\ pipe \in BOOLEAN
  BY DEF Init
<1>2. trees \in [TreeIds -> Kinds \cup { "none" }] /\ open \in [FileIds -> TreeIds \cup { 0 }]
  BY DEF Init
<1> QED
  BY <1>1, <1>2, Bounds, FreshChainTyped DEF Init, TypeOK, SessionIds

\* The types of a reset connection are those of the initial one.
LEMMA TypeReset ==
  ASSUME Reset, phase' \in { "closed", "wait", "chain" }
  PROVE  TypeOK'
<1>1. chain' \in Chains
  BY FreshChainTyped DEF Reset
<1>2. trees' \in [TreeIds -> Kinds \cup { "none" }] /\ open' \in [FileIds -> TreeIds \cup { 0 }]
  BY DEF Reset
<1>3. /\ negotiated' \in BOOLEAN /\ authenticated' \in BOOLEAN
      /\ signing_key' \in BOOLEAN /\ pipe' \in BOOLEAN
  BY DEF Reset
<1> QED
  BY <1>1, <1>2, <1>3, Bounds DEF Reset, TypeOK, SessionIds

\* The placeholder that a request starts with is a handle's id or none.
LEMMA CarriedTyped ==
  ASSUME TypeOK, NEW related \in BOOLEAN
  PROVE  Carried(related) \in 0 .. MaxFileId
  BY Bounds DEF TypeOK, Carried

\* Beginning, ending or dropping a message, and accepting again, keep the types.
LEMMA TypeMessage ==
  ASSUME TypeOK, BeginMessage \/ EndMessage \/ Drop \/ Accept
  PROVE  TypeOK'
<1>1. CASE BeginMessage
  BY <1>1, FreshChainTyped DEF BeginMessage, TypeOK, session, tables
<1>2. CASE EndMessage
  <2>1. CASE TooManyRefusals
    BY <1>2, <2>1, TypeReset DEF EndMessage
  <2>2. CASE ~TooManyRefusals
    BY <1>2, <2>2, FreshChainTyped DEF EndMessage, TypeOK, session, tables, KeyAfterReply
  <2> QED BY <2>1, <2>2
<1>3. CASE Drop
  BY <1>3, TypeReset DEF Drop
<1>4. CASE Accept
  BY <1>4 DEF Accept, TypeOK, session, tables
<1> QED BY <1>1, <1>2, <1>3, <1>4

\* A request of a chain, carried out or refused, keeps the types.
LEMMA TypeRequest ==
  ASSUME TypeOK, NEW related \in BOOLEAN, NEW id \in Identities(related),
         Request(related, id)
  PROVE  TypeOK'
<1> USE ChainTyped, CarriedTyped, IdentityTyped, Bounds
<1>1. ASSUME NEW cmd, Refuse(cmd, related, id) PROVE TypeOK'
  <2>1. chain' \in Chains
    BY <1>1 DEF Refuse, NotHandedOn, TypeOK, Chains
  <2> QED BY <1>1, <2>1 DEF Refuse, TypeOK, session, tables
<1>2. CASE Negotiate(related, id)
  BY <1>2 DEF Negotiate, Runs, TypeOK, tables
<1>3. CASE Echo(related, id) \/ UsePipe(related, id)
  BY <1>3 DEF Echo, UsePipe, Runs, TypeOK, session, tables
<1>4. CASE SetupChallenge(related, id)
  <2>1. session_id' \in SessionIds /\ sessions' \in SessionIds
    BY <1>4 DEF SetupChallenge, TypeOK, SessionIds
  <2>2. accepted \subseteq 1 .. nonces + 1
    BY DEF TypeOK
  <2> QED BY <1>4, <2>1, <2>2 DEF SetupChallenge, Runs, TypeOK, tables
<1>5. ASSUME NEW n \in 1 .. MaxNonce, SetupAuthenticate(related, id, n) PROVE TypeOK'
  <2>1. accepted' \subseteq 1 .. nonces
    BY <1>5 DEF SetupAuthenticate, TypeOK
  <2>2. session_id \in SessionIds
    BY DEF TypeOK
  <2> QED BY <1>5, <2>1, <2>2 DEF SetupAuthenticate, SpendChallenge, Runs, TypeOK, tables
<1>6. CASE SetupRefused(related, id)
  BY <1>6 DEF SetupRefused, SpendChallenge, Runs, TypeOK, tables
<1>7. CASE Logoff(related, id)
  <2>1. authenticated' \in BOOLEAN /\ pipe' \in BOOLEAN
    BY <1>7 DEF Logoff
  <2>2. open' \in [FileIds -> TreeIds \cup { 0 }]
    BY <1>7 DEF Logoff
  <2> QED BY <1>7, <2>1, <2>2 DEF Logoff, Runs, TypeOK, SessionIds
<1>8. ASSUME NEW k \in Kinds, TreeConnect(related, id, k) PROVE TypeOK'
  <2>1. next_tree' \in 0 .. MaxTreeId /\ next_tree' \in TreeIds
    <3>1. next_tree \in 0 .. MaxTreeId /\ next_tree < MaxTreeId /\ next_tree' = next_tree + 1
      BY <1>8 DEF TreeConnect, AllocTreeId, TypeOK
    <3> QED BY <3>1 DEF TreeIds
  <2>2. trees' \in [TreeIds -> Kinds \cup { "none" }]
    BY <1>8, <2>1 DEF TreeConnect, TypeOK
  <2> QED BY <1>8, <2>1, <2>2 DEF TreeConnect, Runs, TypeOK, session
<1>9. CASE TreeDisconnect(related, id)
  <2>1. id[2] \in TreeIds
    BY <1>9 DEF TreeDisconnect, LiveTrees
  <2>2. open' \in [FileIds -> TreeIds \cup { 0 }] /\ trees' \in [TreeIds -> Kinds \cup { "none" }]
    BY <1>9, <2>1 DEF TreeDisconnect, ReleaseTree, TypeOK
  <2>3. chain' \in Chains
    BY <1>9 DEF TreeDisconnect, HandOn, TypeOK, Chains
  <2>4. last_created' \in 0 .. MaxFileId
    BY <1>9 DEF TreeDisconnect, ForgetStale
  <2> QED BY <1>9, <2>2, <2>3, <2>4
             DEF TreeDisconnect, ReleaseTree, Runs, TypeOK, session
<1>10. CASE CreateFile(related, id)
  <2>1. id[2] \in TreeIds /\ next_id \in FileIds
    BY <1>10 DEF CreateFile, OnTree
  <2>2. open' \in [FileIds -> TreeIds \cup { 0 }]
    BY <1>10, <2>1 DEF CreateFile, TypeOK
  <2>3. chain' \in Chains
    BY <1>10, <2>1 DEF CreateFile, Chains
  <2>4. next_id' \in 1 .. MaxFileId + 1 /\ last_created' \in 0 .. MaxFileId
    BY <1>10, <2>1 DEF CreateFile, FileIds, TypeOK
  <2> QED BY <1>10, <2>2, <2>3, <2>4 DEF CreateFile, Runs, TypeOK, session
<1>11. ASSUME NEW f, CloseFile(related, id, f) PROVE TypeOK'
  <2>1. open' \in [FileIds -> TreeIds \cup { 0 }]
    BY <1>11 DEF CloseFile, TypeOK
  <2> QED BY <1>11, <2>1 DEF CloseFile, Runs, TypeOK, session
<1>12. ASSUME NEW f, UseFile(related, id, f) PROVE TypeOK'
  BY <1>12 DEF UseFile, Runs, TypeOK, session, tables
<1>13. CASE CreatePipe(related, id) \/ ClosePipe(related, id)
  BY <1>13 DEF CreatePipe, ClosePipe, Runs, TypeOK, session
<1> QED
  BY <1>1, <1>2, <1>3, <1>4, <1>5, <1>6, <1>7, <1>8, <1>9, <1>10, <1>11, <1>12, <1>13
     DEF Request

\* Every step keeps the types.
LEMMA TypeStep == TypeOK /\ [Next]_vars => TypeOK'
<1> SUFFICES ASSUME TypeOK, [Next]_vars PROVE TypeOK'
  OBVIOUS
<1>1. CASE UNCHANGED vars
  BY <1>1 DEF vars, session, tables, TypeOK
<1>2. CASE BeginMessage \/ EndMessage \/ Drop \/ Accept
  BY <1>2, TypeMessage
<1>3. ASSUME NEW related \in BOOLEAN, NEW id \in Identities(related), Request(related, id)
      PROVE  TypeOK'
  BY <1>3, TypeRequest
<1> QED BY <1>1, <1>2, <1>3 DEF Next

-----------------------------------------------------------------------------
(* The session: key, challenge and refusals.                               *)

\* Around a message, key, challenge and refusals stay in order.
LEMMA SessionMessage ==
  ASSUME TypeOK, SessionInv, BeginMessage \/ EndMessage \/ Drop \/ Accept
  PROVE  SessionInv'
<1> USE DEF SessionInv, KeyExactlyIfAuthenticated, ChallengeFresh,
            RefusalsBounded, ClosedIsReset
<1>1. ASSUME Reset, phase' = "closed" PROVE SessionInv'
  BY <1>1, Bounds DEF Reset
<1>2. CASE BeginMessage
  BY <1>2 DEF BeginMessage, session
<1>3. CASE EndMessage
  <2>1. CASE TooManyRefusals
    BY <1>1, <1>3, <2>1 DEF EndMessage
  <2>2. CASE ~TooManyRefusals
    <3>1. failed < MaxFailedLogons
      BY <2>2, Bounds DEF TooManyRefusals, TypeOK
    <3>2. /\ phase' = "wait" /\ UNCHANGED session
          /\ signing_key' = (signing_key /\ authenticated)
      BY <1>3, <2>2 DEF EndMessage, KeyAfterReply
    <3> QED BY <3>1, <3>2 DEF session
  <2> QED BY <2>1, <2>2
<1>4. CASE Drop
  BY <1>1, <1>4 DEF Drop
<1>5. CASE Accept
  BY <1>5, Bounds DEF Accept, session
<1> QED BY <1>2, <1>3, <1>4, <1>5

\* A request of a chain leaves key, challenge and refusals in order.
LEMMA SessionRequest ==
  ASSUME TypeOK, SessionInv, NEW related \in BOOLEAN, NEW id \in Identities(related),
         Request(related, id)
  PROVE  SessionInv'
<1> USE DEF SessionInv, KeyExactlyIfAuthenticated, ChallengeFresh,
            RefusalsBounded, ClosedIsReset
<1>1. phase = "chain" /\ phase' = "chain"
  BY DEF Request, Refuse, Negotiate, Echo, SetupChallenge, SetupAuthenticate,
         SetupRefused, Logoff, TreeConnect, TreeDisconnect, CreateFile,
         CloseFile, UseFile, CreatePipe, ClosePipe, UsePipe, Runs
<1>2. CASE UNCHANGED << authenticated, challenge, accepted, signing_key >>
  BY <1>1, <1>2
<1>3. CASE SetupChallenge(related, id)
  <2>1. challenge' = nonces + 1 /\ accepted \subseteq 1 .. nonces /\ nonces \in Nat
    BY <1>3, Bounds DEF SetupChallenge, TypeOK
  <2>2. UNCHANGED << authenticated, accepted, signing_key >>
    BY <1>3 DEF SetupChallenge
  <2> QED BY <1>1, <2>1, <2>2
<1>4. ASSUME NEW n \in 1 .. MaxNonce, SetupAuthenticate(related, id, n)
      PROVE  SessionInv'
  <2>1. challenge' = 0 /\ accepted' \subseteq 1 .. nonces
    BY <1>4 DEF SetupAuthenticate, SpendChallenge, TypeOK
  <2> QED BY <1>1, <1>4, <2>1 DEF SetupAuthenticate
<1>5. CASE SetupRefused(related, id)
  <2>1. challenge' = 0 /\ accepted \subseteq 1 .. nonces
    BY <1>5 DEF SetupRefused, SpendChallenge, TypeOK
  <2> QED BY <1>1, <1>5, <2>1 DEF SetupRefused
<1>6. CASE Logoff(related, id)
  BY <1>1, <1>6 DEF Logoff
<1> QED
  BY <1>2, <1>3, <1>4, <1>5, <1>6
     DEF Request, Refuse, Negotiate, Echo, TreeConnect, TreeDisconnect, CreateFile,
         CloseFile, UseFile, CreatePipe, ClosePipe, UsePipe, session, tables

\* Every step keeps key, challenge and refusals in order.
LEMMA SessionStep == TypeOK /\ SessionInv /\ [Next]_vars => SessionInv'
<1> SUFFICES ASSUME TypeOK, SessionInv, [Next]_vars PROVE SessionInv'
  OBVIOUS
<1>1. CASE UNCHANGED vars
  BY <1>1 DEF vars, session, SessionInv, KeyExactlyIfAuthenticated, ChallengeFresh,
              RefusalsBounded, ClosedIsReset
<1>2. CASE BeginMessage \/ EndMessage \/ Drop \/ Accept
  BY <1>2, SessionMessage
<1>3. ASSUME NEW related \in BOOLEAN, NEW id \in Identities(related), Request(related, id)
      PROVE  SessionInv'
  BY <1>3, SessionRequest
<1> QED BY <1>1, <1>2, <1>3 DEF Next

-----------------------------------------------------------------------------
(* The tables: trees, handles, the pipe and the placeholder.               *)

\* A step that only clears the placeholder, or nothing, disturbs no table.
LEMMA TablesKept ==
  ASSUME TypeOK, TableInv,
         UNCHANGED << trees, next_tree, open, pipe >>,
         authenticated => authenticated',
         last_created' \in { 0, last_created }
  PROVE  TableInv'
  BY DEF TableInv, NothingOpenWithoutLogon, HandlesOnLiveTrees, PipeReachable,
         PlaceholderOpen, TreesHandedOut, OpenHandles, LiveTrees

\* With everything closed and no tree handed out, or with every handle gone,
\* nothing dangles.
LEMMA TablesEmptied ==
  ASSUME TypeOK, TableInv,
         open' = [f \in FileIds |-> 0], pipe' = FALSE, last_created' = 0,
         \/ UNCHANGED << trees, next_tree >>
         \/ trees' = [t \in TreeIds |-> "none"]
  PROVE  TableInv'
  BY DEF TableInv, NothingOpenWithoutLogon, HandlesOnLiveTrees, PipeReachable,
         PlaceholderOpen, TreesHandedOut, OpenHandles, LiveTrees

\* Around a message, the tables stay in order.
LEMMA TablesMessage ==
  ASSUME TypeOK, TableInv, BeginMessage \/ EndMessage \/ Drop \/ Accept
  PROVE  TableInv'
<1>1. CASE Reset
  BY <1>1, TablesEmptied DEF Reset
<1>2. CASE UNCHANGED << session, tables, last_created >>
  BY <1>2, TablesKept DEF session, tables
<1> QED BY <1>1, <1>2 DEF BeginMessage, EndMessage, Drop, Accept

\* A request of a chain leaves the tables in order.
LEMMA TablesRequest ==
  ASSUME TypeOK, TableInv, NEW related \in BOOLEAN, NEW id \in Identities(related),
         Request(related, id)
  PROVE  TableInv'
<1> USE DEF TableInv
<1> DEFINE Kept == /\ UNCHANGED << trees, next_tree, open, pipe >>
                   /\ authenticated => authenticated'
                   /\ last_created' \in { 0, last_created }
<1>1. CASE Kept
  BY <1>1, TablesKept
<1>2. CASE Logoff(related, id)
  BY <1>2, TablesEmptied DEF Logoff
<1>3. ASSUME NEW k \in Kinds, TreeConnect(related, id, k) PROVE TableInv'
  <2>1. /\ next_tree \in Nat /\ next_tree' = next_tree + 1 /\ next_tree' \in TreeIds
        /\ trees' = [trees EXCEPT ![next_tree'] = k]
        /\ pipe' = (pipe /\ k # "ipc")
        /\ UNCHANGED << authenticated, open >>
        /\ last_created' \in { 0, last_created }
    <3>1. next_tree \in 0 .. MaxTreeId /\ next_tree < MaxTreeId
      BY <1>3 DEF TreeConnect, TypeOK
    <3> QED BY <1>3, <3>1, Bounds DEF TreeConnect, AllocTreeId, TreeIds, Carried, session
  <2>2. trees[next_tree'] = "none"
    BY <2>1 DEF TreesHandedOut
  <2>3. \A t \in TreeIds : trees[t] # "none" => trees'[t] = trees[t]
    BY <2>1, <2>2 DEF TypeOK
  <2>4. HandlesOnLiveTrees'
    BY <2>1, <2>3 DEF HandlesOnLiveTrees, OpenHandles, TypeOK
  <2>5. PipeReachable'
    BY <2>1, <2>3 DEF PipeReachable, LiveTrees
  <2>6. TreesHandedOut'
    BY <2>1 DEF TreesHandedOut, TreeIds, TypeOK
  <2> QED BY <2>1, <2>4, <2>5, <2>6
             DEF NothingOpenWithoutLogon, OpenHandles, PlaceholderOpen
<1>4. CASE TreeDisconnect(related, id)
  <2>1. /\ id[2] \in LiveTrees
        /\ trees' = [trees EXCEPT ![id[2]] = "none"]
        /\ open' = [f \in FileIds |-> IF open[f] = id[2] THEN 0 ELSE open[f]]
        /\ pipe' = (pipe /\ trees[id[2]] # "ipc")
        /\ UNCHANGED << authenticated, next_tree >>
        /\ last_created' = ForgetStale(Carried(related), open')
    BY <1>4 DEF TreeDisconnect, ReleaseTree, session
  <2>2. HandlesOnLiveTrees'
    BY <2>1 DEF HandlesOnLiveTrees, OpenHandles, LiveTrees, TypeOK
  <2>3. PipeReachable'
    BY <2>1 DEF PipeReachable, LiveTrees, TypeOK
  <2>4. PlaceholderOpen'
    BY <2>1 DEF PlaceholderOpen, ForgetStale
  <2>5. TreesHandedOut'
    BY <2>1 DEF TreesHandedOut, TypeOK, LiveTrees
  <2>6. NothingOpenWithoutLogon'
    BY <2>1 DEF NothingOpenWithoutLogon, OpenHandles
  <2> QED BY <2>2, <2>3, <2>4, <2>5, <2>6
<1>5. CASE CreateFile(related, id)
  <2>1. /\ authenticated /\ id[2] \in TreeIds /\ trees[id[2]] = "disk"
        /\ next_id \in FileIds
        /\ open' = [open EXCEPT ![next_id] = id[2]]
        /\ last_created' = next_id
        /\ UNCHANGED << authenticated, trees, next_tree, pipe >>
    BY <1>5 DEF CreateFile, InSession, OnTree, session
  <2>2. 0 \notin TreeIds
    BY DEF TreeIds
  <2> QED BY <2>1, <2>2
             DEF NothingOpenWithoutLogon, HandlesOnLiveTrees, PipeReachable,
                 PlaceholderOpen, TreesHandedOut, OpenHandles, LiveTrees, TypeOK
<1>6. ASSUME NEW f, CloseFile(related, id, f) PROVE TableInv'
  <2> DEFINE h == Resolve(related, f)
  <2>1. /\ h \in FileIds
        /\ open' = [open EXCEPT ![h] = 0]
        /\ last_created' = IF Carried(related) = h THEN 0 ELSE Carried(related)
        /\ UNCHANGED << authenticated, trees, next_tree, pipe >>
    BY <1>6 DEF CloseFile, Named, session
  <2>2. last_created' # 0 => last_created' = last_created /\ last_created # h
    BY <2>1 DEF Carried
  <2> HIDE DEF h
  <2> QED BY <2>1, <2>2
             DEF NothingOpenWithoutLogon, HandlesOnLiveTrees, PipeReachable,
                 PlaceholderOpen, TreesHandedOut, OpenHandles, LiveTrees, TypeOK
<1>7. CASE CreatePipe(related, id) \/ ClosePipe(related, id)
  <2>1. /\ authenticated
        /\ pipe' => \E t \in LiveTrees : trees[t] = "ipc"
        /\ UNCHANGED << authenticated, trees, next_tree, open >>
        /\ last_created' \in { 0, last_created }
    BY <1>7 DEF CreatePipe, ClosePipe, InSession, OnTree, LiveTrees, Carried, session
  <2> QED BY <2>1
             DEF NothingOpenWithoutLogon, HandlesOnLiveTrees, PipeReachable,
                 PlaceholderOpen, TreesHandedOut, OpenHandles, LiveTrees
<1>8. ASSUME Refuse("CREATE", related, id) \/ Refuse("other", related, id)
             \/ Negotiate(related, id) \/ Echo(related, id)
             \/ SetupChallenge(related, id) \/ SetupRefused(related, id)
             \/ UsePipe(related, id)
      PROVE  Kept
  BY <1>8 DEF Refuse, Negotiate, Echo, SetupChallenge, SetupRefused, UsePipe,
              Carried, session, tables
<1>9. ASSUME NEW n \in 1 .. MaxNonce, SetupAuthenticate(related, id, n) PROVE Kept
  BY <1>9 DEF SetupAuthenticate, Carried, tables
<1>10. ASSUME NEW f, UseFile(related, id, f) PROVE Kept
  BY <1>10 DEF UseFile, Carried, session, tables
<1> HIDE DEF Kept
<1> QED
  BY <1>1, <1>2, <1>3, <1>4, <1>5, <1>6, <1>7, <1>8, <1>9, <1>10 DEF Request

\* Every step keeps the tables in order.
LEMMA TablesStep == TypeOK /\ TableInv /\ [Next]_vars => TableInv'
<1> SUFFICES ASSUME TypeOK, TableInv, [Next]_vars PROVE TableInv'
  OBVIOUS
<1>1. CASE UNCHANGED vars
  BY <1>1, TablesKept DEF vars, session, tables
<1>2. CASE BeginMessage \/ EndMessage \/ Drop \/ Accept
  BY <1>2, TablesMessage
<1>3. ASSUME NEW related \in BOOLEAN, NEW id \in Identities(related), Request(related, id)
      PROVE  TableInv'
  BY <1>3, TablesRequest
<1> QED BY <1>1, <1>2, <1>3 DEF Next

-----------------------------------------------------------------------------
(* The theorems.                                                           *)

\* A connection that has just been accepted satisfies the inductive invariant.
LEMMA InitInv == Init => IInv
<1> SUFFICES ASSUME Init PROVE IInv
  OBVIOUS
<1>1. SessionInv
  BY Bounds DEF Init, SessionInv, KeyExactlyIfAuthenticated, ChallengeFresh,
                RefusalsBounded, ClosedIsReset
<1>2. TableInv
  BY DEF Init, TableInv, NothingOpenWithoutLogon, HandlesOnLiveTrees, PipeReachable,
         PlaceholderOpen, TreesHandedOut, OpenHandles, LiveTrees
<1> QED BY <1>1, <1>2, TypeInit DEF IInv, SessionInv, TableInv

\* Every step of a connection keeps the inductive invariant.
LEMMA StepInv == IInv /\ [Next]_vars => IInv'
  BY TypeStep, SessionStep, TablesStep DEF IInv, SessionInv, TableInv

\* Whatever the order of requests and the shape of their chains, session, key,
\* trees, handles, pipe and placeholder of a connection stay consistent.
THEOREM Invariance == Spec => []IInv
  BY InitInv, StepInv, PTL DEF Spec

\* The connection's state keeps its types.
THEOREM TypeCorrect == Spec => []TypeOK
<1>1. IInv => TypeOK
  BY DEF IInv
<1> QED BY <1>1, Invariance, PTL

\* serve_connection: the next message is verified exactly if a logon stands.
THEOREM KeyFollowsLogon == Spec => []KeyExactlyIfAuthenticated
<1>1. IInv => KeyExactlyIfAuthenticated
  BY DEF IInv
<1> QED BY <1>1, Invariance, PTL

\* session_setup: no AUTHENTICATE logs on a second time.
THEOREM NoReplay == Spec => []ChallengeFresh
<1>1. IInv => ChallengeFresh
  BY DEF IInv
<1> QED BY <1>1, Invariance, PTL

\* TREE_DISCONNECT: a handle never outlives the tree it was opened through.
THEOREM HandlesDieWithTree == Spec => []HandlesOnLiveTrees
<1>1. IInv => HandlesOnLiveTrees
  BY DEF IInv
<1> QED BY <1>1, Invariance, PTL

\* TREE_DISCONNECT, CLOSE, LOGOFF: handles, the pipe and the placeholder have
\* something behind them, whatever is closed in which order.
THEOREM NothingLeftDangling == Spec => []NothingDangles
<1>1. IInv => NothingDangles
  BY DEF IInv, NothingDangles
<1> QED BY <1>1, Invariance, PTL

\* serve_connection: a connection with MaxFailedLogons refusals in a row does not
\* read another message.
THEOREM RefusalsCounted == Spec => []RefusalsBounded
<1>1. IInv => RefusalsBounded
  BY DEF IInv
<1> QED BY <1>1, Invariance, PTL

\* LOGOFF: nothing that was opened in a logon outlives it.
THEOREM NothingOutlivesLogon == Spec => []NothingOpenWithoutLogon
<1>1. IInv => NothingOpenWithoutLogon
  BY DEF IInv
<1> QED BY <1>1, Invariance, PTL

\* alloc_tree_id: a tree id that has been disconnected never names a tree again
\* while the connection lasts.
THEOREM NoTreeIdReuse == Spec => TreeIdsNotReused
<1> DEFINE A == \A t \in TreeIds : t <= next_tree /\ trees[t] = "none" => trees'[t] = "none"
<1>1. TypeOK /\ [Next]_vars => [A]_vars
  <2> SUFFICES ASSUME TypeOK, Next PROVE A
    OBVIOUS
  <2>1. CASE Reset
    BY <2>1 DEF Reset
  <2>2. CASE UNCHANGED trees
    BY <2>2
  <2>3. ASSUME NEW related, NEW id, NEW k, TreeConnect(related, id, k) PROVE A
    BY <2>3 DEF TreeConnect, AllocTreeId, TypeOK, TreeIds
  <2>4. ASSUME NEW related, NEW id, TreeDisconnect(related, id) PROVE A
    BY <2>4 DEF TreeDisconnect, ReleaseTree, TypeOK
  <2>5. BeginMessage \/ EndMessage \/ Drop \/ Accept => Reset \/ UNCHANGED trees
    BY DEF BeginMessage, EndMessage, Drop, Accept, tables
  <2>6. ASSUME NEW related, NEW id, Request(related, id)
        PROVE  \/ UNCHANGED trees
               \/ \E k \in Kinds : TreeConnect(related, id, k)
               \/ TreeDisconnect(related, id)
    BY <2>6 DEF Request, Refuse, Negotiate, Echo, SetupChallenge, SetupAuthenticate,
                SetupRefused, Logoff, CreateFile, CloseFile, UseFile, CreatePipe,
                ClosePipe, UsePipe, tables
  <2> HIDE DEF A
  <2> QED BY <2>1, <2>2, <2>3, <2>4, <2>5, <2>6 DEF Next
<1> QED BY <1>1, TypeCorrect, PTL DEF Spec, TreeIdsNotReused

=============================================================================
