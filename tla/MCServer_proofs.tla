--------------------------- MODULE MCServer_proofs ---------------------------
(* Proofs about the parts of the server's life that module MCServer puts    *)
(* together, each by itself and then all in one: for any connections,       *)
(* clients, loads and unloads, and either limit.                            *)
EXTENDS MCServer, FiniteSetTheorems, TLAPS

-----------------------------------------------------------------------------
(* LogonLimit: the limit on refused logons.                                *)

\* The connections whose refusal, if there is one, has been counted.
Counted == Conns \ InFlight

\* How many they are is a number, and at most all of them.
LEMMA CountedBounds ==
  /\ IsFiniteSet(Counted)
  /\ Cardinality(Counted) \in Nat
  /\ Cardinality(Conns) \in Nat
  /\ Cardinality(Counted) <= Cardinality(Conns)
<1>1. Counted \in SUBSET Conns
  BY DEF Counted
<1>2. IsFiniteSet(Conns)
  BY LogonLimitAssumption
<1>3. IsFiniteSet(Counted) /\ Cardinality(Counted) <= Cardinality(Conns)
  BY <1>1, <1>2, FS_Subset, Zenon
<1> QED
  BY <1>2, <1>3, FS_CardinalityType, Zenon

\* A connection whose logon is in hand joins the counted ones as it leaves it.
LEMMA OneMoreCounted ==
  ASSUME TypeOK, NEW c \in InFlight, pc' = [pc EXCEPT ![c] = "reply"]
  PROVE  Cardinality(Counted') = Cardinality(Counted) + 1
<1>1. Counted' = Counted \cup { c }
  BY DEF TypeOK, Counted, InFlight
<1>2. c \notin Counted
  BY DEF Counted
<1> QED
  BY <1>1, <1>2, CountedBounds, FS_AddElement, Zenon

\* Initially no logon has been refused.
LEMMA InitOvershoot == Init => TypeOK /\ OvershootInv
<1> SUFFICES ASSUME Init PROVE TypeOK /\ OvershootInv
  OBVIOUS
<1>1. TypeOK
  BY LogonLimitAssumption DEF Init, TypeOK
<1>2. OvershootInv
  BY CountedBounds, LogonLimitAssumption DEF Init, OvershootInv, Counted
<1> QED
  BY <1>1, <1>2

\* No step leaves the types: the counter goes up by one or to zero.
LEMMA TypeStep == TypeOK /\ [Next]_vars => TypeOK'
<1> SUFFICES ASSUME TypeOK, [Next]_vars PROVE TypeOK'
  OBVIOUS
<1> USE LogonLimitAssumption DEF TypeOK
<1>1. ASSUME NEW c \in Conns, Check(c) \/ Setup(c) PROVE TypeOK'
  BY <1>1 DEF Check, Setup, Goto
<1>2. ASSUME NEW c \in Conns, CountRefusal(c) PROVE TypeOK'
  <2>1. OneMore(failed[c]) \in 0 .. MaxFailedLogons
    BY DEF OneMore
  <2> QED
    BY <1>2, <2>1 DEF CountRefusal, record_failed_logon, Goto
<1>3. ASSUME NEW c \in Conns, ClearCount(c) PROVE TypeOK'
  BY <1>3 DEF ClearCount, clear_failed_logons, Goto
<1>4. ASSUME NEW c \in Conns, Reply(c) PROVE TypeOK'
  <2>1. pc' \in [Conns -> { "idle", "setup", "refused", "accepted", "reply" }]
    BY <1>4 DEF Reply, Goto
  <2>2. CASE failed[c] >= MaxFailedLogons
    <3>1. failed' = [failed EXCEPT ![c] = 0] /\ 0 \in 0 .. MaxFailedLogons
      BY <1>4, <2>2 DEF Reply
    <3>2. failed' \in [Conns -> 0 .. MaxFailedLogons]
      BY <3>1
    <3>3. authenticated' \in [Conns -> BOOLEAN]
      BY <1>4, <2>2 DEF Reply
    <3> QED
      BY <1>4, <2>1, <3>2, <3>3 DEF Reply
  <2>3. CASE ~(failed[c] >= MaxFailedLogons)
    BY <1>4, <2>1, <2>3 DEF Reply
  <2> QED
    BY <2>2, <2>3
<1>5. ASSUME NEW c \in Conns, Reconnect(c) PROVE TypeOK'
  BY <1>5 DEF Reconnect
<1>6. CASE OwnerStops
  BY <1>6 DEF OwnerStops
<1>7. CASE UNCHANGED vars
  BY <1>7 DEF vars
<1> QED
  BY <1>1, <1>2, <1>3, <1>4, <1>5, <1>6, <1>7 DEF Next

\* Nor the bound: a refusal is counted by a connection that was in hand, and a
\* connection is only taken in hand while the counter is under the limit.
LEMMA OvershootStep == TypeOK /\ OvershootInv /\ [Next]_vars => OvershootInv'
<1> SUFFICES ASSUME TypeOK, OvershootInv, [Next]_vars PROVE OvershootInv'
  OBVIOUS
<1>a. count \in Nat /\ MaxServerFailures \in Nat \ {0}
  BY LogonLimitAssumption DEF TypeOK
<1>b. count <= MaxServerFailures - 1 + Cardinality(Counted)
  BY DEF OvershootInv, Counted
<1>n. Cardinality(Counted) \in Nat /\ Cardinality(Counted') \in Nat
  <2>1. Cardinality(Counted) \in Nat
    BY CountedBounds
  <2>2. Counted' \in SUBSET Conns
    BY DEF Counted
  <2> QED
    BY <2>1, <2>2, LogonLimitAssumption, FS_Subset, FS_CardinalityType, Zenon
<1>c. SUFFICES count' <= MaxServerFailures - 1 + Cardinality(Counted')
  BY DEF OvershootInv, Counted
<1>s. ASSUME count' = count, Counted' = Counted
      PROVE  count' <= MaxServerFailures - 1 + Cardinality(Counted')
  BY <1>s, <1>b
<1>1. ASSUME NEW c \in Conns, Check(c)
      PROVE  count' <= MaxServerFailures - 1 + Cardinality(Counted')
  <2>1. CASE logon_limit_reached
    <3>1. Counted' = Counted /\ count' = count
      BY <1>1, <2>1 DEF Check, Goto, TypeOK, Counted, InFlight
    <3> QED
      BY <3>1, <1>s
  <2>2. CASE ~logon_limit_reached
    <3>1. count' = count /\ count < MaxServerFailures
      BY <1>1, <2>2, <1>a DEF Check, logon_limit_reached
    <3> QED
      BY <3>1, <1>a, <1>n
  <2> QED
    BY <2>1, <2>2
<1>2. ASSUME NEW c \in Conns, Setup(c)
      PROVE  count' <= MaxServerFailures - 1 + Cardinality(Counted')
  <2>1. c \in InFlight /\ count' = count
    BY <1>2 DEF Setup, InFlight
  <2>2. CASE Goto(c, "reply")
    <3>1. Cardinality(Counted') = Cardinality(Counted) + 1
      BY <2>1, <2>2, OneMoreCounted DEF Goto
    <3> QED
      BY <3>1, <2>1, <1>a, <1>b, <1>n
  <2>3. CASE Goto(c, "refused") \/ Goto(c, "accepted")
    <3>1. Counted' = Counted
      BY <2>1, <2>3 DEF Goto, TypeOK, Counted, InFlight
    <3> QED
      BY <3>1, <2>1, <1>s
  <2> QED
    BY <1>2, <2>2, <2>3 DEF Setup
<1>3. ASSUME NEW c \in Conns, CountRefusal(c)
      PROVE  count' <= MaxServerFailures - 1 + Cardinality(Counted')
  <2>1. c \in InFlight /\ pc' = [pc EXCEPT ![c] = "reply"] /\ count' = count + 1
    BY <1>3 DEF CountRefusal, record_failed_logon, Goto, InFlight
  <2>2. Cardinality(Counted') = Cardinality(Counted) + 1
    BY <2>1, OneMoreCounted
  <2> QED
    BY <2>1, <2>2, <1>a, <1>b, <1>n
<1>4. ASSUME NEW c \in Conns, ClearCount(c)
      PROVE  count' <= MaxServerFailures - 1 + Cardinality(Counted')
  BY <1>4, <1>a, <1>n DEF ClearCount, clear_failed_logons
<1>5. ASSUME NEW c \in Conns, Reply(c)
      PROVE  count' <= MaxServerFailures - 1 + Cardinality(Counted')
  <2>1. Counted' = Counted /\ count' = count
    BY <1>5 DEF Reply, Goto, TypeOK, Counted, InFlight
  <2> QED
    BY <2>1, <1>s
<1>6. CASE UNCHANGED << count, pc >>
  <2>1. Counted' = Counted
    BY <1>6 DEF Counted, InFlight
  <2> QED
    BY <2>1, <1>6, <1>s
<1> QED
  BY <1>1, <1>2, <1>3, <1>4, <1>5, <1>6 DEF Next, Reconnect, OwnerStops, vars

\* The server's counter and its connections stay within their types.
THEOREM TypeCorrect == Spec => []TypeOK
  BY InitOvershoot, TypeStep, PTL DEF Spec

\* Whatever the connections do at once, each refusal past the limit uses up a
\* logon that was in hand when the limit was reached.
THEOREM OvershootInvariant == Spec => []OvershootInv
  BY InitOvershoot, TypeStep, OvershootStep, PTL DEF Spec

\* So the number of passwords tried between two successes is bounded by the
\* limit and the number of connections, whatever both are.
THEOREM OvershootBounded == Spec => []LimitOvershoot
<1>1. TypeOK /\ OvershootInv => LimitOvershoot
  BY CountedBounds, LogonLimitAssumption
     DEF TypeOK, OvershootInv, LimitOvershoot, Counted
<1> QED
  BY <1>1, TypeCorrect, OvershootInvariant, PTL

-----------------------------------------------------------------------------
(* Server: one server from start to stop.                                  *)

\* What is up while the server starts, runs and stops, and where connections
\* can be meanwhile: what NothingLeft needs of the states before the last.
Phases ==
  /\ thread = "none" <=> owner \in {"binding", "bound", "failed"}
  /\ owner \in {"binding", "failed"} => listeners = {} /\ ~tun
  /\ owner \in {"stopping", "joining", "stopped", "panicked"} => ~tun
  /\ owner = "stopped" => thread = "ended"
  /\ thread \in {"closing", "ended"} => listeners = {}

ConnsOfPhase ==
  /\ thread \in {"none", "building"} => \A c \in Clients : conn[c] \in Over \union {"backlog"}
  /\ listeners = {} => \A c \in Clients : conn[c] # "backlog"
  /\ thread = "ended" => \A c \in Clients : conn[c] \in Over

ServerInv == ServerTypeOK /\ Phases /\ ConnsOfPhase

\* Nothing is up before start has begun.
LEMMA InitServerInv == ServerInit => ServerInv
BY ServerAssumption
   DEF ServerInit, ServerInv, ServerTypeOK, Phases, ConnsOfPhase, Over

\* A connection goes from one position to another, and the others stay.
LEMMA ConnStep ==
  ASSUME ServerInv, NEW c \in Clients, NEW from, NEW to, ConnGoes(c, from, to),
         to \in {"none", "dropped", "header", "body", "busy", "writing"},
         to \in Over \/ thread \notin {"none", "building", "ended"},
         silent' \subseteq Clients
  PROVE  ServerInv'
<1> USE DEF ServerInv, ConnGoes, lifeVars
<1>1. /\ conn' \in [Clients -> Over \union {"backlog", "header", "body", "busy", "writing"}]
      /\ \A d \in Clients : conn'[d] = conn[d] \/ conn'[d] = to
  BY DEF ServerTypeOK, Over
<1>2. ServerTypeOK'
  BY <1>1 DEF ServerTypeOK
<1>3. Phases'
  BY DEF Phases
<1>4. ConnsOfPhase'
  BY <1>1 DEF ConnsOfPhase, Over
<1> QED
  BY <1>2, <1>3, <1>4

\* The steps of the owner, of the thread, of connections and of clients.
LEMMA ServerInvStep == ServerInv /\ [ServerNext]_serverVars => ServerInv'
<1> SUFFICES ASSUME ServerInv, [ServerNext]_serverVars PROVE ServerInv'
  OBVIOUS
<1> USE DEF ServerInv
<1>1. CASE Start
  <2> USE <1>1 DEF OwnerGoes
  <2>1. CASE BindBoth \/ BindAgain \/ BindOne \/ BindFails
    <3>1. UNCHANGED << tun, thread, signalled, conn, silent >>
      BY <2>1 DEF BindBoth, BindAgain, BindOne, BindFails
    <3>2. ServerTypeOK'
      <4>1. retries \in 0 .. MaxRetries /\ MaxRetries \in Nat
        BY ServerAssumption DEF ServerTypeOK
      <4>2. retries' \in 0 .. MaxRetries
        BY <2>1, <4>1 DEF BindBoth, BindAgain, BindOne, BindFails
      <4>3. listeners' \subseteq {"v4", "v6"} /\ owner' \in {"binding", "bound", "failed"}
        BY <2>1 DEF BindBoth, BindAgain, BindOne, BindFails, ServerTypeOK
      <4> QED
        BY <3>1, <4>2, <4>3 DEF ServerTypeOK
    <3>3. Phases'
      BY <2>1, <3>1 DEF BindBoth, BindAgain, BindOne, BindFails, Phases
    <3>4. listeners = {}
      BY <2>1 DEF BindBoth, BindAgain, BindOne, BindFails, Phases
    <3>5. ConnsOfPhase'
      BY <3>1, <3>4 DEF ConnsOfPhase
    <3> QED
      BY <3>2, <3>3, <3>5
  <2>2. CASE StartTun
    BY <2>2 DEF StartTun, ServerTypeOK, Phases, ConnsOfPhase
  <2>3. CASE StartFails
    BY <2>3 DEF StartFails, ServerTypeOK, Phases, ConnsOfPhase, Over
  <2>4. CASE Spawn
    BY <2>4 DEF Spawn, ServerTypeOK, Phases, ConnsOfPhase
  <2> QED
    BY <2>1, <2>2, <2>3, <2>4 DEF Start
<1>2. CASE Thread
  <2>1. CASE BeginAccepting
    BY <2>1 DEF BeginAccepting, ServerTypeOK, Phases, ConnsOfPhase, Over
  <2>2. CASE NoRuntime
    BY <2>2 DEF NoRuntime, ServerTypeOK, Phases, ConnsOfPhase, Over
  <2>3. CASE Shutdown
    BY <2>3 DEF Shutdown, ServerTypeOK, Phases, ConnsOfPhase, Over
  <2>4. CASE RuntimeGone
    BY <2>4 DEF RuntimeGone, ServerTypeOK, Phases, ConnsOfPhase, Over
  <2> QED
    BY <1>2, <2>1, <2>2, <2>3, <2>4 DEF Thread
<1>3. CASE Stopping \/ DropHandle
  <2>1. UNCHANGED << retries, listeners, thread, conn, silent >>
    BY <1>3 DEF Stopping, StopFirst, Signal, Joined, DropHandle
  <2>2. ServerTypeOK' /\ ConnsOfPhase'
    BY <1>3, <2>1
       DEF Stopping, StopFirst, Signal, Joined, DropHandle, OwnerGoes, ServerTypeOK, ConnsOfPhase
  <2>3. Phases'
    BY <1>3, <2>1 DEF Stopping, StopFirst, Signal, Joined, DropHandle, OwnerGoes, Phases
  <2> QED
    BY <2>2, <2>3
<1>4. ASSUME NEW c \in Clients, Serve(c) \/ Written(c) PROVE ServerInv'
  <2>1. silent' \subseteq Clients /\ conn[c] \in Over \union
          {"backlog", "header", "body", "busy", "writing"}
    BY <1>4 DEF Serve, Accept, Waited, Handled, Cancelled, Written, ServerTypeOK
  <2>2. CASE Accept(c)
    BY <2>1, <2>2, ConnStep DEF Accept
  <2>3. CASE Waited(c)
    BY <2>1, <2>3, ConnStep DEF Waited, Over
  <2>4. CASE Handled(c)
    <3>1. conn[c] = "busy"
      BY <2>4 DEF Handled, ConnGoes
    <3>2. thread \notin {"none", "building", "ended"}
      BY <3>1 DEF ConnsOfPhase, Over
    <3> QED
      BY <2>1, <2>4, <3>2, ConnStep DEF Handled
  <2>5. CASE Cancelled(c)
    BY <2>1, <2>5, ConnStep DEF Cancelled, Over
  <2>6. CASE Written(c)
    BY <2>1, <2>6, ConnStep DEF Written
  <2> QED
    BY <1>4, <2>2, <2>3, <2>4, <2>5, <2>6 DEF Serve
<1>5. ASSUME NEW c \in Clients, Client(c) PROVE ServerInv'
  <2>1. CASE Connects(c)
    BY <2>1 DEF Connects, ConnGoes, lifeVars, ServerTypeOK, Phases, ConnsOfPhase, Over
  <2>2. CASE Header(c)
    BY <2>2, ConnStep DEF Header, ServerTypeOK
  <2>3. CASE Body(c)
    BY <2>3, ConnStep DEF Body, ServerTypeOK
  <2>4. CASE HangsUp(c)
    BY <2>4, ConnStep DEF HangsUp, Over, ServerTypeOK
  <2>5. CASE FallsSilent(c)
    BY <2>5 DEF FallsSilent, lifeVars, ServerTypeOK, Phases, ConnsOfPhase
  <2> QED
    BY <1>5, <2>1, <2>2, <2>3, <2>4, <2>5 DEF Client
<1>6. CASE UNCHANGED serverVars
  BY <1>6 DEF serverVars, lifeVars, ServerTypeOK, Phases, ConnsOfPhase
<1> QED
  BY <1>1, <1>2, <1>3, <1>4, <1>5, <1>6 DEF ServerNext

\* The server's state keeps its types, for any clients.
THEOREM ServerTypeCorrect == ServerSpec => []ServerTypeOK
<1>1. ServerInv => ServerTypeOK
  BY DEF ServerInv
<1> QED
  BY <1>1, InitServerInv, ServerInvStep, PTL DEF ServerSpec

\* A start that fails and a stop that returns leave no listener, no tunnel, no
\* thread and no connection, however many clients there are.
THEOREM NothingLeftBehind == ServerSpec => []NothingLeft
<1>1. ServerInv => NothingLeft
  BY DEF ServerInv, Phases, ConnsOfPhase, NothingLeft, Over
<1> QED
  BY <1>1, InitServerInv, ServerInvStep, PTL DEF ServerSpec

-----------------------------------------------------------------------------
(* Owner: the process around it.                                           *)

\* The run without the UI never unloads, nor opens in the background, nor has
\* anything to show; the UI never stands in serve's steps.
Modes ==
  /\ turns \in BOOLEAN /\ unloads \in 0 .. MaxUnloads
  /\ turns => step \notin {"index", "wait"}
  /\ ~turns => /\ step # "terminal" /\ ~InLoop
               /\ unloads = 0 /\ opening = 0 /\ loaded = 0

\* What the loop listens to was chosen after the last unload.
OpeningIsRecent == opening # 0 => loaders[opening].unloads = unloads

OwnerInv == OwnerTypeOK /\ Modes /\ OpeningIsRecent /\ UnloadHolds /\ TerminalRight

\* Initially nothing is open, and the terminal is as found.
LEMMA InitOwnerInv == OwnerInit => OwnerInv
BY OwnerAssumption
   DEF OwnerInit, OwnerInv, OwnerTypeOK, Modes, OpeningIsRecent, UnloadHolds, TerminalRight,
       InLoop, Ended

\* A step that only moves the main thread keeps what is loaded.
LEMMA StepKeepsLoaded ==
  ASSUME OwnerInv, UNCHANGED << turns, uiVars >>
  PROVE  OpeningIsRecent' /\ UnloadHolds'
BY DEF OwnerInv, uiVars, OpeningIsRecent, UnloadHolds

\* main, serve and browse.
LEMMA AroundStep == ASSUME OwnerInv, Around PROVE OwnerInv'
<1> USE DEF OwnerInv, Step, terminalVars, worldVars
<1>1. CASE Starts \/ Wait \/ EnterTerminal \/ Stops
  <2>1. UNCHANGED << turns, uiVars >>
    BY <1>1 DEF Starts, Wait, EnterTerminal, Stops
  <2>2. OpeningIsRecent' /\ UnloadHolds'
    BY <2>1, StepKeepsLoaded
  <2>3. OwnerTypeOK' /\ Modes' /\ TerminalRight'
    BY <1>1, <2>1 DEF Starts, Wait, EnterTerminal, Stops, uiVars, OwnerTypeOK, Modes,
                      TerminalRight, InLoop, Ended
  <2> QED
    BY <2>2, <2>3
<1>2. CASE Index
  <2>1. CASE UNCHANGED << loaders, served, told >>
    <3>1. UNCHANGED << turns, uiVars >>
      BY <1>2, <2>1 DEF Index, uiVars
    <3> QED
      BY <1>2, <2>1, <3>1, StepKeepsLoaded
         DEF Index, OwnerTypeOK, Modes, TerminalRight, InLoop, Ended
  <2>2. CASE loaders' = << [state |-> "ok", unloads |-> 0] >> /\ served' = 1 /\ told' = {1}
    <3>1. /\ ~turns /\ unloads = 0 /\ opening = 0 /\ loaded = 0
          /\ UNCHANGED << turns, unloads, opening, loaded, raw, screen >>
      BY <1>2 DEF Index, Modes
    <3>2. /\ loaders' \in Seq([state : {"opening", "ok", "failed", "died"},
                              unloads : 0 .. MaxUnloads])
          /\ Len(loaders') = 1 /\ loaders'[1].unloads = 0
      BY <2>2, OwnerAssumption
    <3>3. step = "index" /\ step' \in {"wait", "stop"}
      BY <1>2 DEF Index
    <3>4. OwnerTypeOK'
      BY <2>2, <3>1, <3>2, <3>3 DEF OwnerTypeOK, InLoop, Ended
    <3>5. Modes' /\ TerminalRight'
      BY <3>1, <3>3 DEF Modes, TerminalRight, InLoop
    <3>6. OpeningIsRecent' /\ UnloadHolds'
      BY <2>2, <3>1, <3>2 DEF OpeningIsRecent, UnloadHolds
    <3> QED
      BY <3>4, <3>5, <3>6
  <2> QED
    BY <1>2, <2>1, <2>2 DEF Index
<1> QED
  BY <1>1, <1>2 DEF Around

\* A turn of the loop, and its failures.
LEMMA TurnStep ==
  ASSUME OwnerInv, Turn \/ DrawFails \/ EventFails \/ OwnerPanics
  PROVE  OwnerInv'
<1> USE DEF OwnerInv, Step, terminalVars, worldVars
<1>1. CASE Draw \/ LookForSignal \/ LookForLimit \/ DrawFails \/ EventFails \/ OwnerPanics
  <2>1. UNCHANGED << turns, uiVars >>
    BY <1>1 DEF Draw, LookForSignal, LookForLimit, DrawFails, EventFails, OwnerPanics, LeaveLoop
  <2>2. OpeningIsRecent' /\ UnloadHolds'
    BY <2>1, StepKeepsLoaded
  <2>3. OwnerTypeOK' /\ Modes' /\ TerminalRight'
    BY <1>1, <2>1
       DEF Draw, LookForSignal, LookForLimit, DrawFails, EventFails, OwnerPanics, LeaveLoop,
           RestoreTerminal, uiVars, OwnerTypeOK, Modes, TerminalRight, InLoop, Ended
  <2> QED
    BY <2>2, <2>3
<1>2. CASE LookForArchive
  <2>1. CASE opening \in Done
    <3>1. opening \in 1 .. Len(loaders)
      BY <2>1 DEF Done, OwnerTypeOK
    <3>2. /\ step = "opening" /\ step' = "event"
          /\ UNCHANGED << turns, raw, screen, loaders, unloads >>
          /\ opening' = 0 /\ told' = told \union {opening}
          /\ \/ served' = opening /\ loaded' = opening
             \/ UNCHANGED << served, loaded >>
      BY <1>2, <2>1 DEF LookForArchive
    <3>3. turns /\ unloads' \in 0 .. MaxUnloads
      BY <3>2 DEF Modes, InLoop
    <3>4. OwnerTypeOK'
      BY <3>1, <3>2 DEF OwnerTypeOK, InLoop, Ended
    <3>5. Modes' /\ TerminalRight'
      BY <3>2, <3>3 DEF Modes, TerminalRight, InLoop
    <3>6. OpeningIsRecent' /\ UnloadHolds'
      BY <3>1, <3>2 DEF OpeningIsRecent, UnloadHolds
    <3> QED
      BY <3>4, <3>5, <3>6
  <2>2. CASE opening \notin Done
    BY <1>2, <2>2
       DEF LookForArchive, OwnerTypeOK, Modes, OpeningIsRecent, UnloadHolds, TerminalRight,
           InLoop, Ended
  <2> QED
    BY <2>1, <2>2
<1> QED
  BY <1>1, <1>2 DEF Turn

\* Keys.  An unload abandons what is opening; a load begins after the last one.
LEMMA KeyStep == ASSUME OwnerInv, Key PROVE OwnerInv'
<1> USE DEF OwnerInv, Step, terminalVars, worldVars
<1>1. CASE NoKey \/ Quit \/ OpenPicker \/ ClosePicker
  BY <1>1
     DEF NoKey, Quit, OpenPicker, ClosePicker, LeaveLoop, RestoreTerminal, uiVars,
         OwnerTypeOK, Modes, OpeningIsRecent, UnloadHolds, TerminalRight, InLoop, Ended
<1>2. CASE Unload
  BY <1>2, OwnerAssumption
     DEF Unload, OwnerTypeOK, Modes, OpeningIsRecent, UnloadHolds, TerminalRight, InLoop, Ended
<1>3. CASE LoadChosen
  <2>1. CASE opening # 0
    BY <1>3, <2>1
       DEF LoadChosen, OwnerTypeOK, Modes, OpeningIsRecent, UnloadHolds, TerminalRight, InLoop,
           Ended
  <2>2. CASE opening = 0
    <3> DEFINE new == [state |-> "opening", unloads |-> unloads]
    <3>1. loaders' = Append(loaders, new) /\ opening' = Len(loaders')
      BY <1>3, <2>2 DEF LoadChosen
    <3>2. new \in [state : {"opening", "ok", "failed", "died"}, unloads : 0 .. MaxUnloads]
      BY DEF Modes
    <3>3. /\ loaders' \in Seq([state : {"opening", "ok", "failed", "died"},
                              unloads : 0 .. MaxUnloads])
          /\ Len(loaders') = Len(loaders) + 1
          /\ loaders'[Len(loaders')] = new
          /\ \A i \in 1 .. Len(loaders) : loaders'[i] = loaders[i]
          /\ Len(loaders) \in Nat
      BY <3>1, <3>2 DEF OwnerTypeOK
    <3>4. unloads' = unloads /\ served' = served /\ loaded' = loaded /\ told' = told
      BY <1>3 DEF LoadChosen
    <3>5. OwnerTypeOK'
      BY <1>3, <3>1, <3>3, <3>4 DEF LoadChosen, OwnerTypeOK, InLoop, Ended
    <3>6. Modes' /\ TerminalRight'
      BY <1>3 DEF LoadChosen, Modes, TerminalRight, InLoop
    <3>7. OpeningIsRecent' /\ UnloadHolds'
      BY <1>3, <3>1, <3>3, <3>4 DEF LoadChosen, OwnerTypeOK, OpeningIsRecent, UnloadHolds
    <3> QED
      BY <3>5, <3>6, <3>7
  <2> QED
    BY <2>1, <2>2
<1> QED
  BY <1>1, <1>2, <1>3 DEF Key

\* What becomes of a loader does not change when it was chosen.
LEMMA LoaderStep ==
  ASSUME OwnerInv, NEW i \in 1 .. Len(loaders), LoaderEnds(i)
  PROVE  OwnerInv'
<1> USE DEF OwnerInv
<1>1. PICK s \in {"ok", "failed", "died"} : loaders' = [loaders EXCEPT ![i].state = s]
  BY DEF LoaderEnds
<1> DEFINE Kinds == [state : {"opening", "ok", "failed", "died"}, unloads : 0 .. MaxUnloads]
<1>2. /\ loaders' \in Seq(Kinds) /\ Len(loaders') = Len(loaders)
      /\ \A j \in 1 .. Len(loaders) : loaders'[j].unloads = loaders[j].unloads
  <2>1. loaders \in Seq(Kinds)
    BY DEF OwnerTypeOK
  <2>2. loaders[i] \in Kinds
    <3> HIDE DEF Kinds
    <3> QED
      BY <2>1
  <2> DEFINE new == [loaders[i] EXCEPT !.state = s]
  <2>3. new \in Kinds /\ new.unloads = loaders[i].unloads
    BY <2>2
  <2>4. loaders' = [loaders EXCEPT ![i] = new]
    BY <1>1
  <2> HIDE DEF new, Kinds
  <2>5. loaders' \in Seq(Kinds) /\ Len(loaders') = Len(loaders)
    BY <2>1, <2>3, <2>4
  <2>6. \A j \in 1 .. Len(loaders) : loaders'[j] = IF j = i THEN new ELSE loaders[j]
    BY <2>1, <2>4
  <2> QED
    BY <2>3, <2>5, <2>6
<1>3. UNCHANGED << step, turns, terminalVars, opening, told, served, loaded, unloads >>
  BY DEF LoaderEnds
<1>4. OwnerTypeOK'
  BY <1>2, <1>3 DEF OwnerTypeOK, InLoop, Ended
<1>5. Modes' /\ TerminalRight'
  BY <1>3 DEF Modes, TerminalRight, InLoop, terminalVars
<1>6. OpeningIsRecent' /\ UnloadHolds'
  BY <1>2, <1>3 DEF OwnerTypeOK, OpeningIsRecent, UnloadHolds
<1> QED
  BY <1>4, <1>5, <1>6

\* Every step of the process.
LEMMA OwnerInvStep == OwnerInv /\ [OwnerNext]_ownerVars => OwnerInv'
<1> SUFFICES ASSUME OwnerInv, [OwnerNext]_ownerVars PROVE OwnerInv'
  OBVIOUS
<1>1. CASE Terminate \/ Logons \/ UNCHANGED ownerVars
  <2>1. UNCHANGED << step, turns, terminalVars, uiVars >>
    BY <1>1 DEF Terminate, Logons, ownerVars
  <2>2. OpeningIsRecent' /\ UnloadHolds'
    BY <2>1, StepKeepsLoaded
  <2>3. OwnerTypeOK' /\ Modes' /\ TerminalRight'
    BY <2>1 DEF uiVars, terminalVars, OwnerInv, OwnerTypeOK, Modes, TerminalRight, InLoop, Ended
  <2> QED
    BY <2>2, <2>3 DEF OwnerInv
<1> QED
  BY <1>1, AroundStep, TurnStep, KeyStep, LoaderStep DEF OwnerNext

\* The owner's state keeps its types.
THEOREM OwnerTypeCorrect == OwnerSpec => []OwnerTypeOK
<1>1. OwnerInv => OwnerTypeOK
  BY DEF OwnerInv
<1> QED
  BY <1>1, InitOwnerInv, OwnerInvStep, PTL DEF OwnerSpec

\* However long an archive takes to open, and however many are chosen and
\* unloaded, an unload is not undone by one chosen before it.
THEOREM UnloadIsFinal == OwnerSpec => []UnloadHolds
<1>1. OwnerInv => UnloadHolds
  BY DEF OwnerInv
<1> QED
  BY <1>1, InitOwnerInv, OwnerInvStep, PTL DEF OwnerSpec

\* Whichever way the UI ends, the terminal is as it was found.
THEOREM TerminalRestored == OwnerSpec => []TerminalRight
<1>1. OwnerInv => TerminalRight
  BY DEF OwnerInv
<1> QED
  BY <1>1, InitOwnerInv, OwnerInvStep, PTL DEF OwnerSpec

-----------------------------------------------------------------------------
(* The parts in one.                                                       *)

\* A step of one part leaves the others as they are.
LEMMA StepOfAPart ==
  [MCNext]_<< part, vars, serverVars, ownerVars >>
    => [Next]_vars /\ [ServerNext]_serverVars /\ [OwnerNext]_ownerVars
BY DEF MCNext, Only

\* What each part keeps, all together.
PartsInv == TypeOK /\ OvershootInv /\ ServerInv /\ OwnerInv

LEMMA PartsStep ==
  PartsInv /\ [MCNext]_<< part, vars, serverVars, ownerVars >> => PartsInv'
BY StepOfAPart, TypeStep, OvershootStep, ServerInvStep, OwnerInvStep DEF PartsInv

LEMMA PartsInvariant == MCSpec => []PartsInv
<1>1. MCInit => PartsInv
  BY InitOvershoot, InitServerInv, InitOwnerInv DEF MCInit, PartsInv
<1> QED
  BY <1>1, PartsStep, PTL DEF MCSpec

\* The state of every part keeps its types, whichever part it is that runs.
THEOREM MCTypeCorrect == MCSpec => []MCTypeOK
<1>1. PartsInv => MCTypeOK
  BY DEF PartsInv, ServerInv, OwnerInv, MCTypeOK
<1> QED
  BY <1>1, PartsInvariant, PTL
=============================================================================
