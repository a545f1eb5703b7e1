-------------------------------- MODULE Server --------------------------------
(***************************************************************************)
(* The life of a server and of its connections: smb::start binds the       *)
(* listeners, brings up the packet tunnel if there is one, and starts the  *)
(* thread that accepts; serve_connection reads a message at a time, each   *)
(* wait bounded; stop takes it all down (smb/mod.rs, local_server.rs).     *)
(*                                                                         *)
(* What a message does is in module Connection.  Every connection is a     *)
(* task of a runtime: when the runtime shuts down, a task ends at its next *)
(* wait, but a message that is being handled is handled to its end.        *)
(***************************************************************************)
EXTENDS Naturals, FiniteSets

CONSTANTS
  Clients,    \* the clients, with a connection each at a time
  Tunnel,     \* whether the server is started with Bind::Tun
  MaxRetries  \* MAX_EPHEMERAL_BIND_RETRIES, or 0 if the port is given

ASSUME ServerAssumption == /\ IsFiniteSet(Clients)
                           /\ Tunnel \in BOOLEAN
                           /\ MaxRetries \in Nat

VARIABLES
  owner,      \* where the owner stands in start and stop
  retries,    \* the ephemeral ports that may still be drawn
  listeners,  \* the families that listen
  tun,        \* whether the tunnel is up
  thread,     \* the thread of the server
  signalled,  \* shutdown_tx has been used
  conn,       \* where each connection stands
  silent      \* the clients that neither send, nor read, nor hang up
lifeVars == <<owner, retries, listeners, tun, thread, signalled>>
serverVars == <<lifeVars, conn, silent>>

Over == {"none", "dropped"}

ServerInit == /\ owner = "binding"
              /\ retries = MaxRetries
              /\ listeners = {}
              /\ tun = FALSE
              /\ thread = "none"
              /\ signalled = FALSE
              /\ conn = [c \in Clients |-> "none"]
              /\ silent = {}

OwnerGoes(from, to) == owner = from /\ owner' = to

-----------------------------------------------------------------------------
(* start.                                                                  *)

\* bind_localhost: a free port on both families, as long as there are ports to
\* draw; then, or if the port is given, IPv4 may have to do.
BindBoth == /\ OwnerGoes("binding", "bound")
            /\ listeners' = {"v4", "v6"}
            /\ UNCHANGED <<retries, tun, thread, signalled, conn, silent>>

BindAgain == /\ owner = "binding" /\ retries > 0
             /\ retries' = retries - 1
             /\ UNCHANGED <<owner, listeners, tun, thread, signalled, conn, silent>>

BindOne == /\ OwnerGoes("binding", "bound") /\ retries = 0
           /\ listeners' = {"v4"}
           /\ UNCHANGED <<retries, tun, thread, signalled, conn, silent>>

BindFails == /\ OwnerGoes("binding", "failed") /\ retries = 0
             /\ UNCHANGED <<retries, listeners, tun, thread, signalled, conn, silent>>

\* The tunnel comes up before the thread is started.
StartTun == /\ Tunnel /\ ~tun
            /\ OwnerGoes("bound", "bound")
            /\ tun' = TRUE
            /\ UNCHANGED <<retries, listeners, thread, signalled, conn, silent>>

\* A mutant of StartFails: the tunnel stays.
StartFailsTunUp == /\ OwnerGoes("bound", "failed")
                   /\ listeners' = {}
                   /\ UNCHANGED <<retries, tun, thread, signalled, silent>>
                   /\ conn' = [c \in Clients |-> "none"]

\* The tunnel, or the thread, cannot be started: what there is is dropped.
StartFails == /\ OwnerGoes("bound", "failed")
              /\ listeners' = {}
              /\ tun' = FALSE
              /\ conn' = [c \in Clients |-> "none"]
              /\ UNCHANGED <<retries, thread, signalled, silent>>

Spawn == /\ Tunnel => tun
         /\ OwnerGoes("bound", "running")
         /\ thread' = "building"
         /\ UNCHANGED <<retries, listeners, tun, signalled, conn, silent>>

-----------------------------------------------------------------------------
(* The thread.                                                             *)

\* accept_loop begins.  A listener the runtime does not take is gone, and the
\* connections that wait at it.
BeginAccepting ==
  /\ thread = "building"
  /\ thread' = "accepting"
  /\ \E kept \in SUBSET listeners, lost \in SUBSET {c \in Clients : conn[c] = "backlog"} :
       /\ listeners' = kept
       /\ lost # {} => kept # listeners
       /\ kept = {} => \A c \in Clients \ lost : conn[c] # "backlog"
       /\ conn' = [c \in Clients |-> IF c \in lost THEN "none" ELSE conn[c]]
  /\ UNCHANGED <<owner, retries, tun, signalled, silent>>

\* There is no runtime: the thread returns, and the listeners with it.
NoRuntime == /\ thread = "building"
             /\ thread' = "ended"
             /\ listeners' = {}
             /\ conn' = [c \in Clients |-> "none"]
             /\ UNCHANGED <<owner, retries, tun, signalled, silent>>

\* The signal ends accept_loop, and the runtime begins to shut down.
Shutdown == /\ thread = "accepting" /\ signalled
            /\ thread' = "closing"
            /\ listeners' = {}
            /\ conn' = [c \in Clients |-> IF conn[c] = "backlog" THEN "none" ELSE conn[c]]
            /\ UNCHANGED <<owner, retries, tun, signalled, silent>>

RuntimeGone == /\ thread = "closing"
               /\ \A c \in Clients : conn[c] \in Over
               /\ thread' = "ended"
               /\ UNCHANGED <<owner, retries, listeners, tun, signalled, conn, silent>>

-----------------------------------------------------------------------------
(* A connection.                                                           *)

ConnGoes(c, from, to) == /\ conn[c] \in from
                         /\ conn' = [conn EXCEPT ![c] = to]
                         /\ UNCHANGED lifeVars

\* The kernel takes a connection as soon as there is a listener.
Connects(c) == /\ listeners # {}
               /\ ConnGoes(c, Over, "backlog")
               /\ silent' = silent \ {c}

\* An error of accept that is not of the connection is waited out.
Accept(c) == /\ thread = "accepting"
             /\ ConnGoes(c, {"backlog"}, "header")
             /\ UNCHANGED silent

\* The four bytes of a header: of a message, of a keepalive, or of something the
\* connection is dropped for (another type, or a length that is too large).
Header(c) == /\ c \notin silent /\ thread = "accepting"
             /\ \/ ConnGoes(c, {"header"}, "body")
                \/ ConnGoes(c, {"header"}, "header")
                \/ ConnGoes(c, {"header"}, "dropped")
             /\ UNCHANGED silent

Body(c) == /\ c \notin silent /\ thread = "accepting"
           /\ ConnGoes(c, {"body"}, "busy")
           /\ UNCHANGED silent

\* A mutant of Waited: the rest of a message is waited for without a limit.
WaitedForHeader(c) == /\ thread = "accepting"
                      /\ ConnGoes(c, {"header"}, "dropped")
                      /\ UNCHANGED silent

\* IDLE_TIMEOUT or BODY_TIMEOUT has passed.
Waited(c) == /\ thread = "accepting"
             /\ ConnGoes(c, {"header", "body"}, "dropped")
             /\ UNCHANGED silent

\* handle_message, in block_in_place: a reply, none, or an end.
Handled(c) == /\ \/ ConnGoes(c, {"busy"}, "writing")
                 \/ ConnGoes(c, {"busy"}, "header")
                 \/ ConnGoes(c, {"busy"}, "dropped")
              /\ UNCHANGED silent

\* The reply is written, which nothing bounds.  After too many refusals the
\* connection is dropped.
Written(c) == /\ thread = "accepting"
              /\ \/ ConnGoes(c, {"writing"}, "header")
                 \/ ConnGoes(c, {"writing"}, "dropped")
              /\ UNCHANGED silent

HangsUp(c) == /\ c \notin silent
              /\ ConnGoes(c, {"backlog", "header", "body", "writing"}, "dropped")
              /\ UNCHANGED silent

\* The task ends where it waits.
Cancelled(c) == /\ thread = "closing"
                /\ ConnGoes(c, {"header", "body", "writing"}, "dropped")
                /\ UNCHANGED silent

FallsSilent(c) == /\ conn[c] \notin Over /\ c \notin silent
                  /\ silent' = silent \union {c}
                  /\ UNCHANGED <<lifeVars, conn>>

-----------------------------------------------------------------------------
(* stop.                                                                   *)

\* The owner stops the server: the tunnel goes first, its clients are reset.
StopFirst == /\ OwnerGoes("running", "stopping")
             /\ tun' = FALSE
             /\ UNCHANGED <<retries, listeners, thread, signalled, conn, silent>>

\* A mutant of Signal: the thread is only joined.
SignalForgotten == /\ OwnerGoes("stopping", "joining")
                   /\ UNCHANGED <<retries, listeners, tun, thread, signalled, conn, silent>>

Signal == /\ OwnerGoes("stopping", "joining")
          /\ signalled' = TRUE
          /\ UNCHANGED <<retries, listeners, tun, thread, conn, silent>>

Joined == /\ OwnerGoes("joining", "stopped")
          /\ thread = "ended"
          /\ UNCHANGED <<retries, listeners, tun, thread, signalled, conn, silent>>

\* drop, if the owner has panicked: nobody waits for the thread.
DropHandle == /\ OwnerGoes("running", "panicked")
              /\ tun' = FALSE
              /\ signalled' = TRUE
              /\ UNCHANGED <<retries, listeners, thread, conn, silent>>

Start == BindBoth \/ BindAgain \/ BindOne \/ BindFails \/ StartTun \/ StartFails \/ Spawn
Thread == BeginAccepting \/ NoRuntime \/ Shutdown \/ RuntimeGone
Serve(c) == Accept(c) \/ Waited(c) \/ Handled(c) \/ Cancelled(c)
Client(c) == Connects(c) \/ Header(c) \/ Body(c) \/ HangsUp(c) \/ FallsSilent(c)
Stopping == StopFirst \/ Signal \/ Joined

ServerNext ==
  \/ Start \/ Thread \/ Stopping \/ DropHandle
  \/ \E c \in Clients : Serve(c) \/ Written(c) \/ Client(c)

\* Threads run, timers go off, and a message is handled at last.  That a client
\* reads what it is sent is nothing the code can count on.
ServerFairness == /\ WF_serverVars(Start) /\ WF_serverVars(Thread)
                  /\ WF_serverVars(Signal) /\ WF_serverVars(Joined)
                  /\ \A c \in Clients : WF_serverVars(Serve(c))

ServerSpec == ServerInit /\ [][ServerNext]_serverVars /\ ServerFairness

\* The hosts of the clients take what they are sent.
HostsRead == \A c \in Clients : WF_serverVars(Written(c))

-----------------------------------------------------------------------------
(* Properties.                                                             *)

\* The state has its types.
ServerTypeOK ==
  /\ owner \in {"binding", "bound", "failed", "running", "stopping", "joining",
                "stopped", "panicked"}
  /\ listeners \subseteq {"v4", "v6"} /\ retries \in 0 .. MaxRetries
  /\ thread \in {"none", "building", "accepting", "closing", "ended"}
  /\ conn \in [Clients -> Over \union {"backlog", "header", "body", "busy", "writing"}]
  /\ silent \subseteq Clients

\* start: "leaves no hidden server running behind a tunnel that never came up",
\* nor a tunnel in front of a server that did not start.  stop: when it returns
\* nothing is left of the server, and no message is being handled.
NothingLeft ==
  owner \in {"failed", "stopped"} =>
    /\ ~tun /\ listeners = {} /\ thread \in {"none", "ended"}
    /\ \A c \in Clients : conn[c] \in Over

\* stop: the join ends, whatever the clients do, and if the thread ended before.
StopReturns == owner = "stopping" ~> owner = "stopped"

\* serve_connection: a client that falls silent does not hold its connection
\* for ever.
SilentDropped ==
  \A c \in Clients : c \in silent ~> c \notin silent \/ conn[c] \in Over
=============================================================================
