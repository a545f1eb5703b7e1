-------------------------------- MODULE Bridge --------------------------------
(***************************************************************************)
(* One bridge of the packet tunnel (smb/tun.rs): a TCP socket of the       *)
(* embedded stack, which answers for an address nobody has, and a loopback *)
(* stream to the SMB listener (`upstream`).  One thread polls the stack,   *)
(* when packets of the client take effect, and then pumps what has come in *)
(* either way, a step at a time; the server runs besides.                  *)
(*                                                                         *)
(* A unit of data is a chunk of 16 KiB, named for its connection and its   *)
(* place.  The stack is smoltcp's, whose socket has the states of TCP; the *)
(* server is any that reads, replies, and closes when the client has.      *)
(***************************************************************************)
EXTENDS Naturals, Sequences

CONSTANTS
  MaxConns,          \* a bound on the connections that are made
  MaxUnits,          \* and on what either side sends in one
  SOCKET_BUF,        \* the buffers of the socket and of the loopback stream
  PROXY_HIGH_WATER   \* the bridge's own

ASSUME BridgeAssumption ==
  {MaxConns, MaxUnits, SOCKET_BUF, PROXY_HIGH_WATER} \subseteq Nat \ {0}

VARIABLES
  step,                   \* of the thread: "poll", "connect", "up", "down",
                          \* "finish" or "stopped"
  state, rx, tx,          \* the socket: its state and buffers
  rst_owed,               \* it was aborted and the stack has not been polled
  upstream,               \* Bridge::upstream is there
  to_upstream, to_client, \* Bridge: what is on its way
  upstream_eof, upstream_write_closed,
  conn,                   \* history: the connection, counted from 1
  sent,                   \* the units the client has sent
  received,               \* history: what it has got
  told,                   \* what it knows: "open", "fin" or "rst"
  listening,              \* there is an SMB listener
  served, replied,        \* history: what the server has read, and how much sent
  server,                 \* its end: "open", "closed", "reset"
  in, out,                \* the buffers of the loopback stream
  lost                    \* history: the server's end went with data unread

socketVars == <<state, rx, tx, rst_owed>>
bridgeVars == <<upstream, to_upstream, to_client, upstream_eof, upstream_write_closed>>
clientVars == <<conn, sent, received, told>>
serverVars == <<listening, served, replied, server, in, out, lost>>
tunVars == <<step, socketVars, bridgeVars, clientVars, serverVars>>

BridgeInit ==
  /\ step = "poll"
  /\ state = "Listen" /\ rx = <<>> /\ tx = <<>> /\ rst_owed = FALSE
  /\ upstream = FALSE /\ to_upstream = <<>> /\ to_client = <<>>
  /\ upstream_eof = FALSE /\ upstream_write_closed = FALSE
  /\ conn = 0 /\ sent = 0 /\ received = <<>> /\ told = "open"
  /\ listening = TRUE /\ served = <<>> /\ replied = 0 /\ server = "closed"
  /\ in = <<>> /\ out = <<>> /\ lost = FALSE

Least2(a, b) == IF a < b THEN a ELSE b
Take(s, n) == SubSeq(s, 1, Least2(n, Len(s)))
Drop(s, n) == SubSeq(s, Least2(n, Len(s)) + 1, Len(s))

Room(s, size) == IF Len(s) < size THEN size - Len(s) ELSE 0

may_recv == state \in {"Established", "FinWait1", "FinWait2"} \/ rx # <<>>
may_send == state \in {"Established", "CloseWait"}
is_open == state \notin {"Closed", "TimeWait"}

-----------------------------------------------------------------------------
(* The client's packets, as interface.poll finds them.                     *)

Polled == step = "poll" /\ UNCHANGED <<step, bridgeVars, serverVars>>

Syn == /\ Polled
       /\ state = "Listen" /\ conn < MaxConns
       /\ state' = "SynReceived"
       /\ conn' = conn + 1 /\ sent' = 0 /\ received' = <<>> /\ told' = "open"
       /\ UNCHANGED <<rx, tx, rst_owed>>

HandshakeAck == /\ Polled
                /\ state = "SynReceived"
                /\ state' = "Established"
                /\ UNCHANGED <<rx, tx, rst_owed, clientVars>>

Data == /\ Polled
        /\ state \in {"Established", "FinWait1", "FinWait2"}
        /\ sent < MaxUnits /\ Len(rx) < SOCKET_BUF
        /\ rx' = Append(rx, <<conn, sent + 1>>)
        /\ sent' = sent + 1
        /\ UNCHANGED <<state, tx, rst_owed, conn, received, told>>

Fin == /\ Polled
       /\ \/ state = "Established" /\ state' = "CloseWait"
          \/ state = "FinWait1" /\ state' = "Closing"
          \/ state = "FinWait2" /\ state' = "TimeWait"
       /\ UNCHANGED <<rx, tx, rst_owed, clientVars>>

\* A handshake that is reset leaves the socket listening.
Rst == /\ Polled
       /\ state \notin {"Listen", "Closed"}
       /\ state' = IF state = "SynReceived" THEN "Listen" ELSE "Closed"
       /\ told' = "rst"
       /\ tx' = <<>>
       /\ UNCHANGED <<rx, rst_owed, conn, sent, received>>

\* What is sent arrives, and last the end of it.
Deliver == /\ Polled
           /\ tx # <<>>
           /\ received' = Append(received, Head(tx))
           /\ tx' = Tail(tx)
           /\ UNCHANGED <<state, rx, rst_owed, conn, sent, told>>

FinAcked == /\ Polled
            /\ tx = <<>>
            /\ \/ state = "FinWait1" /\ state' = "FinWait2"
               \/ state = "Closing" /\ state' = "TimeWait"
               \/ state = "LastAck" /\ state' = "Closed"
            /\ told' = "fin"
            /\ UNCHANGED <<rx, tx, rst_owed, conn, sent, received>>

\* The stack sends the reset of an aborted socket.
SendRst == /\ rst_owed' = FALSE
           /\ told' = IF rst_owed THEN "rst" ELSE told
           /\ UNCHANGED <<state, rx, tx, conn, sent, received>>

EndPoll == /\ step = "poll"
           /\ step' = "connect"
           /\ SendRst
           /\ UNCHANGED <<bridgeVars, serverVars>>

-----------------------------------------------------------------------------
(* pump.                                                                   *)

Reset == /\ upstream' = FALSE
         /\ to_upstream' = <<>>
         /\ to_client' = <<>>
         /\ upstream_eof' = FALSE
         /\ upstream_write_closed' = FALSE

Abort == /\ state' = "Closed"
         /\ tx' = <<>>
         /\ rst_owed' = TRUE
         /\ UNCHANGED rx

\* A mutant of Recycle: bytes for the client before are kept.
RecycleKeepsBytes ==
  /\ upstream' = FALSE /\ to_upstream' = <<>> /\ UNCHANGED to_client
  /\ upstream_eof' = FALSE /\ upstream_write_closed' = FALSE
  /\ state' = "Listen" /\ rx' = <<>> /\ tx' = <<>> /\ rst_owed' = FALSE
  /\ server' = IF upstream THEN "closed" ELSE server

\* recycle: the stream is dropped, and the socket listens anew.  A reset that
\* has not been sent by then never is.
Recycle == /\ Reset
           /\ state' = "Listen" /\ rx' = <<>> /\ tx' = <<>> /\ rst_owed' = FALSE
           /\ server' = IF upstream THEN "closed" ELSE server

\* A mutant of ConnectFails: the client is left to itself.
ConnectFailsSilently == UNCHANGED socketVars

ConnectFails == Abort

\* A connection that has been established is given a stream, also if the client
\* has already ended its side; a socket that is closed listens again.
Connect ==
  /\ step = "connect"
  /\ UNCHANGED <<clientVars, listening>>
  /\ IF upstream
     THEN /\ step' = "up"
          /\ UNCHANGED <<socketVars, bridgeVars, served, replied, server, in, out,
                         lost>>
     ELSE IF state \in {"Established", "CloseWait"}
     THEN IF listening
          THEN /\ step' = "up"
               /\ upstream' = TRUE
               /\ server' = "open"
               /\ served' = <<>> /\ replied' = 0 /\ in' = <<>> /\ out' = <<>> /\ lost' = FALSE
               /\ UNCHANGED <<socketVars, to_upstream, to_client, upstream_eof,
                              upstream_write_closed>>
          ELSE /\ step' = "poll"
               /\ ConnectFails
               /\ UNCHANGED <<bridgeVars, served, replied, server, in, out, lost>>
     ELSE /\ step' = "poll"
          /\ IF is_open THEN UNCHANGED <<socketVars, bridgeVars, server>> ELSE Recycle
          /\ UNCHANGED <<served, replied, in, out, lost>>

\* From the socket to the stream, as far as there is room.  The first write to
\* a stream whose other end is gone may still succeed.
PumpUp ==
  LET n == Room(to_upstream, PROXY_HIGH_WATER)
      pending == to_upstream \o Take(rx, n)
      k == Room(in, SOCKET_BUF)
  IN /\ step = "up"
     /\ step' = "down"
     /\ rx' = Drop(rx, n)
     /\ \/ /\ server = "open"
           /\ in' = in \o Take(pending, k)
           /\ to_upstream' = Drop(pending, k)
           /\ UNCHANGED upstream_write_closed
        \/ /\ server # "open"
           /\ to_upstream' = <<>>
           /\ UNCHANGED in
           /\ upstream_write_closed' \in
                {upstream_write_closed, upstream_write_closed \/ pending # <<>>}
     /\ UNCHANGED <<state, tx, rst_owed, upstream, to_client, upstream_eof, clientVars,
                    listening, served, replied, server, out, lost>>

\* From the stream to the socket.
PumpDown ==
  LET n == IF upstream_eof THEN 0 ELSE Room(to_client, PROXY_HIGH_WATER)
      pending == to_client \o Take(out, n)
      k == IF may_send THEN Room(tx, SOCKET_BUF) ELSE 0
  IN /\ step = "down"
     /\ step' = "finish"
     /\ out' = Drop(out, n)
     /\ upstream_eof' = (upstream_eof \/ (/\ server # "open" /\ out' = <<>>
                                         /\ Room(pending, PROXY_HIGH_WATER) > 0))
     /\ tx' = tx \o Take(pending, k)
     /\ to_client' = Drop(pending, k)
     /\ UNCHANGED <<state, rx, rst_owed, upstream, to_upstream, upstream_write_closed,
                    clientVars, listening, served, replied, server, in, lost>>

\* The client will send no more, and what it has sent has been passed on.
Ended == ~may_recv /\ to_upstream = <<>> /\ ~upstream_write_closed

\* Each end is passed on once everything before it has been.
Finish ==
  LET closes == upstream_eof /\ to_client = <<>> /\ may_send
  IN /\ step = "finish"
     /\ step' = "poll"
     /\ IF is_open
        THEN /\ state' = IF ~closes THEN state
                         ELSE IF state = "CloseWait" THEN "LastAck" ELSE "FinWait1"
             /\ upstream_write_closed' = (upstream_write_closed \/ Ended)
             /\ UNCHANGED <<rx, tx, rst_owed, upstream, to_upstream, to_client,
                            upstream_eof, server>>
        ELSE Recycle
     /\ UNCHANGED <<clientVars, listening, served, replied, in, out, lost>>

\* poll_loop ends: every socket is aborted, and the stack polled once more.
StopTun ==
  /\ step = "poll"
  /\ step' = "stopped"
  /\ state' = "Closed" /\ tx' = <<>> /\ rx' = rx /\ rst_owed' = FALSE
  /\ told' = IF state \in {"Listen", "Closed"} THEN told ELSE "rst"
  /\ UNCHANGED <<bridgeVars, conn, sent, received, serverVars>>

-----------------------------------------------------------------------------
(* The server.                                                             *)

Served == /\ server = "open"
          /\ UNCHANGED <<step, socketVars, bridgeVars, clientVars, listening>>

ServerReads == /\ Served
               /\ in # <<>>
               /\ served' = Append(served, Head(in))
               /\ in' = Tail(in)
               /\ UNCHANGED <<replied, server, out, lost>>

ServerReplies == /\ Served
                 /\ replied < MaxUnits /\ Len(out) < SOCKET_BUF
                 /\ replied' = replied + 1
                 /\ out' = Append(out, <<conn, replied + 1>>)
                 /\ UNCHANGED <<served, server, in, lost>>

SeesEnd == upstream_write_closed /\ in = <<>>

\* It has read to the end, and closes.
ServerEnds == /\ Served
              /\ SeesEnd
              /\ server' = "closed"
              /\ UNCHANGED <<served, replied, in, out, lost>>

\* It closes for reasons of its own; what it has not read resets the stream, and
\* may take what the bridge has not read with it.
ServerCloses == /\ Served
                /\ ~SeesEnd
                /\ server' = IF in = <<>> THEN "closed" ELSE "reset"
                /\ \/ UNCHANGED <<out, lost>>
                   \/ in # <<>> /\ out' = <<>> /\ lost' = TRUE
                /\ UNCHANGED <<served, replied, in>>

StopListening == /\ listening
                 /\ listening' = FALSE
                 /\ UNCHANGED <<step, socketVars, bridgeVars, clientVars, served, replied,
                                server, in, out, lost>>

Client == Syn \/ HandshakeAck \/ Data \/ Fin \/ Rst \/ Deliver \/ FinAcked
Thread == EndPoll \/ Connect \/ PumpUp \/ PumpDown \/ Finish
Server == ServerReads \/ ServerReplies \/ ServerEnds \/ ServerCloses \/ StopListening

BridgeNext == Client \/ Thread \/ StopTun \/ Server

\* The thread runs, and so does a server that has something to read.  The host
\* of the client answers, and closes a connection it has been told the end of.
\* Each of these finds the stack being polled again and again.
BridgeFairness ==
  /\ WF_tunVars(Thread)
  /\ WF_tunVars(ServerReads) /\ WF_tunVars(ServerEnds)
  /\ SF_tunVars(Deliver) /\ SF_tunVars(FinAcked) /\ SF_tunVars(told = "fin" /\ Fin)

BridgeSpec == BridgeInit /\ [][BridgeNext]_tunVars /\ BridgeFairness

-----------------------------------------------------------------------------
(* Properties.                                                             *)

Units(c, n) == [i \in 1 .. n |-> <<c, i>>]

\* What there is of a stream, from where it has come to to where it is.
Upwards == served \o in \o to_upstream \o rx
Downwards == received \o tx \o to_client \o out

\* PROXY_HIGH_WATER: an end that does not read makes the other wait, and the
\* bridge holds no more than it has room for meanwhile.
HighWater ==
  /\ \A buffer \in {rx, tx, in, out} : Len(buffer) <= SOCKET_BUF
  /\ \A buffer \in {to_upstream, to_client} : Len(buffer) <= PROXY_HIGH_WATER

\* pump, recycle: whatever the sizes of the buffers, what either side sends is
\* on its way in order, with no byte missing, twice, or of another connection.
\* Only an end that is gone, or what is lost in it, makes an exception.
WholeStreams ==
  upstream =>
    /\ server = "open" => Upwards = Units(conn, sent)
    /\ ~lost /\ told # "rst" => Downwards = Units(conn, replied)

\* pump: an end is passed on behind all that came before it, and a half close
\* closes one half: the server sees the end when it has all the client has sent
\* and the client has ended, the client when it has all the server has sent.
EndsLast ==
  /\ upstream_write_closed /\ server = "open" =>
       Len(served) + Len(in) = sent /\ state \notin {"Established", "FinWait1", "FinWait2"}
  /\ told = "fin" /\ ~lost => received = Units(conn, replied)

\* pump: no socket listens for another client before the one it had knows that
\* its connection is over.
ClientTold == state = "Listen" /\ conn > 0 => told # "open"

\* pump: a connection that has ended on either side gives its slot back, whether
\* it has been bridged or not: there are only MAX_CONNS of them.
SlotReturned ==
  state \notin {"Listen", "SynReceived", "Established"} ~>
    state = "Listen" \/ step = "stopped"

\* pump: each client has its bytes, all of them, and then the end, however slow
\* either side is to read.
StreamsKept == WholeStreams /\ EndsLast /\ ClientTold /\ HighWater
=============================================================================
