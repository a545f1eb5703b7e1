--------------------------------- MODULE Pipe ---------------------------------
(***************************************************************************)
(* The srvsvc pipe of a connection (srvsvc.rs), and how requests reach it  *)
(* (mod.rs, execute and ipc_command).  A client hands over one DCE/RPC     *)
(* request with WRITE or PIPE_TRANSCEIVE and collects the answer in pieces *)
(* of its own choosing; what it has not collected stays pending.           *)
(*                                                                         *)
(* An answer is a sequence of units, each of which names the call it       *)
(* answers and its place.  Presentation contexts are sequences of transfer *)
(* syntaxes, the stub of a call is a sequence of 32-bit words.             *)
(***************************************************************************)
EXTENDS Naturals, Sequences, FiniteSetsExt

CONSTANTS
  Requests,   \* the DCE/RPC requests clients send, records with these fields:
              \*   whole     one complete PDU of version 5
              \*   ptype     its type
              \*   declared  of a bind, the number of contexts it declares
              \*   contexts  the contexts that can be read from it
              \*   opnum     of a call, the operation
              \*   stub      its arguments
              \*   wants     history: the level the client encoded in them, or 1
              \*             if they are cut short before it
  ReadSizes,  \* the buffers they offer for an answer, in units
  MaxCall,    \* call ids run from 1 to here and start over
  NoAnswer    \* no answer has been asked for, or no such word

ASSUME PipeAssumption ==
  /\ ReadSizes \subseteq Nat
  /\ MaxCall \in Nat /\ MaxCall > 1
  /\ NoAnswer \notin Nat \union Requests

\* Where a client's encoder puts the level: after a null pointer, or after a
\* pointer, three counts and the units of the name, two to a word.
LevelAt(stub) ==
  IF stub # <<>> /\ stub[1] = 0 THEN 2
  ELSE IF Len(stub) < 4 THEN 5 ELSE 5 + (stub[4] + 1) \div 2

ASSUME RequestAssumption ==
  \A q \in Requests :
    /\ q.declared \in Nat /\ q.contexts \in Seq(Seq(STRING)) /\ q.stub \in Seq(Nat)
    /\ q.wants = IF LevelAt(q.stub) <= Len(q.stub) THEN q.stub[LevelAt(q.stub)] ELSE 1

VARIABLES
  tree,     \* what the tree of the requests is: "Disk", "Ipc" or "none"
  opened,   \* Conn::pipe is there
  pending,  \* Pipe::pending
  callId,   \* the call id the client used last
  asked,    \* history: the last request the pipe took
  answer,   \* history: the answer to it
  got,      \* history: what the client has been handed of the answer
  reply     \* history: the status of the last reply, and whether it says that
            \* something is left
pipeVars == <<tree, opened, pending, callId, asked, answer, got, reply>>

-----------------------------------------------------------------------------
(* DCE/RPC.                                                                *)

\* The syntax that decides what a context is: the first one that is known.
Presented(context) ==
  LET known == {k \in DOMAIN context : context[k] \in {"ndr32", "feature"}}
  IN IF known = {} THEN "unsupported" ELSE context[Min(known)]

\* As many contexts as are declared, or as can be read.  If there are none, one
\* that offers NDR32 is assumed.
PresentedContexts(q) ==
  LET n == IF q.declared < Len(q.contexts) THEN q.declared ELSE Len(q.contexts)
  IN IF n = 0 THEN <<"ndr32">> ELSE [i \in 1 .. n |-> Presented(q.contexts[i])]

\* The first context that offers NDR32 is accepted, each feature request
\* acknowledged, everything else rejected.
BindResults(presented) ==
  [i \in DOMAIN presented |->
     CASE presented[i] = "ndr32" /\ \A j \in 1 .. i - 1 : presented[j] # "ndr32" ->
            "acceptance"
       [] presented[i] = "feature" -> "negotiate_ack"
       [] OTHER -> "rejection"]

\* The words from the byte offset, if the stub reaches that far.
Word(stub, offset) == IF offset \div 4 < Len(stub) THEN stub[offset \div 4 + 1] ELSE NoAnswer

OrOne(word) == IF word = NoAnswer THEN 1 ELSE word

\* The level comes after the server's name: a null pointer, or a string of a
\* declared count of UTF-16 units, padded to four bytes.
RequestedLevel(stub) ==
  IF Word(stub, 0) = NoAnswer THEN 1
  ELSE IF Word(stub, 0) = 0 THEN OrOne(Word(stub, 4))
  ELSE IF Word(stub, 12) = NoAnswer THEN 1
  ELSE OrOne(Word(stub, 16 + ((Word(stub, 12) * 2 + 3) \div 4) * 4))

Fault(id) == [type |-> "fault", call |-> id, length |-> 1]

\* Level 1 lists the one share; any other is answered with an error and nothing.
NetShareEnum(id, level) ==
  [type |-> "response", call |-> id, level |-> level,
   code |-> IF level = 1 THEN "success" ELSE "invalid_level",
   length |-> IF level = 1 THEN 4 ELSE 2]

BindAck(id, type, results) ==
  [type |-> type, call |-> id, results |-> results, length |-> 2 + Len(results)]

\* dispatch: every request has an answer.
Dispatch(q, id) ==
  CASE ~q.whole -> Fault(0)
    [] q.whole /\ q.ptype = "bind" ->
         BindAck(id, "bind_ack", BindResults(PresentedContexts(q)))
    [] q.whole /\ q.ptype = "alter_context" ->
         BindAck(id, "alter_context_resp", BindResults(PresentedContexts(q)))
    [] q.whole /\ q.ptype = "request" ->
         IF q.opnum = "net_share_enum" THEN NetShareEnum(id, RequestedLevel(q.stub))
                                       ELSE Fault(id)
    [] OTHER -> Fault(id)

\* What stands for no answer is not one.
ASSUME AnswerAssumption == \A q \in Requests, id \in 1 .. MaxCall : Dispatch(q, id) # NoAnswer

Units(a) == [i \in 1 .. a.length |-> <<a.call, i>>]

FirstOf(s, n) == IF n < Len(s) THEN SubSeq(s, 1, n) ELSE s
AfterFirst(s, n) == IF n < Len(s) THEN SubSeq(s, n + 1, Len(s)) ELSE <<>>

-----------------------------------------------------------------------------
(* The commands.                                                           *)

PipeInit == /\ tree = "none"
            /\ opened = FALSE
            /\ pending = <<>>
            /\ callId = MaxCall
            /\ asked = NoAnswer
            /\ answer = NoAnswer
            /\ got = <<>>
            /\ reply = [status |-> "none", more |-> FALSE]

Answered(status, more) == reply' = [status |-> status, more |-> more]

\* The client turns to another of its trees.
TurnTo(k) == /\ tree # k
             /\ tree' = k
             /\ UNCHANGED <<opened, pending, callId, asked, answer, got, reply>>

\* A request that cannot be parsed, names another file id, is too long, or asks
\* for a pipe or a control code there is none of.
Refuse(status) ==
  /\ Answered(status, reply.more)
  /\ UNCHANGED <<tree, opened, pending, callId, asked, answer, got>>

Refused == \/ tree = "Ipc" /\ Refuse("INVALID_PARAMETER")
           \/ tree = "Ipc" /\ Refuse("FILE_CLOSED")
           \/ tree = "Ipc" /\ opened /\ Refuse("OBJECT_NAME_COLLISION")
           \/ tree = "Disk" /\ Refuse("MEDIA_WRITE_PROTECTED")
           \/ tree = "none" /\ Refuse("NETWORK_NAME_DELETED")

\* create: a second open would answer to the id of the first.
CreatePipe ==
  /\ tree = "Ipc" /\ ~opened
  /\ opened' = TRUE
  /\ pending' = <<>>
  /\ asked' = NoAnswer
  /\ answer' = NoAnswer
  /\ got' = <<>>
  /\ Answered("SUCCESS", FALSE)
  /\ UNCHANGED <<tree, callId>>

Gone == /\ opened' = FALSE
        /\ pending' = <<>>
        /\ asked' = NoAnswer
        /\ answer' = NoAnswer
        /\ got' = <<>>
        /\ UNCHANGED <<tree, callId>>

ClosePipe == /\ tree = "Ipc" /\ opened
             /\ Gone
             /\ Answered("SUCCESS", FALSE)

\* The last IPC$ tree is disconnected, or the session logged off: the pipe goes
\* with what was pending in it.
ReleasePipe == /\ opened
               /\ Gone
               /\ Answered("none", FALSE)

NextCall == (callId % MaxCall) + 1

\* write: the answer takes the place of whatever was pending.
WritePipe(q) ==
  LET a == Dispatch(q, NextCall)
  IN /\ tree = "Ipc" /\ opened
     /\ callId' = NextCall
     /\ pending' = Units(a)
     /\ asked' = q
     /\ answer' = a
     /\ got' = <<>>
     /\ Answered("SUCCESS", TRUE)
     /\ UNCHANGED <<tree, opened>>

\* A mutant of Read: what is handed over stays queued.
ReadPipePeeks(n) ==
  /\ tree = "Ipc" /\ opened
  /\ IF n = 0 THEN Refuse("INVALID_PARAMETER")
     ELSE IF pending = <<>> THEN Refuse("END_OF_FILE")
     ELSE /\ got' = got \o FirstOf(pending, n)
          /\ Answered("SUCCESS", Len(pending) > n)
          /\ UNCHANGED <<tree, opened, pending, callId, asked, answer>>

\* read: the next piece, and how much is left.
ReadPipe(n) ==
  /\ tree = "Ipc" /\ opened
  /\ IF n = 0 THEN Refuse("INVALID_PARAMETER")
     ELSE IF pending = <<>> THEN Refuse("END_OF_FILE")
     ELSE /\ pending' = AfterFirst(pending, n)
          /\ got' = got \o FirstOf(pending, n)
          /\ Answered("SUCCESS", pending' # <<>>)
          /\ UNCHANGED <<tree, opened, callId, asked, answer>>

\* transceive: what does not fit the client's buffer stays for a READ, and the
\* status says so.
Transceive(q, max) ==
  LET a == Dispatch(q, NextCall)
  IN /\ tree = "Ipc" /\ opened
     /\ callId' = NextCall
     /\ pending' = AfterFirst(Units(a), max)
     /\ asked' = q
     /\ answer' = a
     /\ got' = FirstOf(Units(a), max)
     /\ Answered(IF a.length > max THEN "BUFFER_OVERFLOW" ELSE "SUCCESS",
                 a.length > max)
     /\ UNCHANGED <<tree, opened>>

PipeNext == \/ \E k \in {"Disk", "Ipc", "none"} : TurnTo(k)
            \/ Refused
            \/ CreatePipe
            \/ ClosePipe
            \/ ReleasePipe
            \/ \E q \in Requests : WritePipe(q)
            \/ \E n \in ReadSizes : ReadPipe(n)
            \/ \E q \in Requests, max \in ReadSizes : Transceive(q, max)

PipeSpec == PipeInit /\ [][PipeNext]_pipeVars

-----------------------------------------------------------------------------
(* Properties.                                                             *)

\* The state has its types; the pipe holds nothing while it is closed.
PipeTypeOK ==
  /\ tree \in {"Disk", "Ipc", "none"}
  /\ opened \in BOOLEAN
  /\ callId \in 1 .. MaxCall
  /\ asked \in Requests \union {NoAnswer}
  /\ pending \in Seq((0 .. MaxCall) \X Nat)
  /\ ~opened => pending = <<>> /\ answer = NoAnswer

\* transceive, read: however the client cuts the answer up, what it has been
\* handed and what is pending are together the answer to its last request, each
\* byte once and in order; nothing of an earlier exchange or an earlier pipe is
\* left, and the client is told there is more exactly if there is.
AnswerWhole ==
  /\ answer = NoAnswer => pending = <<>> /\ got = <<>>
  /\ answer # NoAnswer => got \o pending = Units(answer)
  /\ opened => reply.more = (pending # <<>>)

\* The contexts of a bind that offer what the server speaks: NDR32, and before
\* it no feature request, which makes the context one of those.
Offered(q) ==
  {i \in DOMAIN q.contexts :
     /\ i <= q.declared
     /\ \E k \in DOMAIN q.contexts[i] :
          /\ q.contexts[i][k] = "ndr32"
          /\ \A l \in 1 .. k - 1 : q.contexts[i][l] # "feature"}

Accepted(results) == {i \in DOMAIN results : results[i] = "acceptance"}

\* bind_ack: one result for each context that was presented, one of them an
\* acceptance if any can be, and that the first that can.
BindAnswered ==
  asked # NoAnswer /\ asked.whole /\ asked.ptype \in {"bind", "alter_context"} =>
    /\ \A i \in Accepted(answer.results) :
         asked.declared > 0 /\ asked.contexts # <<>> => i \in Offered(asked)
    /\ Cardinality(Accepted(answer.results)) <= 1
    /\ \A i \in Offered(asked) : \E j \in Accepted(answer.results) : j <= i

\* requested_level: the level is found where the client's encoder put it, for
\* any length of the server's name, and is 1 if the arguments end before it.
LevelFound ==
  asked # NoAnswer /\ asked.whole /\ asked.ptype = "request"
    /\ asked.opnum = "net_share_enum" => answer.level = asked.wants

\* transceive, read, dispatch: the client has the whole answer, and the right one.
PipeAnswers == PipeTypeOK /\ AnswerWhole /\ BindAnswered /\ LevelFound
=============================================================================
