-------------------------------- MODULE Chain --------------------------------
(***************************************************************************)
(* One message on its way through a connection: the signatures of its      *)
(* requests are verified (sign.rs), its chain of requests is walked, one   *)
(* response is appended for each (mod.rs, handle_message), and the chain   *)
(* of responses is signed and sent (serve_connection).  Two pieces of code *)
(* walk the chain of requests, and two the chain of responses; they have   *)
(* to agree on where each PDU begins and ends.                             *)
(*                                                                         *)
(* A buffer is its length and the headers in it, by offset; a header has   *)
(* NextCommand, a command, and where the bytes end that its signature is   *)
(* over.  What the commands do to a session is in module Connection.       *)
(***************************************************************************)
EXTENDS Naturals, Sequences, FiniteSets

CONSTANTS
  HeaderLen,              \* HEADER_LEN
  ResponseAlign,          \* compounded responses start at multiples of it
  Bodies,                 \* how long the bodies of responses are
  MAX_COMPOUND_RESPONSE,  \* beyond this no further response is appended
  Messages                \* what clients send: [smb, len, at], where smb is
                          \* "2", or "1 negotiate" or "1" for the old protocol

ASSUME ChainAssumption ==
  /\ {HeaderLen, ResponseAlign, MAX_COMPOUND_RESPONSE} \subseteq Nat \ {0}
  /\ Bodies \subseteq Nat

\* What a message is to the code that walks it: offsets and links are numbers, and
\* an empty one is skipped (serve_connection).
ASSUME MessagesAssumption ==
  \A m \in Messages : /\ m.len \in Nat \ {0}
                      /\ \A o \in DOMAIN m.at : o \in Nat /\ m.at[o].next \in Nat

VARIABLES
  stage,     \* "idle", "verified", "answered", "sent" or "dropped"
  keyed,     \* SessionState::signing_key is there
  message,   \* the message at hand
  offset,    \* handle_message: where the next request begins
  out,       \* handle_message: the responses so far
  checked,   \* history: the extents of message whose signatures were right or
             \* not asked for
  ran,       \* history: the extents whose requests were carried out
  begun,     \* history: where responses begin in out
  signed     \* history: the extents of out that were signed
chainVars == <<stage, keyed, message, offset, out, checked, ran, begun, signed>>

Empty == [smb |-> "2", len |-> 0, at |-> <<>>]

-----------------------------------------------------------------------------
(* Signatures (sign.rs).                                                   *)

HeaderAt(buf, o) == o + HeaderLen <= buf.len /\ o \in DOMAIN buf.at

\* A mutant of PduEnd: NextCommand is taken to count from the end of the header.
PduEndAfterHeader(buf, o) ==
  LET next == buf.at[o].next
  IN IF next = 0 \/ o + HeaderLen + next > buf.len THEN buf.len ELSE o + HeaderLen + next

\* Where the PDU at o ends, as far as signatures go: a link that is malformed
\* ends the chain.
PduEnd(buf, o) ==
  LET next == buf.at[o].next
  IN IF next = 0 \/ next < HeaderLen \/ o + next > buf.len THEN buf.len ELSE o + next

\* All of them, in order.
pdu_extents(buf) ==
  LET from[o \in 0 .. buf.len] ==
        IF ~HeaderAt(buf, o) THEN <<>>
        ELSE LET end == PduEnd(buf, o)
             IN IF end = buf.len THEN <<[from |-> o, to |-> end]>>
                ELSE <<[from |-> o, to |-> end]>> \o from[end]
  IN from[0]

\* A PDU passes that is signed over its own extent, or is a keepalive.
Passes(buf, e) ==
  LET header == buf.at[e.from]
  IN header.covers = e.to \/ (header.covers = 0 /\ header.command = "keepalive")

verify(buf) ==
  LET extents == pdu_extents(buf)
  IN extents # <<>> /\ \A i \in DOMAIN extents : Passes(buf, extents[i])

-----------------------------------------------------------------------------
(* The walk over the requests (mod.rs).                                    *)

\* Where the request at o ends for handle_message, or 0 if the link is malformed.
RequestEnd(buf, o) ==
  LET next == buf.at[o].next
  IN IF next = 0 THEN buf.len
     ELSE IF next < HeaderLen \/ o + next > buf.len THEN 0 ELSE o + next

AlignUp(n) ==
  ((n + ResponseAlign - 1) \div ResponseAlign) * ResponseAlign

\* The response at start is padded and linked to the one that will follow.
Link(buf, start) ==
  [buf EXCEPT !.len = AlignUp(buf.len), !.at[start].next = AlignUp(buf.len) - start]

\* The buffer with one more response in it.
Append1(buf, body) ==
  [buf EXCEPT !.len = buf.len + HeaderLen + body,
              !.at = [o \in DOMAIN buf.at \cup {buf.len} |->
                        IF o = buf.len THEN [next |-> 0, command |-> "response", covers |-> 0]
                        ELSE buf.at[o]]]

ChainInit ==
  /\ stage = "idle" /\ keyed = FALSE
  /\ message = Empty /\ offset = 0 /\ out = Empty
  /\ checked = <<>> /\ ran = <<>> /\ begun = {} /\ signed = <<>>

Drop == /\ stage' = "dropped"
        /\ UNCHANGED <<keyed, message, offset, out, checked, ran, begun, signed>>

\* A message has arrived.  With a key, its signatures are verified first.
Receive ==
  /\ stage = "idle"
  /\ \E m \in Messages :
       /\ message' = m
       /\ stage' = IF keyed /\ ~verify(m) THEN "dropped" ELSE "verified"
       /\ checked' = IF keyed /\ verify(m) THEN pdu_extents(m) ELSE <<>>
  /\ UNCHANGED <<keyed, offset, out, ran, begun, signed>>

\* handle_message: the older protocol.  Its NEGOTIATE has one fixed answer.
AnswerOld ==
  /\ stage = "verified" /\ message.smb = "1 negotiate"
  /\ out' = Append1(Empty, 1) /\ begun' = {0}
  /\ stage' = "answered"
  /\ UNCHANGED <<keyed, message, offset, checked, ran, signed>>

\* handle_message: what makes it give the connection up before a request is
\* carried out.  A "refused" header is one of another structure size, or a
\* NEGOTIATE after the first.
Unparseable ==
  /\ stage = "verified"
  /\ \/ message.smb = "1"
     \/ /\ message.smb = "2"
        /\ HeaderAt(message, offset) =>
             RequestEnd(message, offset) = 0 \/ message.at[offset].command = "refused"
  /\ Drop

\* handle_message: one turn of its loop.  A CANCEL that is alone gets no answer,
\* every other request gets one; a logon may leave the connection with a key or
\* without.  A request that is the last by its NextCommand ends the loop, as does
\* one whose NextCommand leads to the end of the message.
RunRequest ==
  /\ stage = "verified" /\ message.smb = "2" /\ HeaderAt(message, offset)
  /\ LET header == message.at[offset]
         end == RequestEnd(message, offset)
         only == offset = 0 /\ header.next = 0
     IN /\ end # 0 /\ header.command # "refused"
        /\ ran' = Append(ran, [from |-> offset, to |-> end])
        /\ keyed' \in IF header.command = "logon" THEN BOOLEAN ELSE {keyed}
        /\ \E body \in Bodies :
             LET one == IF header.command = "cancel" /\ only THEN out ELSE Append1(out, body)
             IN /\ begun' = IF one = out THEN begun ELSE begun \cup {out.len}
                /\ \/ /\ header.next = 0
                      /\ out' = one /\ stage' = "answered" /\ UNCHANGED offset
                   \/ /\ header.next # 0 /\ one.len > MAX_COMPOUND_RESPONSE
                      /\ out' = one /\ stage' = "dropped" /\ UNCHANGED offset
                   \/ /\ header.next # 0 /\ one.len <= MAX_COMPOUND_RESPONSE
                      /\ out' = Link(one, out.len)
                      /\ offset' = end
                      /\ stage' = IF end >= message.len THEN "answered" ELSE "verified"
  /\ UNCHANGED <<message, checked, signed>>

\* serve_connection: the answer is signed with the key there is now, and sent.
Send ==
  /\ stage = "answered"
  /\ signed' = IF keyed /\ out.len > 0 THEN pdu_extents(out) ELSE <<>>
  /\ stage' = "sent"
  /\ UNCHANGED <<keyed, message, offset, out, checked, ran, begun>>

\* serve_connection: on to the next message.
NextMessage ==
  /\ stage = "sent"
  /\ stage' = "idle"
  /\ message' = Empty /\ offset' = 0 /\ out' = Empty
  /\ checked' = <<>> /\ ran' = <<>> /\ begun' = {} /\ signed' = <<>>
  /\ UNCHANGED keyed

ChainNext == Receive \/ AnswerOld \/ Unparseable \/ RunRequest \/ Send \/ NextMessage

ChainSpec == ChainInit /\ [][ChainNext]_chainVars

-----------------------------------------------------------------------------
(* Properties.                                                             *)

ChainTypeOK ==
  /\ stage \in {"idle", "verified", "answered", "sent", "dropped"}
  /\ keyed \in BOOLEAN
  /\ stage = "idle" <=> message = Empty
  /\ offset \in 0 .. message.len
  /\ \A o \in DOMAIN out.at : o + HeaderLen <= out.len
  /\ begun \subseteq DOMAIN out.at

\* The requests that are carried out are the ones verify looked at, each with
\* exactly the bytes its signature was checked over, in the same order; no link
\* makes the two walks part.  (checked is empty if there was no key.)
RanAsVerified ==
  checked # <<>> =>
    /\ Len(ran) <= Len(checked)
    /\ \A i \in DOMAIN ran : ran[i] = checked[i] /\ Passes(message, ran[i])

\* An answer that goes out has one response per request, and every response begins
\* at the alignment the comment in handle_message asks for.  If it is signed, the
\* signatures are over consecutive extents that begin where the responses do and
\* leave no byte out, padding included.
SentAsBuilt ==
  stage = "sent" =>
    /\ \A o \in begun : o % ResponseAlign = 0
    /\ message.smb = "2" =>
         Cardinality(begun) = IF ran # <<>> /\ message.at[0].command = "cancel"
                                   /\ message.at[0].next = 0
                              THEN 0 ELSE Len(ran)
    /\ keyed /\ out.len > 0 =>
         /\ {signed[i].from : i \in DOMAIN signed} = begun
         /\ Len(signed) = Cardinality(begun)
         /\ signed[1].from = 0 /\ signed[Len(signed)].to = out.len
         /\ \A i \in 1 .. Len(signed) - 1 : signed[i].to = signed[i + 1].from

\* verify, handle_message, sign: the walks over requests and responses agree on
\* where each PDU begins and ends.
WalksAgree == ChainTypeOK /\ RanAsVerified /\ SentAsBuilt
=============================================================================
