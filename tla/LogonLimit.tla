----------------------------- MODULE LogonLimit -----------------------------
(***************************************************************************)
(* The server-wide limit on refused logons (smb/mod.rs                     *)
(* `Ctx::failed_logons`, the SESSION_SETUP arm of `execute`).              *)
(*                                                                         *)
(* Every connection checks the shared counter, runs session_setup, and     *)
(* then counts a refusal or clears the counter: three steps, with those of *)
(* other connections in between.  The owner polls the counter and stops    *)
(* the server.  The counter saturates at u32::MAX in the code;             *)
(* LimitOvershoot below is why it never gets there.                        *)
(***************************************************************************)
EXTENDS Naturals, FiniteSets

CONSTANTS
  Conns,                 \* connections being served at once
  MaxServerFailures,     \* MAX_SERVER_LOGON_FAILURES
  MaxFailedLogons        \* MAX_FAILED_LOGONS

ASSUME LogonLimitAssumption == /\ IsFiniteSet(Conns)
                               /\ MaxServerFailures \in Nat \ {0}
                               /\ MaxFailedLogons \in Nat \ {0}

VARIABLES
  count,           \* Ctx::failed_logons
  server,          \* "up", or "stopped" by the owner
  pc,              \* where each connection's SESSION_SETUP stands
  authenticated,   \* SessionState::authenticated
  failed           \* SessionState::failed_logons

vars == << count, server, pc, authenticated, failed >>

\* Mutant of logon_limit_reached: off by one.
LimitPassed == count > MaxServerFailures

logon_limit_reached == count >= MaxServerFailures

\* SESSION_SETUPs that have passed the check and not touched the counter yet.
InFlight == { c \in Conns : pc[c] \in { "setup", "refused", "accepted" } }

Init == /\ count = 0
        /\ server = "up"
        /\ pc = [c \in Conns |-> "idle"]
        /\ authenticated = [c \in Conns |-> FALSE]
        /\ failed = [c \in Conns |-> 0]

Goto(c, p) == pc' = [pc EXCEPT ![c] = p]

\* Refusals in a row stop at the limit here.
OneMore(n) == IF n < MaxFailedLogons THEN n + 1 ELSE n

\* execute: the limit is looked at, for the first SESSION_SETUP of a message or
\* for another one in its chain.  Past it the logon is refused at once, and the
\* refusal is counted nowhere.
Check(c) ==
  /\ server = "up" /\ pc[c] \in { "idle", "reply" }
  /\ Goto(c, IF logon_limit_reached THEN "reply" ELSE "setup")
  /\ UNCHANGED << count, server, authenticated, failed >>

\* session_setup: an AUTHENTICATE that is refused, or verifies, or another leg.
Setup(c) ==
  /\ server = "up" /\ pc[c] = "setup"
  /\ \/ Goto(c, "refused") /\ UNCHANGED authenticated
     \/ Goto(c, "accepted") /\ authenticated' = [authenticated EXCEPT ![c] = TRUE]
     \/ Goto(c, "reply") /\ UNCHANGED authenticated
  /\ UNCHANGED << count, server, failed >>

\* One atomic update.
record_failed_logon == count' = count + 1

CountRefusal(c) ==
  /\ server = "up" /\ pc[c] = "refused"
  /\ failed' = [failed EXCEPT ![c] = OneMore(@)]
  /\ record_failed_logon
  /\ Goto(c, "reply")
  /\ UNCHANGED << server, authenticated >>

\* Mutant of clear_failed_logons: a success takes one refusal back.
TakeBackOne == count' = count - 1

clear_failed_logons == count' = 0

ClearCount(c) ==
  /\ server = "up" /\ pc[c] = "accepted"
  /\ failed' = [failed EXCEPT ![c] = 0]
  /\ clear_failed_logons
  /\ Goto(c, "reply")
  /\ UNCHANGED << server, authenticated >>

\* serve_connection: the reply is sent, and a connection with too many refusals
\* is dropped; accept_loop serves another in its place.
Reply(c) ==
  /\ server = "up" /\ pc[c] = "reply"
  /\ Goto(c, "idle")
  /\ IF failed[c] >= MaxFailedLogons
       THEN /\ failed' = [failed EXCEPT ![c] = 0]
            /\ authenticated' = [authenticated EXCEPT ![c] = FALSE]
       ELSE UNCHANGED << failed, authenticated >>
  /\ UNCHANGED << count, server >>

\* The client hangs up between messages, and another connection takes its place.
Reconnect(c) ==
  /\ server = "up" /\ pc[c] = "idle"
  /\ failed' = [failed EXCEPT ![c] = 0]
  /\ authenticated' = [authenticated EXCEPT ![c] = FALSE]
  /\ UNCHANGED << count, server, pc >>

\* Mutant of OwnerStops: the poll waits for the very number.
OwnerStopsAtLimit ==
  /\ server = "up"
  /\ count = MaxServerFailures
  /\ server' = "stopped"
  /\ UNCHANGED << count, pc, authenticated, failed >>

\* The owner's poll (main.rs serve, tui.rs run) finds the limit reached and
\* stops the server, and every connection with it.
OwnerStops ==
  /\ server = "up"
  /\ logon_limit_reached
  /\ server' = "stopped"
  /\ UNCHANGED << count, pc, authenticated, failed >>

Next == \/ \E c \in Conns : \/ Check(c) \/ Setup(c) \/ CountRefusal(c)
                            \/ ClearCount(c) \/ Reply(c) \/ Reconnect(c)
        \/ OwnerStops

Spec == Init /\ [][Next]_vars

\* The owner polls every second (main.rs) or every 200 ms (tui.rs).
FairSpec == Spec /\ WF_vars(OwnerStops)

-----------------------------------------------------------------------------
\* The type invariant.
TypeOK == /\ count \in Nat
          /\ server \in { "up", "stopped" }
          /\ pc \in [Conns -> { "idle", "setup", "refused", "accepted", "reply" }]
          /\ authenticated \in [Conns -> BOOLEAN]
          /\ failed \in [Conns -> 0 .. MaxFailedLogons]

\* "A limit rather than a notification": before a success clears the counter,
\* no more passwords are tried past the limit than there were connections with
\* a logon in hand when it was reached.
LimitOvershoot == count <= MaxServerFailures - 1 + Cardinality(Conns)

\* The inductive form: what is in flight has not been counted yet.
OvershootInv ==
  count <= MaxServerFailures - 1 + Cardinality(Conns \ InFlight)

\* The owner learns of it: a server at the limit is stopped, or a logon that
\* was already in hand succeeds.
LimitStops == logon_limit_reached ~> server = "stopped" \/ count = 0

\* execute: "Once the server-wide limit is reached, nothing authenticates again
\* - not even the right password".
NothingAuthenticatesAtLimit ==
  [][\A c \in Conns : ~authenticated[c] /\ authenticated'[c] => ~logon_limit_reached]_vars
=============================================================================
