------------------------------- MODULE MCServer -------------------------------
(* Three parts of the server's life: the limit on refused logons, the       *)
(* threads of one server from start to stop, and the process around it.     *)
(* What they share in the code is a name here (`refusing` in Owner is what  *)
(* LogonLimit counts to, Stops there is what Server does), so that a        *)
(* behaviour is of one of them, as `part` says, and the others stay put.    *)
EXTENDS LogonLimit, Server, Owner

VARIABLE part

MCInit == /\ part \in { "limit", "server", "owner" }
          /\ Init /\ ServerInit /\ OwnerInit
          /\ part # "owner" => turns

Only(p) == /\ part = p /\ UNCHANGED part
           /\ p # "limit"  => UNCHANGED vars
           /\ p # "server" => UNCHANGED serverVars
           /\ p # "owner"  => UNCHANGED ownerVars

MCNext == \/ Only("limit")  /\ Next
          \/ Only("server") /\ ServerNext
          \/ Only("owner")  /\ OwnerNext

\* Each part is fair by itself.  The hosts of clients are taken to read what
\* they are sent.
MCSpec == /\ MCInit /\ [][MCNext]_<< part, vars, serverVars, ownerVars >>
          /\ part = "limit"  => WF_vars(OwnerStops)
          /\ part = "server" => ServerFairness /\ HostsRead
          /\ part = "owner"  => OwnerFairness

\* Every part has its types.
MCTypeOK == TypeOK /\ ServerTypeOK /\ OwnerTypeOK
=============================================================================
