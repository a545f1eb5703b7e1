------------------------------- MODULE Share --------------------------------
(***************************************************************************)
(* What the contents of a share promise, as a client and the owner see it: *)
(* one current generation of contents, replaced in one step; a handle is   *)
(* bound to the generation it was opened against and is good for data as   *)
(* long as that one is current; every answer is given at one instant       *)
(* between its request and its reply.                                      *)
(***************************************************************************)
EXTENDS Naturals

CONSTANTS Conns, Handles

VARIABLES
  gen,      \* the generation of the contents
  table,    \* each connection's open handles
  opened,   \* the generation a handle was opened against, 0 if never opened
  reply     \* the answer each connection is about to receive

vars == << gen, table, opened, reply >>

NoReply       == [status |-> "none", from |-> 0]
Closed        == [status |-> "closed", from |-> 0]
Failed        == [status |-> "error", from |-> 0]
Done          == [status |-> "done", from |-> 0]
Served(g)     == [status |-> "ok", from |-> g]
Attributes(g) == [status |-> "attributes", from |-> g]

Init == /\ gen = 1
        /\ table = [c \in Conns |-> {}]
        /\ opened = [h \in Handles |-> 0]
        /\ reply = [c \in Conns |-> NoReply]

Answer(c, r) == /\ reply[c] = NoReply
                /\ reply' = [reply EXCEPT ![c] = r]

\* A new handle, bound to the current contents.
Open(c, h) == /\ opened[h] = 0
              /\ opened' = [opened EXCEPT ![h] = gen]
              /\ table' = [table EXCEPT ![c] = @ \cup { h }]
              /\ Answer(c, Served(gen))
              /\ UNCHANGED gen

\* An open, a read or a listing the contents refuse.
Fail(c) == Answer(c, Failed) /\ UNCHANGED << gen, table, opened >>

\* File data, a directory page or attributes: of the current contents, through
\* a handle that was opened against them.  Any other handle is closed.
Query(c, h) ==
  /\ IF h \in table[c] /\ opened[h] = gen
       THEN Answer(c, Served(gen))
       ELSE Answer(c, Closed)
  /\ UNCHANGED << gen, table, opened >>

\* A handle closes whatever contents it was opened against, and its attributes
\* are those it was opened with.
Close(c, h) ==
  /\ \/ h \in table[c] /\ \E r \in { Done, Attributes(opened[h]) } : Answer(c, r)
     \/ h \notin table[c] /\ Answer(c, Closed)
  /\ table' = [table EXCEPT ![c] = @ \ { h }]
  /\ UNCHANGED << gen, opened >>

CloseSome(c, S) == /\ Answer(c, Done)
                   /\ table' = [table EXCEPT ![c] = @ \ S]
                   /\ UNCHANGED << gen, opened >>

\* The reply is on its way.
Respond(c) == /\ reply[c] # NoReply
              /\ reply' = [reply EXCEPT ![c] = NoReply]
              /\ UNCHANGED << gen, table, opened >>

Load == gen' = gen + 1 /\ UNCHANGED << table, opened, reply >>

Next == \/ \E c \in Conns :
             \/ \E h \in Handles : Open(c, h) \/ Query(c, h) \/ Close(c, h)
             \/ \E S \in SUBSET Handles : CloseSome(c, S)
             \/ Fail(c)
             \/ Respond(c)
        \/ Load

Spec == Init /\ [][Next]_vars
=============================================================================
