------------------------------ MODULE RpcPort ------------------------------
(***************************************************************************)
(* What the runtime and discovery stages are promised by the MCP client,   *)
(* with no stream, no framing and no clock: requests are numbered from 1,  *)
(* one is outstanding at a time, and each ends once, either with a message *)
(* of the server's that bears its number or as a failure.  The server may  *)
(* put any number on a request of its own, so that such a message is the   *)
(* answer only of a server that keeps to other numbers.                    *)
(***************************************************************************)
EXTENDS Integers

CONSTANT MaxId   \* bound: the requests one client issues

VARIABLES
  issued,    \* the number of requests issued so far
  pending,   \* the outstanding request, 0 when there is none
  named,     \* the numbers on the answers and requests the server has sent
  verdict    \* how each request ended

portVars == <<issued, pending, named, verdict>>

Ids == 1 .. MaxId

Verdicts == {"none", "answer", "failure"}

Init ==
  /\ issued = 0
  /\ pending = 0
  /\ named = {}
  /\ verdict = [i \in Ids |-> "none"]

Issue ==
  /\ pending = 0
  /\ issued < MaxId
  /\ issued' = issued + 1
  /\ pending' = issued + 1
  /\ UNCHANGED <<named, verdict>>

(* The server sends a message that bears the number i, in its own time and *)
(* order: the answer to a request, also to one the client has given up, or *)
(* a request of its own.                                                   *)
Serve(i) ==
  /\ i \in Ids
  /\ i \notin named
  /\ named' = named \union {i}
  /\ UNCHANGED <<issued, pending, verdict>>

Return ==
  /\ pending \in named
  /\ verdict' = [verdict EXCEPT ![pending] = "answer"]
  /\ pending' = 0
  /\ UNCHANGED <<issued, named>>

Fail ==
  /\ pending # 0
  /\ verdict' = [verdict EXCEPT ![pending] = "failure"]
  /\ pending' = 0
  /\ UNCHANGED <<issued, named>>

Next ==
  \/ Issue
  \/ \E i \in Ids : Serve(i)
  \/ Return
  \/ Fail

SafeSpec == Init /\ [][Next]_portVars
=============================================================================
