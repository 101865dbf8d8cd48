-------------------------- MODULE RuntimePipeline --------------------------
(***************************************************************************)
(* dynamic/pipeline.py: run(), stages 0 to 6 of the runtime analysis, over *)
(* the event source (Monitor) and what the MCP client promises (RpcPort).  *)
(*                                                                         *)
(* The sandboxed server acts at any time after its launch, between any two *)
(* steps of the pipeline: it may go on with a call that was answered or    *)
(* given up.  An event carries the request that caused it, 0 for what the  *)
(* server does of its own; the code cannot see this field.                 *)
(***************************************************************************)
EXTENDS Integers, Sequences, FiniteSets

CONSTANTS
  MaxCalls,  \* bound: invocations in a plan
  PerCause,  \* bound: events with one cause
  RingSize   \* the events the perf ring holds

VARIABLES
  pc,             \* where run() stands
  plan,           \* the audit decision of each planned invocation
  at,             \* the invocation being dispatched
  audits,         \* pre_audits
  trees,          \* trees: invocation, request and events of each
  verifications,  \* the requests with a post-execution verification
  reported,       \* the report is written
  raised,         \* run() raises
  client,         \* the McpClient: none, open, closed
  sandbox,        \* the server in its cgroup: none, up, down
  (* history: what no variable of the code holds *)
  captured,       \* events that entered the ring
  due,            \* those captured when the last answer or failure arrived
  dismissed,      \* those returned by the drain() that opens the run
  cutShort,       \* a drain() has returned without one poll
  (* the event source and the client *)
  running, bpf, ring, buffer, drained, mpc,
  issued, pending, named, verdict

MaxId == MaxCalls + 2   \* initialize, tools/list and the calls

Events == [cause : 0 .. MaxId, n : 1 .. PerCause]

Mon == INSTANCE Monitor
Rpc == INSTANCE RpcPort

mon == <<running, bpf, ring, buffer, drained, mpc>>
rpc == <<issued, pending, named, verdict>>
run == <<plan, at, audits, trees, verifications, reported, raised, client, sandbox>>
history == <<captured, due, dismissed, cutShort>>
vars == <<pc, run, history, mon, rpc>>

ASSUME RuntimePipelineAssumption ==
  MaxCalls \in Nat /\ PerCause \in Nat /\ RingSize \in Nat

Decisions == {"allow", "deny"}

Init ==
  /\ pc = "begin" /\ plan = <<>> /\ at = 1
  /\ audits = <<>> /\ trees = <<>> /\ verifications = <<>>
  /\ reported = FALSE /\ raised = FALSE
  /\ client = "none" /\ sandbox = "none"
  /\ captured = {} /\ due = {} /\ dismissed = {} /\ cutShort = FALSE
  /\ Mon!Init /\ Rpc!Init

-----------------------------------------------------------------------------
(* Stage 0: preflight, launch, attach                                      *)

(* An exception on its way to the finally block.                           *)
Raise ==
  /\ raised' = TRUE
  /\ pc' = "stop"
  /\ UNCHANGED <<plan, at, audits, trees, verifications, reported, client, sandbox>>

(* assert_runtime_available, launch(): what raises here ran before the try *)
(* statement; launch() cleans up after itself.                             *)
Launch ==
  /\ pc = "begin"
  /\ \/ /\ sandbox' = "up" /\ pc' = "attach"
        /\ UNCHANGED raised
     \/ /\ raised' = TRUE /\ pc' = "done"
        /\ UNCHANGED sandbox
  /\ UNCHANGED <<plan, at, audits, trees, verifications, reported, client>>
  /\ UNCHANGED <<history, mon, rpc>>

Attach ==
  /\ pc = "attach"
  /\ Mon!Start
  /\ pc' = "warmup"
  /\ UNCHANGED <<run, history, rpc>>

AttachFails ==
  /\ pc = "attach"
  /\ Mon!StartFails
  /\ Raise
  /\ UNCHANGED <<history, rpc>>

-----------------------------------------------------------------------------
(* drain(), at the start of the run and after each call                    *)

Draining == pc \in {"warmup", "observe"}

Drain ==
  /\ Draining
  /\ Mon!EnterDrain \/ Mon!Poll
  /\ UNCHANGED <<pc, run, history, rpc>>

DrainNothing ==
  /\ Draining
  /\ Mon!PollNothing
  /\ cutShort' = TRUE
  /\ UNCHANGED <<pc, run, captured, due, dismissed, rpc>>

WarmedUp ==
  /\ pc = "warmup"
  /\ Mon!Take
  /\ dismissed' = drained'
  /\ client' = "open"
  /\ pc' = "handshake"
  /\ UNCHANGED <<plan, at, audits, trees, verifications, reported, raised, sandbox>>
  /\ UNCHANGED <<captured, due, cutShort, rpc>>

-----------------------------------------------------------------------------
(* The handshake: requests 1 and 2                                         *)

Handshake ==
  /\ pc = "handshake" /\ pending = 0
  /\ Rpc!Issue
  /\ UNCHANGED <<pc, run, history, mon>>

HandshakeAnswered ==
  /\ pc = "handshake"
  /\ Rpc!Return
  /\ pc' = IF issued = 2 THEN "plan" ELSE "handshake"
  /\ UNCHANGED <<run, history, mon>>

(* A handshake before the try statement.                                   *)
HandshakeFailsOutsideTry ==
  /\ pc = "handshake"
  /\ \/ Rpc!Fail
     \/ pending = 0 /\ issued = 1 /\ UNCHANGED rpc
  /\ raised' = TRUE
  /\ pc' = "done"
  /\ UNCHANGED <<plan, at, audits, trees, verifications, reported, client, sandbox>>
  /\ UNCHANGED <<history, mon>>

(* The request fails, or writing notifications/initialized after it does.  *)
HandshakeFails ==
  /\ pc = "handshake"
  /\ \/ Rpc!Fail
     \/ pending = 0 /\ issued = 1 /\ UNCHANGED rpc
  /\ Raise
  /\ UNCHANGED <<history, mon>>

-----------------------------------------------------------------------------
(* Plan and loop                                                           *)

(* generate_invocations: any plan within max_calls; a bad test script      *)
(* raises.                                                                 *)
Plan ==
  /\ pc = "plan"
  /\ \E n \in 0 .. MaxCalls : plan' \in [1 .. n -> Decisions]
  /\ pc' = "next"
  /\ UNCHANGED <<at, audits, trees, verifications, reported, raised, client, sandbox>>
  /\ UNCHANGED <<history, mon, rpc>>

PlanFails ==
  /\ pc = "plan"
  /\ Raise
  /\ UNCHANGED <<history, mon, rpc>>

(* A loop without its continue.                                            *)
AuditForgetsToSkip ==
  /\ pc = "next" /\ at <= Len(plan)
  /\ audits' = Append(audits, plan[at])
  /\ Mon!Start /\ pc' = "call" /\ UNCHANGED at
  /\ UNCHANGED <<plan, trees, verifications, reported, raised, client, sandbox>>
  /\ UNCHANGED <<history, rpc>>

(* audit_pre: the verdict is recorded; a denied invocation is not sent.    *)
Audit ==
  /\ pc = "next" /\ at <= Len(plan)
  /\ audits' = Append(audits, plan[at])
  /\ \/ plan[at] = "deny" /\ at' = at + 1 /\ UNCHANGED <<pc, mon>>
     \/ plan[at] = "allow" /\ Mon!Start /\ pc' = "call" /\ UNCHANGED at
  /\ UNCHANGED <<plan, trees, verifications, reported, raised, client, sandbox>>
  /\ UNCHANGED <<history, rpc>>

(* _dispatch_call: call_tool, whose McpClientError becomes the response.   *)
Send ==
  /\ pc = "call"
  /\ Rpc!Issue
  /\ pc' = "wait"
  /\ UNCHANGED <<run, history, mon>>

Receive ==
  /\ pc = "wait"
  /\ Rpc!Return \/ Rpc!Fail
  /\ due' = captured
  /\ pc' = "observe"
  /\ UNCHANGED <<run, captured, dismissed, cutShort, mon>>

(* call_tool raises something else: a line that is not UTF-8.              *)
ReceiveBreaks ==
  /\ pc = "wait"
  /\ Rpc!Fail
  /\ Raise
  /\ UNCHANGED <<history, mon>>

Observed ==
  /\ pc = "observe"
  /\ Mon!Take
  /\ pc' = "verify"
  /\ UNCHANGED <<run, history, rpc>>

(* A tree labelled with the request before its own.                        *)
VerifyUnderThePrevious ==
  /\ pc = "verify"
  /\ trees' = Append(trees, [inv |-> at, id |-> issued - 1, events |-> drained])
  /\ verifications' = Append(verifications, issued)
  /\ at' = at + 1
  /\ pc' = "next"
  /\ UNCHANGED <<plan, audits, reported, raised, client, sandbox>>
  /\ UNCHANGED <<history, mon, rpc>>

(* assemble_tree, verify_post and the judge, inspect_sinks.                *)
Verify ==
  /\ pc = "verify"
  /\ trees' = Append(trees, [inv |-> at, id |-> issued, events |-> drained])
  /\ verifications' = Append(verifications, issued)
  /\ at' = at + 1
  /\ pc' = "next"
  /\ UNCHANGED <<plan, audits, reported, raised, client, sandbox>>
  /\ UNCHANGED <<history, mon, rpc>>

VerifyFails ==
  /\ pc = "verify"
  /\ Raise
  /\ UNCHANGED <<history, mon, rpc>>

(* build_report, which may fail to write.                                  *)
Report ==
  /\ pc = "next" /\ at > Len(plan)
  /\ reported' = TRUE
  /\ pc' = "stop"
  /\ UNCHANGED <<plan, at, audits, trees, verifications, raised, client, sandbox>>
  /\ UNCHANGED <<history, mon, rpc>>

ReportFails ==
  /\ pc = "next" /\ at > Len(plan)
  /\ Raise
  /\ UNCHANGED <<history, mon, rpc>>

-----------------------------------------------------------------------------
(* The finally block                                                       *)

StopMonitor ==
  /\ pc = "stop"
  /\ Mon!Stop
  /\ pc' = "close"
  /\ UNCHANGED <<run, history, rpc>>

CloseClient ==
  /\ pc = "close"
  /\ client' = IF client = "open" THEN "closed" ELSE client
  /\ pc' = "teardown"
  /\ UNCHANGED <<plan, at, audits, trees, verifications, reported, raised, sandbox>>
  /\ UNCHANGED <<history, mon, rpc>>

Teardown ==
  /\ pc = "teardown"
  /\ sandbox' = "down"
  /\ pc' = "done"
  /\ UNCHANGED <<plan, at, audits, trees, verifications, reported, raised, client>>
  /\ UNCHANGED <<history, mon, rpc>>

(* A signal Python does not turn into an exception (SIGTERM, SIGKILL):     *)
(* the trees and all else run() knew are gone and the kernel detaches the  *)
(* programs; the sandbox and a written report stay.                        *)
Killed ==
  /\ pc \notin {"begin", "done", "killed"}
  /\ pc' = "killed"
  /\ plan' = <<>> /\ at' = 1
  /\ audits' = <<>> /\ trees' = <<>> /\ verifications' = <<>>
  /\ client' = IF client = "open" THEN "closed" ELSE client
  /\ captured' = {} /\ due' = {} /\ dismissed' = {} /\ cutShort' = FALSE
  /\ Mon!Lost
  /\ UNCHANGED <<reported, raised, sandbox, rpc>>

-----------------------------------------------------------------------------
(* The sandboxed server                                                    *)

Acts(e) ==
  /\ sandbox = "up" /\ pc # "killed"
  /\ e \notin captured /\ e.cause <= issued
  /\ Mon!Submit(e)
  /\ captured' = captured \union (ring' \ ring)
  /\ UNCHANGED <<pc, run, due, dismissed, cutShort, rpc>>

Serves(i) ==
  /\ sandbox = "up" /\ client = "open"
  /\ Rpc!Serve(i)
  /\ UNCHANGED <<pc, run, history, mon>>

-----------------------------------------------------------------------------
RunStep ==
  \/ Launch \/ Attach \/ AttachFails
  \/ Drain \/ DrainNothing \/ WarmedUp
  \/ Handshake \/ HandshakeAnswered \/ HandshakeFails
  \/ Plan \/ PlanFails \/ Audit
  \/ Send \/ Receive \/ ReceiveBreaks
  \/ Observed \/ Verify \/ VerifyFails
  \/ Report \/ ReportFails
  \/ StopMonitor \/ CloseClient \/ Teardown

ServerStep ==
  \/ \E e \in Events : Acts(e)
  \/ \E i \in 1 .. MaxId : Serves(i)

Next == RunStep \/ Killed \/ ServerStep

(* run() goes on, and a drain() is over after 200ms.  The server owes      *)
(* nothing, nor need a request end: its write waits for a server that does *)
(* not read (McpClient!StdinFull).                                         *)
Fairness ==
  /\ WF_vars(pending = 0 /\ RunStep)
  /\ WF_vars(WarmedUp) /\ WF_vars(Observed)

SafeSpec == Init /\ [][Next]_vars
Spec == SafeSpec /\ Fairness

-----------------------------------------------------------------------------
(* Properties                                                              *)

Pcs ==
  {"begin", "attach", "warmup", "handshake", "plan", "next", "call", "wait",
   "observe", "verify", "stop", "close", "teardown", "done", "killed"}

Trees == [inv : 1 .. MaxCalls, id : 1 .. MaxId, events : SUBSET Events]

RunTypeOK ==
  /\ pc \in Pcs
  /\ plan \in Seq(Decisions) /\ Len(plan) <= MaxCalls
  /\ at \in 1 .. MaxCalls + 1
  /\ audits \in Seq(Decisions)
  /\ trees \in Seq(Trees)
  /\ verifications \in Seq(1 .. MaxId)
  /\ reported \in BOOLEAN /\ raised \in BOOLEAN /\ cutShort \in BOOLEAN
  /\ client \in {"none", "open", "closed"}
  /\ sandbox \in {"none", "up", "down"}

HistoryTypeOK ==
  /\ captured \subseteq Events
  /\ due \subseteq captured /\ dismissed \subseteq captured

RpcTypeOK ==
  /\ issued \in 0 .. MaxId /\ pending \in 0 .. issued
  /\ named \subseteq 1 .. MaxId
  /\ verdict \in [1 .. MaxId -> Rpc!Verdicts]

TypeOK == RunTypeOK /\ HistoryTypeOK /\ Mon!TypeOK /\ RpcTypeOK

InTrees == UNION {trees[k].events : k \in DOMAIN trees}

(* An event is never shown under a call sent before the one that caused    *)
(* it, whenever the server acts and however late the tree is assembled.    *)
NeverBeforeItsCause ==
  \A k \in DOMAIN trees : \A e \in trees[k].events : e.cause <= trees[k].id

(* No event is counted twice: not in two trees, nor in a tree and again    *)
(* in the ring or the buffer, from where the next tree would take it.      *)
CountedOnce ==
  /\ \A j, k \in DOMAIN trees : j # k => trees[j].events \cap trees[k].events = {}
  /\ InTrees \cap (ring \union buffer \union dismissed) = {}

(* What the ring captured before a call ended, answered or not, is in a    *)
(* tree when the call's own tree is made, if each drain() polled: neither  *)
(* the buffer that start() clears nor the end of the drain loses it.       *)
CapturedIsObserved ==
  pc = "next" /\ ~cutShort => due \subseteq InTrees \union dismissed

(* The report covers the plan: an audit for each invocation so far, one    *)
(* tree and one verification, of its own request, for each that was        *)
(* allowed, in plan order, and none for a denied one; and it is written    *)
(* for the whole plan.                                                     *)
Complete ==
  pc = "next" \/ (reported /\ pc # "killed") =>
    /\ audits = SubSeq(plan, 1, at - 1)
    /\ {trees[k].inv : k \in DOMAIN trees} = {n \in 1 .. at - 1 : plan[n] = "allow"}
    /\ \A j, k \in DOMAIN trees : j < k => trees[j].inv < trees[k].inv
    /\ verifications = [k \in DOMAIN trees |-> trees[k].id]
    /\ \A k \in DOMAIN trees : trees[k].id = k + 2
    /\ issued = Len(trees) + 2
    /\ reported => at = Len(plan) + 1

(* A launched sandbox is torn down with the programs detached, whatever    *)
(* fails between, unless the process is killed outright or a request       *)
(* never ends.                                                             *)
TornDown ==
  \/ <>[](pending # 0)
  \/ sandbox = "up" ~> (sandbox = "down" /\ bpf = "none") \/ pc = "killed"

(* The behavior tree of a call holds the events of that call               *)
(* (README.md:57).                                                         *)
OwnEventsOnly ==
  \A k \in DOMAIN trees : \A e \in trees[k].events : e.cause = trees[k].id
=============================================================================
