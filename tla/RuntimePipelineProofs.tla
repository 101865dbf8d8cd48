------------------------ MODULE RuntimePipelineProofs ------------------------
(***************************************************************************)
(* Proofs about the runtime pipeline, for plans, rings and event sets of   *)
(* any size, and about the sandbox it launches, for any processes.         *)
(*                                                                         *)
(* Where the pipeline stands (Place) says what the monitor holds; from     *)
(* that, every captured event is in one place at a time (Kept) and none is *)
(* older than the request whose tree it is in (Causal); and it says how    *)
(* much of the plan the report's lists cover (Covering).                   *)
(***************************************************************************)
EXTENDS RuntimePipeline, Sandbox, TLAPS

Early == {"begin", "attach", "warmup", "handshake", "plan"}
Dispatching == {"call", "wait", "observe", "verify"}

Place ==
  /\ pc \in Dispatching => at <= Len(plan)
  /\ pc \in Dispatching \union {"plan", "next"} => issued >= 2
  /\ pc \in Early => trees = <<>> /\ due = {}
  /\ pc \in {"begin", "attach", "warmup"} => dismissed = {}
  /\ pc \in {"begin", "attach"} => bpf = "none" /\ captured = {}
  /\ pc \in Dispatching \union {"warmup", "handshake", "plan", "next"}
       => bpf = "open" /\ running
  /\ ~Draining => mpc = "out" /\ buffer = {}
  /\ ring \union buffer \union drained \subseteq captured

Typing == TypeOK /\ Place

(* No event has a cause that has not been issued yet.                      *)
Causal ==
  /\ \A e \in ring \union buffer \union drained : e.cause <= issued
  /\ NeverBeforeItsCause

Disjoint ==
  \A j, k \in DOMAIN trees : j # k => trees[j].events \cap trees[k].events = {}

(* What a tree, the ring and the buffer hold, and what they share.         *)
Kept ==
  /\ InTrees \subseteq captured
  /\ ring \intersect buffer = {}
  /\ dismissed \intersect (ring \union buffer) = {}
  /\ pc = "verify" => drained \intersect (ring \union InTrees \union dismissed) = {}
  /\ Disjoint
  /\ InTrees \intersect (ring \union buffer \union dismissed) = {}

(* Nothing that was captured is anywhere else while the loop goes on, and  *)
(* after a drain() that polled nothing of the call is left in the ring.    *)
Located ==
  /\ pc \in Early \union Dispatching \union {"next"} =>
       captured \subseteq ring \union buffer \union dismissed \union InTrees
                            \union (IF pc = "verify" THEN drained ELSE {})
  /\ (pc \in {"verify", "next"} \/ (pc = "observe" /\ mpc = "polled")) /\ ~cutShort
       => due \intersect ring = {}

-----------------------------------------------------------------------------
(* The typing invariant, one sort of variable at a time                    *)

RpcStep ==
  \/ Rpc!Issue \/ Rpc!Return \/ Rpc!Fail \/ UNCHANGED rpc
  \/ \E i \in 1 .. MaxId : Rpc!Serve(i)

MonStep ==
  \/ Mon!Start \/ Mon!StartFails \/ Mon!EnterDrain \/ Mon!Poll \/ Mon!PollNothing
  \/ Mon!Take \/ Mon!Stop \/ Mon!Lost \/ UNCHANGED mon
  \/ \E e \in Events : Mon!Submit(e)

(* Each step of the pipeline is a step of the client and of the monitor.   *)
LEMMA Parts == [Next]_vars => RpcStep /\ MonStep
<1> SUFFICES ASSUME [Next]_vars PROVE RpcStep /\ MonStep
  OBVIOUS
<1> USE DEF RpcStep, MonStep
<1>1. CASE RunStep
  BY <1>1 DEF RunStep, Raise, Launch, Attach, AttachFails, Drain, DrainNothing,
              WarmedUp, Handshake, HandshakeAnswered, HandshakeFails, Plan,
              PlanFails, Audit, Send, Receive, ReceiveBreaks, Observed, Verify,
              VerifyFails, Report, ReportFails, StopMonitor, CloseClient, Teardown,
              rpc, mon
<1>2. CASE Killed  BY <1>2 DEF Killed
<1>3. CASE ServerStep  BY <1>3 DEF ServerStep, Acts, Serves
<1>4. CASE UNCHANGED vars  BY <1>4 DEF vars
<1> QED  BY <1>1, <1>2, <1>3, <1>4 DEF Next

LEMMA NextRpc == RpcTypeOK /\ RpcStep => RpcTypeOK' /\ issued <= issued'
<1> SUFFICES ASSUME RpcTypeOK, RpcStep PROVE RpcTypeOK' /\ issued <= issued'
  OBVIOUS
<1> USE RuntimePipelineAssumption DEF RpcTypeOK, MaxId, Rpc!Verdicts
<1>1. CASE Rpc!Issue  BY <1>1 DEF Rpc!Issue
<1>2. CASE Rpc!Return  BY <1>2 DEF Rpc!Return
<1>3. CASE Rpc!Fail  BY <1>3 DEF Rpc!Fail
<1>4. ASSUME NEW i \in 1 .. MaxId, Rpc!Serve(i) PROVE RpcTypeOK' /\ issued <= issued'
  BY <1>4 DEF Rpc!Serve
<1>5. CASE UNCHANGED rpc  BY <1>5 DEF rpc
<1> QED  BY <1>1, <1>2, <1>3, <1>4, <1>5 DEF RpcStep

LEMMA NextMon == Mon!TypeOK /\ MonStep => Mon!TypeOK'
  BY DEF MonStep, Mon!TypeOK, Mon!Start, Mon!StartFails, Mon!EnterDrain, Mon!Poll,
         Mon!PollNothing, Mon!Take, Mon!Stop, Mon!Lost, Mon!Submit, mon

LEMMA InitTyping == Init => Typing
<1> SUFFICES ASSUME Init PROVE Typing
  OBVIOUS
<1> USE RuntimePipelineAssumption
<1>1. RpcTypeOK
  BY DEF Init, Rpc!Init, RpcTypeOK, Rpc!Verdicts, Rpc!Ids, MaxId
<1>2. Mon!TypeOK
  BY DEF Init, Mon!Init, Mon!TypeOK
<1>3. RunTypeOK
  <2>1. trees \in Seq(Trees) /\ verifications \in Seq(1 .. MaxId)
    BY DEF Init
  <2>2. plan \in Seq(Decisions) /\ Len(plan) <= MaxCalls /\ audits \in Seq(Decisions)
    BY DEF Init
  <2>3. at \in 1 .. MaxCalls + 1
    BY DEF Init
  <2>4. /\ pc \in Pcs /\ client = "none" /\ sandbox = "none"
        /\ reported = FALSE /\ raised = FALSE /\ cutShort = FALSE
    BY DEF Init, Pcs
  <2> QED  BY <2>1, <2>2, <2>3, <2>4 DEF RunTypeOK
<1>4. HistoryTypeOK /\ Place
  BY DEF Init, HistoryTypeOK, Place, Early, Dispatching, Draining, Mon!Init
<1> QED  BY <1>1, <1>2, <1>3, <1>4 DEF Typing, TypeOK

LEMMA NextRun == Typing /\ [Next]_vars => RunTypeOK'
<1> SUFFICES ASSUME Typing, [Next]_vars PROVE RunTypeOK'
  OBVIOUS
<1> USE RuntimePipelineAssumption
<1> USE DEF Typing, TypeOK, RunTypeOK, Pcs, run, history
<1>1. CASE Plan
  <2>1. PICK n \in 0 .. MaxCalls : plan' \in [1 .. n -> Decisions]
    BY <1>1 DEF Plan
  <2>2. plan' \in Seq(Decisions) /\ Len(plan') = n
    BY <2>1
  <2> QED  BY <1>1, <2>2 DEF Plan
<1>2. CASE Audit
  <2>1. at \in 1 .. Len(plan) /\ plan[at] \in Decisions
    BY <1>2 DEF Audit
  <2>2. audits' \in Seq(Decisions)
    BY <1>2, <2>1 DEF Audit
  <2>3. at' \in 1 .. MaxCalls + 1 /\ pc' \in {"next", "call"}
    BY <1>2, <2>1 DEF Audit
  <2> QED  BY <1>2, <2>2, <2>3 DEF Audit
<1>3. CASE Verify
  <2>1. at \in 1 .. MaxCalls /\ issued \in 1 .. MaxId /\ drained \subseteq Events
    BY <1>3 DEF Verify, Place, Dispatching, RpcTypeOK, MaxId, Mon!TypeOK
  <2>2. [inv |-> at, id |-> issued, events |-> drained] \in Trees
    BY <2>1 DEF Trees
  <2>3. trees' \in Seq(Trees) /\ verifications' \in Seq(1 .. MaxId)
    BY <1>3, <2>1, <2>2 DEF Verify
  <2> QED  BY <1>3, <2>1, <2>3 DEF Verify
<1>4. CASE Killed
  <2>1. trees' \in Seq(Trees) /\ verifications' \in Seq(1 .. MaxId)
    BY <1>4 DEF Killed
  <2>2. plan' \in Seq(Decisions) /\ Len(plan') <= MaxCalls /\ audits' \in Seq(Decisions)
    BY <1>4 DEF Killed
  <2>3. at' \in 1 .. MaxCalls + 1
    BY <1>4 DEF Killed
  <2>4. /\ pc' = "killed" /\ client' \in {"none", "open", "closed"}
        /\ sandbox' = sandbox /\ reported' = reported /\ raised' = raised
        /\ cutShort' = FALSE
    BY <1>4 DEF Killed
  <2> QED  BY <2>1, <2>2, <2>3, <2>4
<1>5. ASSUME [Next]_vars, ~Plan, ~Audit, ~Verify, ~Killed
      PROVE  RunTypeOK'
  <2>1. UNCHANGED <<plan, at, audits, trees, verifications>>
    BY <1>5 DEF Next, RunStep, ServerStep, vars, Raise, Launch, Attach, AttachFails,
                Drain, DrainNothing, WarmedUp, Handshake, HandshakeAnswered,
                HandshakeFails, PlanFails, Send, Receive, ReceiveBreaks, Observed,
                VerifyFails, Report, ReportFails, StopMonitor, CloseClient, Teardown,
                Acts, Serves
  <2>2. /\ pc' \in Pcs /\ client' \in {"none", "open", "closed"}
        /\ sandbox' \in {"none", "up", "down"}
        /\ reported' \in BOOLEAN /\ raised' \in BOOLEAN /\ cutShort' \in BOOLEAN
    BY <1>5 DEF Next, RunStep, ServerStep, vars, Raise, Launch, Attach, AttachFails,
                Drain, DrainNothing, WarmedUp, Handshake, HandshakeAnswered,
                HandshakeFails, PlanFails, Send, Receive, ReceiveBreaks, Observed,
                VerifyFails, Report, ReportFails, StopMonitor, CloseClient, Teardown,
                Acts, Serves
  <2> QED  BY <2>1, <2>2
<1> QED  BY <1>1, <1>2, <1>3, <1>4, <1>5

LEMMA NextPlace == Typing /\ [Next]_vars => Place' /\ HistoryTypeOK'
<1> SUFFICES ASSUME Typing, [Next]_vars PROVE Place' /\ HistoryTypeOK'
  OBVIOUS
<1>0. issued \in Nat /\ issued' \in Nat /\ issued <= issued'
  BY Parts, NextRpc DEF Typing, TypeOK, RpcTypeOK
<1>a. HistoryTypeOK /\ Place /\ at \in Nat /\ Len(plan) \in Nat /\ Mon!TypeOK
  BY DEF Typing, TypeOK, RunTypeOK
<1> USE <1>0, <1>a
<1> USE DEF Place, HistoryTypeOK, Early, Dispatching, Draining, run, history, mon,
            Mon!TypeOK
<1>1. CASE Launch  BY <1>1 DEF Launch
<1>2. CASE Attach  BY <1>2 DEF Attach, Mon!Start
<1>3. CASE AttachFails  BY <1>3 DEF AttachFails, Raise, Mon!StartFails
<1>4. CASE Drain  BY <1>4 DEF Drain, Mon!EnterDrain, Mon!Poll
<1>5. CASE DrainNothing  BY <1>5 DEF DrainNothing, Mon!PollNothing
<1>6. CASE WarmedUp  BY <1>6 DEF WarmedUp, Mon!Take
<1>7. CASE Handshake  BY <1>7 DEF Handshake
<1>8. CASE HandshakeAnswered  BY <1>8 DEF HandshakeAnswered, Rpc!Return
<1>9. CASE HandshakeFails  BY <1>9 DEF HandshakeFails, Raise
<1>10. CASE Plan  BY <1>10 DEF Plan
<1>11. CASE PlanFails  BY <1>11 DEF PlanFails, Raise
<1>12. CASE Audit
  <2>1. CASE plan[at] = "deny" /\ pc' = pc /\ mon' = mon
    BY <1>12, <2>1 DEF Audit
  <2>2. CASE Mon!Start /\ pc' = "call" /\ at' = at
    BY <1>12, <2>2 DEF Audit, Mon!Start
  <2> QED  BY <1>12, <2>1, <2>2 DEF Audit
<1>13. CASE Send  BY <1>13 DEF Send
<1>14. CASE Receive  BY <1>14 DEF Receive
<1>15. CASE ReceiveBreaks  BY <1>15 DEF ReceiveBreaks, Raise
<1>16. CASE Observed  BY <1>16 DEF Observed, Mon!Take
<1>17. CASE Verify  BY <1>17 DEF Verify
<1>18. CASE VerifyFails  BY <1>18 DEF VerifyFails, Raise
<1>19. CASE Report  BY <1>19 DEF Report
<1>20. CASE ReportFails  BY <1>20 DEF ReportFails, Raise
<1>21. CASE StopMonitor  BY <1>21 DEF StopMonitor, Mon!Stop
<1>22. CASE CloseClient  BY <1>22 DEF CloseClient
<1>23. CASE Teardown  BY <1>23 DEF Teardown
<1>24. CASE Killed  BY <1>24 DEF Killed, Mon!Lost
<1>25. ASSUME NEW e \in Events, Acts(e) PROVE Place' /\ HistoryTypeOK'
  BY <1>25 DEF Acts, Mon!Submit
<1>26. ASSUME NEW i \in 1 .. MaxId, Serves(i) PROVE Place' /\ HistoryTypeOK'
  BY <1>26 DEF Serves
<1>27. CASE UNCHANGED vars  BY <1>27 DEF vars
<1> QED
  BY <1>1, <1>2, <1>3, <1>4, <1>5, <1>6, <1>7, <1>8, <1>9, <1>10, <1>11, <1>12,
     <1>13, <1>14, <1>15, <1>16, <1>17, <1>18, <1>19, <1>20, <1>21, <1>22, <1>23,
     <1>24, <1>25, <1>26, <1>27
  DEF Next, RunStep, ServerStep

LEMMA AlwaysTyping == Spec => []Typing
<1>1. Typing /\ [Next]_vars => Typing'
  BY Parts, NextRpc, NextMon, NextRun, NextPlace DEF Typing, TypeOK
<1> QED  BY InitTyping, <1>1, PTL DEF Spec, SafeSpec

(* Every variable has its type; the history and the event source only ever *)
(* hold events.                                                            *)
THEOREM TypeCorrect == Spec => []TypeOK
  BY AlwaysTyping, PTL DEF Typing

-----------------------------------------------------------------------------
(* Where the events are                                                    *)

(* What Verify does to the trees, and what happens to them otherwise.      *)
LEMMA VerifyAdds ==
  ASSUME Typing, Verify
  PROVE  /\ DOMAIN trees' = 1 .. Len(trees) + 1
         /\ \A k \in DOMAIN trees : k \in DOMAIN trees' /\ trees'[k] = trees[k]
         /\ DOMAIN trees = 1 .. Len(trees)
         /\ trees'[Len(trees) + 1].events = drained
         /\ trees'[Len(trees) + 1].id = issued
         /\ Len(trees) \in Nat
  BY DEF Typing, TypeOK, RunTypeOK, Verify

LEMMA VerifyInTrees == Typing /\ Verify => InTrees' = InTrees \union drained
<1> SUFFICES ASSUME Typing, Verify PROVE InTrees' = InTrees \union drained
  OBVIOUS
<1>1. ASSUME NEW e \in InTrees' PROVE e \in InTrees \union drained
  <2>1. PICK k \in DOMAIN trees' : e \in trees'[k].events
    BY <1>1 DEF InTrees
  <2>2. CASE k = Len(trees) + 1  BY <2>1, <2>2, VerifyAdds
  <2>3. CASE k \in DOMAIN trees  BY <2>1, <2>3, VerifyAdds DEF InTrees
  <2> QED  BY <2>1, <2>2, <2>3, VerifyAdds
<1>2. ASSUME NEW e \in InTrees PROVE e \in InTrees'
  <2>1. PICK k \in DOMAIN trees : e \in trees[k].events
    BY <1>2 DEF InTrees
  <2> QED  BY <2>1, VerifyAdds DEF InTrees
<1>3. ASSUME NEW e \in drained PROVE e \in InTrees'
  <2>1. Len(trees) + 1 \in DOMAIN trees'
    BY VerifyAdds
  <2> QED  BY <1>3, <2>1, VerifyAdds DEF InTrees
<1> QED  BY <1>1, <1>2, <1>3

LEMMA NoTrees == trees = <<>> => InTrees = {} /\ Disjoint
  BY DEF InTrees, Disjoint

LEMMA TreesChange ==
  ASSUME [Next]_vars
  PROVE  trees' = trees \/ Verify \/ (Killed /\ trees' = <<>>)
  BY DEF Next, RunStep, ServerStep, vars, run, Raise, Launch, Attach, AttachFails,
         Drain, DrainNothing, WarmedUp, Handshake, HandshakeAnswered,
         HandshakeFails, Plan, PlanFails, Audit, Send, Receive, ReceiveBreaks,
         Observed, VerifyFails, Report, ReportFails, StopMonitor, CloseClient,
         Teardown, Killed, Acts, Serves

LEMMA NextDisjoint == Typing /\ Kept /\ [Next]_vars => Disjoint'
<1> SUFFICES ASSUME Typing, Kept, [Next]_vars PROVE Disjoint'
  OBVIOUS
<1>1. CASE trees' = trees  BY <1>1 DEF Kept, Disjoint
<1>2. CASE Verify
  <2>1. \A k \in DOMAIN trees : trees[k].events \intersect drained = {}
    BY <1>2 DEF Kept, Verify, InTrees
  <2>2. ASSUME NEW j \in DOMAIN trees', NEW k \in DOMAIN trees', j # k
        PROVE  trees'[j].events \cap trees'[k].events = {}
    <3>1. CASE j = Len(trees) + 1  BY <1>2, <2>1, <2>2, <3>1, VerifyAdds
    <3>2. CASE k = Len(trees) + 1  BY <1>2, <2>1, <2>2, <3>2, VerifyAdds
    <3>3. CASE j \in DOMAIN trees /\ k \in DOMAIN trees
      BY <1>2, <2>2, <3>3, VerifyAdds DEF Kept, Disjoint
    <3> QED  BY <1>2, <3>1, <3>2, <3>3, VerifyAdds
  <2> QED  BY <2>2 DEF Disjoint
<1>3. CASE trees' = <<>>  BY <1>3 DEF Disjoint
<1> QED  BY <1>1, <1>2, <1>3, TreesChange

Where == Kept /\ Located

LEMMA InitWhere == Init => Where
  BY NoTrees DEF Init, Mon!Init, Where, Kept, Located, Early, Dispatching

LEMMA NextWhere == Typing /\ Where /\ [Next]_vars => Where'
<1> SUFFICES ASSUME Typing, Where, [Next]_vars PROVE Where'
  OBVIOUS
<1>a. Disjoint'
  BY NextDisjoint DEF Where
<1>b. HistoryTypeOK /\ Place
  BY DEF Typing, TypeOK
<1>c. trees' = trees => InTrees' = InTrees
  BY DEF InTrees
<1> USE <1>a, <1>b, <1>c
<1> USE DEF Where, Kept, Located, HistoryTypeOK, Place, Early, Dispatching, Draining,
            run, history, mon
<1>1. CASE Launch  BY <1>1 DEF Launch
<1>2. CASE Attach  BY <1>2 DEF Attach, Mon!Start
<1>3. CASE AttachFails  BY <1>3 DEF AttachFails, Raise, Mon!StartFails
<1>4. CASE Drain  BY <1>4 DEF Drain, Mon!EnterDrain, Mon!Poll
<1>5. CASE DrainNothing  BY <1>5 DEF DrainNothing, Mon!PollNothing
<1>6. CASE WarmedUp  BY <1>6, NoTrees DEF WarmedUp, Mon!Take
<1>7. CASE Handshake  BY <1>7 DEF Handshake
<1>8. CASE HandshakeAnswered  BY <1>8 DEF HandshakeAnswered
<1>9. CASE HandshakeFails  BY <1>9 DEF HandshakeFails, Raise
<1>10. CASE Plan  BY <1>10 DEF Plan
<1>11. CASE PlanFails  BY <1>11 DEF PlanFails, Raise
<1>12. CASE Audit
  <2>1. CASE pc' = pc /\ mon' = mon
    BY <1>12, <2>1 DEF Audit
  <2>2. CASE Mon!Start /\ pc' = "call"
    BY <1>12, <2>2 DEF Audit, Mon!Start
  <2> QED  BY <1>12, <2>1, <2>2 DEF Audit
<1>13. CASE Send  BY <1>13 DEF Send
<1>14. CASE Receive  BY <1>14 DEF Receive
<1>15. CASE ReceiveBreaks  BY <1>15 DEF ReceiveBreaks, Raise
<1>16. CASE Observed  BY <1>16 DEF Observed, Mon!Take
<1>17. CASE Verify  BY <1>17, VerifyInTrees DEF Verify
<1>18. CASE VerifyFails  BY <1>18 DEF VerifyFails, Raise
<1>19. CASE Report  BY <1>19 DEF Report
<1>20. CASE ReportFails  BY <1>20 DEF ReportFails, Raise
<1>21. CASE StopMonitor  BY <1>21 DEF StopMonitor, Mon!Stop
<1>22. CASE CloseClient  BY <1>22 DEF CloseClient
<1>23. CASE Teardown  BY <1>23 DEF Teardown
<1>24. CASE Killed
  <2>1. InTrees' = {}  BY <1>24 DEF Killed, InTrees
  <2> QED  BY <1>24, <2>1 DEF Killed, Mon!Lost
<1>25. ASSUME NEW e \in Events, Acts(e) PROVE Where'
  <2>1. ring' = ring \/ ring' = ring \union {e}
    BY <1>25 DEF Acts, Mon!Submit
  <2> QED  BY <1>25, <2>1 DEF Acts, Mon!Submit
<1>26. ASSUME NEW i \in 1 .. MaxId, Serves(i) PROVE Where'
  BY <1>26 DEF Serves
<1>27. CASE UNCHANGED vars  BY <1>27 DEF vars
<1> QED
  BY <1>1, <1>2, <1>3, <1>4, <1>5, <1>6, <1>7, <1>8, <1>9, <1>10, <1>11, <1>12,
     <1>13, <1>14, <1>15, <1>16, <1>17, <1>18, <1>19, <1>20, <1>21, <1>22, <1>23,
     <1>24, <1>25, <1>26, <1>27
  DEF Next, RunStep, ServerStep

LEMMA AlwaysWhere == Spec => []Where
  BY AlwaysTyping, InitWhere, NextWhere, PTL DEF Spec, SafeSpec

(* No event is in two trees, nor in a tree and still to be taken.          *)
THEOREM CountedOnceHolds == Spec => []CountedOnce
<1>1. Where => CountedOnce
  BY DEF Where, Kept, Disjoint, CountedOnce
<1> QED  BY <1>1, AlwaysWhere, PTL

(* start() clears no event that drain() has not returned, and a drain()    *)
(* that polls leaves none of its call behind.                              *)
THEOREM CapturedIsObservedHolds == Spec => []CapturedIsObserved
<1>1. Typing /\ Where => CapturedIsObserved
  BY DEF Typing, TypeOK, HistoryTypeOK, Place, Where, Located, Draining,
         CapturedIsObserved
<1> QED  BY <1>1, AlwaysTyping, AlwaysWhere, PTL

-----------------------------------------------------------------------------
(* What the events have for a cause                                        *)

LEMMA NextCausal == Typing /\ Causal /\ [Next]_vars => Causal'
<1> SUFFICES ASSUME Typing, Causal, [Next]_vars PROVE Causal'
  OBVIOUS
<1>1. issued \in Nat /\ issued' \in Nat /\ issued <= issued'
  BY RuntimePipelineAssumption, Parts, NextRpc DEF Typing, TypeOK, RpcTypeOK, MaxId
<1>2. ring \union buffer \union drained \subseteq Events
  BY DEF Typing, TypeOK, Mon!TypeOK
<1>3. \A e \in Events : e.cause \in Nat
  BY RuntimePipelineAssumption DEF Events, MaxId
<1>4. \A e \in ring' \union buffer' \union drained' : e.cause <= issued'
  <2>1. CASE ring' \union buffer' \union drained' \subseteq ring \union buffer \union drained
    BY <2>1, <1>1, <1>2, <1>3 DEF Causal
  <2>2. ASSUME NEW e \in Events, Acts(e)
        PROVE  \A f \in ring' \union buffer' \union drained' : f.cause <= issued'
    <3>1. ring' \union buffer' \union drained' \subseteq ring \union buffer \union drained \union {e}
      BY <2>2 DEF Acts, Mon!Submit
    <3>2. e.cause <= issued
      BY <2>2 DEF Acts
    <3> QED  BY <3>1, <3>2, <1>1, <1>2, <1>3 DEF Causal
  <2>3. \/ \E e \in Events : Acts(e)
        \/ ring' \union buffer' \union drained' \subseteq ring \union buffer \union drained
    <3>1. CASE \E e \in Events : Acts(e)  BY <3>1
    <3>2. CASE ~(\E e \in Events : Acts(e))
      BY <3>2 DEF Next, RunStep, ServerStep, vars, mon, Raise, Launch, Attach,
                  AttachFails, Drain, DrainNothing, WarmedUp, Handshake,
                  HandshakeAnswered, HandshakeFails, Plan, PlanFails, Audit, Send,
                  Receive, ReceiveBreaks, Observed, Verify, VerifyFails, Report,
                  ReportFails, StopMonitor, CloseClient, Teardown, Killed, Serves,
                  Mon!Start, Mon!StartFails, Mon!EnterDrain, Mon!Poll,
                  Mon!PollNothing, Mon!Take, Mon!Stop, Mon!Lost
    <3> QED  BY <3>1, <3>2
  <2> QED  BY <2>1, <2>2, <2>3
<1>5. NeverBeforeItsCause'
  <2>1. CASE trees' = trees  BY <2>1 DEF Causal, NeverBeforeItsCause
  <2>2. CASE Verify
    <3>1. ASSUME NEW k \in DOMAIN trees', NEW e \in trees'[k].events
          PROVE  e.cause <= trees'[k].id
      <4>1. CASE k \in DOMAIN trees
        BY <2>2, <3>1, <4>1, VerifyAdds DEF Causal, NeverBeforeItsCause
      <4>2. CASE k = Len(trees) + 1
        BY <2>2, <3>1, <4>2, VerifyAdds DEF Causal
      <4> QED  BY <2>2, <4>1, <4>2, VerifyAdds
    <3> QED  BY <3>1 DEF NeverBeforeItsCause
  <2>3. CASE trees' = <<>>  BY <2>3 DEF NeverBeforeItsCause
  <2> QED  BY <2>1, <2>2, <2>3, TreesChange
<1> QED  BY <1>4, <1>5 DEF Causal

(* A call's tree holds nothing that a later request caused.                *)
THEOREM NeverBeforeItsCauseHolds == Spec => []NeverBeforeItsCause
<1>1. Init => Causal
  BY DEF Init, Mon!Init, Causal, NeverBeforeItsCause
<1>2. Causal => NeverBeforeItsCause
  BY DEF Causal
<1> QED  BY <1>1, <1>2, NextCausal, AlwaysTyping, PTL DEF Spec, SafeSpec

-----------------------------------------------------------------------------
(* The report and the plan                                                 *)

(* The audits a are those of the first n invocations of the plan p.        *)
Audited(n, p, a) == Len(a) = n /\ \A k \in 1 .. n : a[k] = p[k]

(* The trees t and the verifications v are those of the invocations that   *)
(* p allows among its first n; the first call is request 3.                *)
Dispatched(n, p, t, v) ==
  /\ \A k \in 1 .. Len(t) : t[k].inv \in 1 .. n /\ p[t[k].inv] = "allow"
  /\ \A m \in 1 .. n : p[m] = "allow" => \E k \in 1 .. Len(t) : t[k].inv = m
  /\ \A j, k \in 1 .. Len(t) : j < k => t[j].inv < t[k].inv
  /\ Len(v) = Len(t)
  /\ \A k \in 1 .. Len(t) : t[k].id = k + 2 /\ v[k] = k + 2

CoveredTo(n) ==
  /\ Audited(n, plan, audits)
  /\ Dispatched(n, plan, trees, verifications)
  /\ issued = Len(trees) + 2

(* Where run() stands says how far the lists go, and how many requests     *)
(* have been issued: the handshake's two and one for each call.            *)
Covering ==
  /\ pc \in Early => at = 1 /\ audits = <<>> /\ trees = <<>> /\ verifications = <<>>
  /\ pc \in {"begin", "attach", "warmup"} => issued = 0 /\ pending = 0
  /\ pc = "handshake" => issued <= 2 /\ (issued = 2 => pending # 0)
  /\ pc = "plan" => issued = 2
  /\ pc = "next" => at <= Len(plan) + 1 /\ CoveredTo(at - 1)
  /\ pc \in Dispatching =>
       /\ Audited(at, plan, audits) /\ plan[at] = "allow"
       /\ Dispatched(at - 1, plan, trees, verifications)
       /\ issued = Len(trees) + (IF pc = "call" THEN 2 ELSE 3)
  /\ reported => pc \in {"stop", "close", "teardown", "done", "killed"}
  /\ reported /\ pc # "killed" => at = Len(plan) + 1 /\ CoveredTo(at - 1)

LEMMA AuditOne ==
  ASSUME NEW n \in Nat, NEW p \in Seq(Decisions), NEW a \in Seq(Decisions),
         n < Len(p), Audited(n, p, a)
  PROVE  Audited(n + 1, p, Append(a, p[n + 1]))
<1> DEFINE b == Append(a, p[n + 1])
<1>1. Len(a) = n /\ \A k \in 1 .. n : a[k] = p[k]
  BY DEF Audited
<1>2. p[n + 1] \in Decisions
  OBVIOUS
<1>3. Len(b) = n + 1 /\ b[n + 1] = p[n + 1] /\ \A k \in 1 .. n : b[k] = a[k]
  BY <1>1, <1>2
<1> HIDE DEF b
<1>4. \A k \in 1 .. n + 1 : b[k] = p[k]
  BY <1>1, <1>3
<1>5. Audited(n + 1, p, b)
  BY <1>3, <1>4 DEF Audited
<1> QED  BY <1>5 DEF b

LEMMA DenyOne ==
  ASSUME NEW n \in Nat, NEW p, NEW t \in Seq(Trees), NEW v,
         p[n + 1] = "deny", Dispatched(n, p, t, v)
  PROVE  Dispatched(n + 1, p, t, v)
  BY DEF Dispatched

LEMMA AllowOne ==
  ASSUME NEW n \in Nat, NEW p, NEW t \in Seq(Trees), NEW v \in Seq(1 .. MaxId),
         NEW s, [inv |-> n + 1, id |-> Len(t) + 3, events |-> s] \in Trees,
         p[n + 1] = "allow", Dispatched(n, p, t, v), Len(t) + 3 \in 1 .. MaxId
  PROVE  Dispatched(n + 1, p, Append(t, [inv |-> n + 1, id |-> Len(t) + 3, events |-> s]),
                    Append(v, Len(t) + 3))
<1> DEFINE e == [inv |-> n + 1, id |-> Len(t) + 3, events |-> s]
           u == Append(t, e)
           w == Append(v, Len(t) + 3)
<1>1. e.inv = n + 1 /\ e.id = Len(t) + 3 /\ e \in Trees
  OBVIOUS
<1> HIDE DEF e
<1>2. /\ Len(t) \in Nat /\ Len(u) = Len(t) + 1 /\ u[Len(t) + 1] = e
      /\ \A k \in 1 .. Len(t) : u[k] = t[k]
  BY <1>1
<1>3. Len(v) = Len(t)
  BY DEF Dispatched
<1>4. /\ Len(w) = Len(t) + 1 /\ w[Len(t) + 1] = Len(t) + 3
      /\ \A k \in 1 .. Len(t) : w[k] = v[k]
  BY <1>2, <1>3
<1> HIDE DEF u, w
<1>5. \A k \in 1 .. Len(u) : k = Len(t) + 1 \/ k \in 1 .. Len(t)
  BY <1>2
<1>6. \A k \in 1 .. Len(u) : u[k].inv \in 1 .. n + 1 /\ p[u[k].inv] = "allow"
  BY <1>1, <1>2, <1>5 DEF Dispatched
<1>7. ASSUME NEW m \in 1 .. n + 1, p[m] = "allow"
      PROVE  \E k \in 1 .. Len(u) : u[k].inv = m
  <2>1. CASE m = n + 1  BY <2>1, <1>1, <1>2
  <2>2. CASE m \in 1 .. n
    <3>1. PICK k \in 1 .. Len(t) : t[k].inv = m
      BY <1>7, <2>2 DEF Dispatched
    <3> QED  BY <3>1, <1>2
  <2> QED  BY <2>1, <2>2
<1>8. ASSUME NEW j \in 1 .. Len(u), NEW k \in 1 .. Len(u), j < k
      PROVE  u[j].inv < u[k].inv
  <2>1. j \in 1 .. Len(t) /\ u[j] = t[j]
    BY <1>2, <1>8
  <2>2. t[j].inv \in 1 .. n
    BY <2>1 DEF Dispatched
  <2>3. CASE k = Len(t) + 1
    <3>1. u[k].inv = n + 1
      BY <1>1, <1>2, <2>3
    <3>2. u[j].inv \in 1 .. n
      BY <2>1, <2>2
    <3> QED  BY <3>1, <3>2
  <2>4. CASE k \in 1 .. Len(t)  BY <1>2, <1>8, <2>1, <2>4 DEF Dispatched
  <2> QED  BY <1>5, <2>3, <2>4
<1>9. \A k \in 1 .. Len(u) : u[k].id = k + 2 /\ w[k] = k + 2
  BY <1>1, <1>2, <1>4, <1>5 DEF Dispatched
<1>10. Dispatched(n + 1, p, u, w)
  BY <1>2, <1>4, <1>6, <1>7, <1>8, <1>9 DEF Dispatched
<1> QED  BY <1>10 DEF e, u, w

LEMMA InitCovering == Init => Covering
  BY DEF Init, Rpc!Init, Covering, Early, Dispatching

(* The empty lists cover what comes before the first invocation.           *)
LEMMA NothingCovered ==
  ASSUME NEW p PROVE Audited(0, p, <<>>) /\ Dispatched(0, p, <<>>, <<>>)
  BY DEF Audited, Dispatched

LEMMA AuditCovers == Typing /\ Covering /\ Audit => Covering'
<1> SUFFICES ASSUME Typing, Covering, Audit PROVE Covering'
  OBVIOUS
<1>0. /\ at \in Nat /\ at >= 1 /\ at <= Len(plan) /\ Len(plan) \in Nat
      /\ audits \in Seq(Decisions) /\ plan \in Seq(Decisions)
      /\ trees \in Seq(Trees)
  BY DEF Typing, TypeOK, RunTypeOK, Audit
<1>1. pc = "next" /\ ~reported /\ CoveredTo(at - 1)
  BY DEF Audit, Covering
<1>2. /\ UNCHANGED <<plan, trees, verifications, reported, rpc>>
      /\ audits' = Append(audits, plan[at])
  BY DEF Audit
<1>3. Audited(at, plan', audits')
  <2>1. at - 1 \in Nat /\ at - 1 < Len(plan) /\ (at - 1) + 1 = at
    BY <1>0
  <2>2. Audited(at - 1, plan, audits)
    BY <1>1 DEF CoveredTo
  <2>3. Audited((at - 1) + 1, plan, Append(audits, plan[(at - 1) + 1]))
    BY <1>0, <2>1, <2>2, AuditOne
  <2> QED  BY <1>2, <2>1, <2>3
<1>4. CASE plan[at] = "deny" /\ at' = at + 1 /\ pc' = pc
  <2>1. at - 1 \in Nat /\ (at - 1) + 1 = at /\ at' - 1 = at
    BY <1>0, <1>4
  <2>2. Dispatched(at, plan, trees, verifications)
    BY <1>0, <1>1, <1>4, <2>1, DenyOne DEF CoveredTo
  <2>3. CoveredTo(at - 1)'
    BY <1>1, <1>2, <1>3, <2>1, <2>2 DEF CoveredTo, rpc
  <2> QED  BY <1>0, <1>1, <1>2, <1>4, <2>3 DEF Covering, Early, Dispatching
<1>5. CASE plan[at] = "allow" /\ pc' = "call" /\ at' = at
  BY <1>1, <1>2, <1>3, <1>5 DEF Covering, CoveredTo, Early, Dispatching, rpc
<1> QED  BY <1>4, <1>5 DEF Audit

LEMMA VerifyCovers == Typing /\ Covering /\ Verify => Covering'
<1> SUFFICES ASSUME Typing, Covering, Verify PROVE Covering'
  OBVIOUS
<1>0. /\ at \in Nat /\ at >= 1 /\ at <= Len(plan) /\ Len(plan) \in Nat
      /\ trees \in Seq(Trees) /\ Len(trees) \in Nat
      /\ verifications \in Seq(1 .. MaxId)
  BY DEF Typing, TypeOK, RunTypeOK, Place, Verify, Dispatching
<1>1. /\ Audited(at, plan, audits) /\ plan[at] = "allow" /\ ~reported
      /\ Dispatched(at - 1, plan, trees, verifications)
      /\ issued = Len(trees) + 3
  BY DEF Verify, Covering, Dispatching
<1>2. issued \in 1 .. MaxId /\ [inv |-> at, id |-> issued, events |-> drained] \in Trees
  BY RuntimePipelineAssumption
  DEF Verify, Typing, TypeOK, RunTypeOK, RpcTypeOK, Place, Dispatching, Mon!TypeOK,
      Trees, MaxId
<1>3. /\ UNCHANGED <<plan, audits, reported, rpc>> /\ at' = at + 1 /\ pc' = "next"
      /\ trees' = Append(trees, [inv |-> at, id |-> issued, events |-> drained])
      /\ verifications' = Append(verifications, issued)
  BY DEF Verify
<1>4. Dispatched(at, plan', trees', verifications')
  <2>1. at - 1 \in Nat /\ (at - 1) + 1 = at
    BY <1>0
  <2>2. Dispatched((at - 1) + 1, plan,
          Append(trees, [inv |-> (at - 1) + 1, id |-> Len(trees) + 3, events |-> drained]),
          Append(verifications, Len(trees) + 3))
    BY <1>0, <1>1, <1>2, <2>1, AllowOne
  <2> QED  BY <1>1, <1>3, <2>1, <2>2
<1>5. issued' = Len(trees') + 2
  BY <1>0, <1>1, <1>2, <1>3 DEF rpc
<1>6. at' - 1 = at
  BY <1>0, <1>3
<1>7. CoveredTo(at - 1)'
  BY <1>1, <1>3, <1>4, <1>5, <1>6 DEF CoveredTo
<1> QED  BY <1>0, <1>1, <1>3, <1>7 DEF Covering, Early, Dispatching

LEMMA NextCovering == Typing /\ Covering /\ [Next]_vars => Covering'
<1> SUFFICES ASSUME Typing, Covering, [Next]_vars PROVE Covering'
  OBVIOUS
<1>a. /\ at \in Nat /\ at >= 1 /\ Len(plan) \in Nat /\ Len(trees) \in Nat
      /\ issued \in Nat /\ pending \in Nat
  BY DEF Typing, TypeOK, RunTypeOK, RpcTypeOK
<1> USE <1>a
<1> USE DEF Covering, CoveredTo, Early, Dispatching, run, rpc
<1>1. CASE Launch  BY <1>1 DEF Launch
<1>2. CASE Attach  BY <1>2 DEF Attach
<1>3. CASE AttachFails  BY <1>3 DEF AttachFails, Raise
<1>4. CASE Drain  BY <1>4 DEF Drain, Draining
<1>5. CASE DrainNothing  BY <1>5 DEF DrainNothing, Draining
<1>6. CASE WarmedUp  BY <1>6 DEF WarmedUp
<1>7. CASE Handshake  BY <1>7 DEF Handshake, Rpc!Issue
<1>8. CASE HandshakeAnswered  BY <1>8 DEF HandshakeAnswered, Rpc!Return
<1>9. CASE HandshakeFails  BY <1>9 DEF HandshakeFails, Raise
<1>10. CASE Plan
  <2>1. /\ Audited(0, plan', audits') /\ Dispatched(0, plan', trees', verifications')
        /\ Len(trees) = 0
    BY <1>10, NothingCovered DEF Plan
  <2>2. Len(plan') \in Nat
    BY <1>10, RuntimePipelineAssumption, NextRun DEF RunTypeOK
  <2> QED  BY <1>10, <2>1, <2>2 DEF Plan
<1>11. CASE PlanFails  BY <1>11 DEF PlanFails, Raise
<1>12. CASE Audit  BY <1>12, AuditCovers
<1>13. CASE Send  BY <1>13 DEF Send, Rpc!Issue
<1>14. CASE Receive  BY <1>14 DEF Receive, Rpc!Return, Rpc!Fail
<1>15. CASE ReceiveBreaks  BY <1>15 DEF ReceiveBreaks, Raise
<1>16. CASE Observed  BY <1>16 DEF Observed
<1>17. CASE Verify  BY <1>17, VerifyCovers
<1>18. CASE VerifyFails  BY <1>18 DEF VerifyFails, Raise
<1>19. CASE Report  BY <1>19 DEF Report
<1>20. CASE ReportFails  BY <1>20 DEF ReportFails, Raise
<1>21. CASE StopMonitor  BY <1>21 DEF StopMonitor
<1>22. CASE CloseClient  BY <1>22 DEF CloseClient
<1>23. CASE Teardown  BY <1>23 DEF Teardown
<1>24. CASE Killed  BY <1>24 DEF Killed
<1>25. ASSUME NEW e \in Events, Acts(e) PROVE Covering'
  BY <1>25 DEF Acts
<1>26. ASSUME NEW i \in 1 .. MaxId, Serves(i) PROVE Covering'
  BY <1>26 DEF Serves, Rpc!Serve
<1>27. CASE UNCHANGED vars  BY <1>27 DEF vars
<1> QED
  BY <1>1, <1>2, <1>3, <1>4, <1>5, <1>6, <1>7, <1>8, <1>9, <1>10, <1>11, <1>12,
     <1>13, <1>14, <1>15, <1>16, <1>17, <1>18, <1>19, <1>20, <1>21, <1>22, <1>23,
     <1>24, <1>25, <1>26, <1>27
  DEF Next, RunStep, ServerStep

LEMMA CoveringComplete == Typing /\ Covering => Complete
<1> SUFFICES ASSUME Typing, Covering, pc = "next" \/ (reported /\ pc # "killed")
             PROVE  Complete
  BY DEF Complete
<1>1. /\ at \in Nat /\ at >= 1 /\ at - 1 <= Len(plan) /\ plan \in Seq(Decisions)
      /\ audits \in Seq(Decisions) /\ trees \in Seq(Trees)
      /\ verifications \in Seq(1 .. MaxId)
  BY DEF Typing, TypeOK, RunTypeOK, Covering
<1>2. /\ CoveredTo(at - 1) /\ (reported => at = Len(plan) + 1)
  BY DEF Covering, Dispatching
<1>3. DOMAIN trees = 1 .. Len(trees)
  BY <1>1
<1>4. audits = SubSeq(plan, 1, at - 1)
  <2>1. Len(audits) = at - 1 /\ \A k \in 1 .. at - 1 : audits[k] = plan[k]
    BY <1>2 DEF CoveredTo, Audited
  <2>2. audits = [k \in 1 .. at - 1 |-> plan[k]]
    BY <1>1, <2>1
  <2> QED  BY <1>1, <2>2
<1>5. verifications = [k \in DOMAIN trees |-> trees[k].id]
  BY <1>1, <1>2, <1>3 DEF CoveredTo, Dispatched
<1>6. {trees[k].inv : k \in DOMAIN trees} = {n \in 1 .. at - 1 : plan[n] = "allow"}
  <2>1. ASSUME NEW k \in DOMAIN trees
        PROVE  trees[k].inv \in {n \in 1 .. at - 1 : plan[n] = "allow"}
    BY <1>2, <1>3 DEF CoveredTo, Dispatched
  <2>2. ASSUME NEW n \in 1 .. at - 1, plan[n] = "allow"
        PROVE  \E k \in DOMAIN trees : trees[k].inv = n
    BY <1>2, <1>3, <2>2 DEF CoveredTo, Dispatched
  <2> QED  BY <2>1, <2>2
<1> QED  BY <1>2, <1>3, <1>4, <1>5, <1>6 DEF Complete, CoveredTo, Dispatched

(* A report is of the whole plan: as many audits as invocations, and one   *)
(* tree and one verification for each that was allowed and for no other,   *)
(* whatever was answered, given up or left unanswered between.             *)
THEOREM CompleteHolds == Spec => []Complete
  BY InitCovering, NextCovering, CoveringComplete, AlwaysTyping, PTL DEF Spec, SafeSpec

-----------------------------------------------------------------------------
(* What the pipeline asks of its client                                    *)

(* Whatever the pipeline, the server and a signal do, the requests go      *)
(* through the port that the client implements (McpClientProofs,           *)
(* ImplementsPort): one at a time, none reused, each ended once, also when *)
(* the handshake fails between its two requests or the process is killed   *)
(* while one is out.                                                       *)
THEOREM UsesPort == Spec => Rpc!SafeSpec
<1>1. Init => Rpc!Init
  BY DEF Init
<1>2. ASSUME [Next]_vars PROVE [Rpc!Next]_(Rpc!portVars)
  <2>1. RpcStep
    BY <1>2, Parts
  <2>2. UNCHANGED rpc => UNCHANGED Rpc!portVars
    BY DEF rpc, Rpc!portVars
  <2> QED  BY <2>1, <2>2 DEF RpcStep, Rpc!Next, Rpc!Ids
<1> QED  BY <1>1, <1>2, PTL DEF Spec, SafeSpec, Rpc!SafeSpec

-----------------------------------------------------------------------------
(* The sandbox, which the pipeline has as one variable                     *)

(* No programs are attached and no client is open before launch() has      *)
(* returned or after teardown() has: what the server does then (Sandbox    *)
(* has it run before the one, and the rest of its group after the other)   *)
(* is in no tree and answers no request.                                   *)
OnlyWhileUp == sandbox # "up" => bpf # "open" /\ client # "open"

Bracketed ==
  /\ pc \notin {"begin", "done", "killed"} => sandbox = "up"
  /\ pc \in {"begin", "close", "teardown", "done", "killed"} => bpf = "none"
  /\ pc \in {"begin", "attach", "warmup", "teardown", "done", "killed"} => client # "open"

LEMMA NextBracketed == Bracketed /\ [Next]_vars => Bracketed'
<1> SUFFICES ASSUME Bracketed, [Next]_vars PROVE Bracketed'
  OBVIOUS
<1> USE DEF Bracketed, Draining, run, history, mon
<1>1. CASE Launch \/ Attach \/ AttachFails
  BY <1>1 DEF Launch, Attach, AttachFails, Raise, Mon!Start, Mon!StartFails
<1>2. CASE Drain \/ DrainNothing \/ WarmedUp \/ Observed
  BY <1>2 DEF Drain, DrainNothing, WarmedUp, Observed, Mon!EnterDrain, Mon!Poll,
              Mon!PollNothing, Mon!Take
<1>3. CASE Handshake \/ HandshakeAnswered \/ HandshakeFails
  BY <1>3 DEF Handshake, HandshakeAnswered, HandshakeFails, Raise
<1>4. CASE Plan \/ PlanFails \/ Audit
  BY <1>4 DEF Plan, PlanFails, Audit, Raise, Mon!Start
<1>5. CASE Send \/ Receive \/ ReceiveBreaks
  BY <1>5 DEF Send, Receive, ReceiveBreaks, Raise
<1>6. CASE Verify \/ VerifyFails \/ Report \/ ReportFails
  BY <1>6 DEF Verify, VerifyFails, Report, ReportFails, Raise
<1>7. CASE StopMonitor \/ CloseClient \/ Teardown
  BY <1>7 DEF StopMonitor, CloseClient, Teardown, Mon!Stop
<1>8. CASE Killed  BY <1>8 DEF Killed, Mon!Lost
<1>9. CASE ServerStep  BY <1>9 DEF ServerStep, Acts, Serves, Mon!Submit
<1>10. CASE UNCHANGED vars  BY <1>10 DEF vars
<1> QED
  BY <1>1, <1>2, <1>3, <1>4, <1>5, <1>6, <1>7, <1>8, <1>9, <1>10 DEF Next, RunStep

(* The finally block undoes in the right order whatever raised, and a      *)
(* signal undoes the rest: the monitor and the client are never without    *)
(* their sandbox.                                                          *)
THEOREM OnlyWhileUpHolds == Spec => []OnlyWhileUp
<1>1. Init => Bracketed
  BY DEF Init, Bracketed, Mon!Init
<1>2. Bracketed => OnlyWhileUp
  BY DEF Bracketed, OnlyWhileUp
<1> QED  BY <1>1, <1>2, NextBracketed, PTL DEF Spec, SafeSpec

-----------------------------------------------------------------------------
(* The sandbox that the pipeline launches and tears down: the proofs about *)
(* process_provider.py, for any number of processes.  What makes the       *)
(* properties inductive is where the leader stands at each line of         *)
(* launch() and teardown() (LeaderAt), and that a group hit by SIGKILL     *)
(* runs no further instruction (GroupDoomed).                              *)

(* What each line of launch() and teardown() may take for granted.         *)
LeaderAt ==
  /\ line \in {"check", "stderr", "spawn"} => state[Leader] = "unborn"
  /\ line \in {"exec", "probe", "verify", "serving", "kill", "wait", "killed"}
       => state[Leader] # "unborn"
  /\ state[Leader] = "starting" => line = "exec"
  /\ line = "wait" => ~reaped
  /\ line \in {"close", "sweep", "move", "done"}
       => \/ state[Leader] = "unborn"
          \/ state[Leader] = "dead" /\ reaped
          \/ forced /\ Leader \in doomed
  /\ line = "killed" => forced
  /\ state[Leader] # "unborn" => Leader \in group
  /\ \A p \in group : state[p] # "unborn"

(* After SIGKILL, for good: whoever of the group has not died is about to, *)
(* and forks nobody.                                                       *)
GroupDoomed ==
  forced =>
    /\ line \in {"killed", "close", "sweep", "move", "done"}
    /\ group \intersect Running \subseteq doomed

BoxInv == SandboxTypeOK /\ LeaderAt /\ Contained /\ GroupDoomed

LEMMA LeaderIsProc == Leader \in Procs /\ Children \subseteq Procs
  BY DEF Procs

LEMMA BoxInit == SandboxInit => BoxInv
  BY LeaderIsProc
  DEF SandboxInit, BoxInv, SandboxTypeOK, LeaderAt, Contained, GroupDoomed, Running,
      Procs

LEMMA BoxNext ==
  ASSUME BoxInv, [SandboxNext]_sandboxVars
  PROVE  BoxInv'
<1> USE LeaderIsProc, SandboxAssumption
<1> USE DEF BoxInv, SandboxTypeOK, LeaderAt, Contained, GroupDoomed,
            Running, Awake, Doom, Undo, mcpaegis, server
<1>1. CASE LaunchStep
  <2>1. CASE LaunchRefused  BY <2>1 DEF LaunchRefused
  <2>2. CASE CreateCgroup  BY <2>2 DEF CreateCgroup
  <2>3. CASE OpenStderr  BY <2>3 DEF OpenStderr
  <2>4. CASE OpenStderrFails  BY <2>4 DEF OpenStderrFails
  <2>5. CASE Spawn  BY <2>5 DEF Spawn
  <2>6. CASE SpawnFails  BY <2>6 DEF SpawnFails
  <2>7. CASE PopenReturns  BY <2>7 DEF PopenReturns
  <2>8. CASE WaitAlive  BY <2>8 DEF WaitAlive
  <2>9. CASE PidInCgroup  BY <2>9 DEF PidInCgroup
  <2> QED  BY <1>1, <2>1, <2>2, <2>3, <2>4, <2>5, <2>6, <2>7, <2>8, <2>9 DEF LaunchStep
<1>2. CASE ChildStep
  <2>1. CASE EnterCgroup  BY <2>1 DEF EnterCgroup
  <2>2. CASE EnterCgroupFails  BY <2>2 DEF EnterCgroupFails
  <2>3. CASE Exec  BY <2>3 DEF Exec
  <2>4. CASE ExecFails  BY <2>4 DEF ExecFails
  <2> QED  BY <1>2, <2>1, <2>2, <2>3, <2>4 DEF ChildStep
<1>3. CASE TeardownCalled  BY <1>3 DEF TeardownCalled
<1>4. CASE TeardownStep
  <2>1. CASE Term  BY <2>1 DEF Term
  <2>2. CASE LeaderExited  BY <2>2 DEF LeaderExited
  <2>3. CASE Kill  BY <2>3 DEF Kill
  <2>4. CASE CloseStderr  BY <2>4 DEF CloseStderr
  <2>5. CASE ListCgroup  BY <2>5 DEF ListCgroup
  <2>6. ASSUME NEW p \in Procs, Move(p) PROVE BoxInv'
    BY <2>6 DEF Move
  <2>7. CASE Rmdir  BY <2>7 DEF Rmdir
  <2>8. CASE WaitExpires  BY <2>8 DEF WaitExpires
  <2> QED  BY <1>4, <2>1, <2>2, <2>3, <2>4, <2>5, <2>6, <2>7, <2>8 DEF TeardownStep
<1>5. CASE ProcessStep
  <2>1. ASSUME NEW p \in Procs, NEW c \in Children, Fork(p, c) PROVE BoxInv'
    <3>1. SandboxTypeOK' /\ LeaderAt' /\ Contained'
      BY <2>1 DEF Fork
    <3>2. GroupDoomed'
      BY <2>1 DEF Fork
    <3> QED  BY <3>1, <3>2
  <2>2. ASSUME NEW p \in Procs, Setsid(p) PROVE BoxInv'
    BY <2>2 DEF Setsid
  <2>3. ASSUME NEW p \in Procs, IgnoreTerm(p) PROVE BoxInv'
    BY <2>3 DEF IgnoreTerm
  <2>4. ASSUME NEW p \in Procs, Exit(p) PROVE BoxInv'
    BY <2>4 DEF Exit
  <2> QED  BY <1>5, <2>1, <2>2, <2>3, <2>4 DEF ProcessStep
<1>6. CASE UNCHANGED sandboxVars  BY <1>6 DEF sandboxVars
<1> QED  BY <1>1, <1>2, <1>3, <1>4, <1>5, <1>6 DEF SandboxNext

LEMMA BoxInductive ==
  SandboxSpec => []BoxInv
<1>1. BoxInv /\ [SandboxNext]_sandboxVars => BoxInv'
  BY BoxNext
<1> QED  BY <1>1, BoxInit, PTL DEF SandboxSpec, SandboxSafeSpec

(* The variables have their types, and a collected exit status is that of  *)
(* a dead leader.                                                          *)
THEOREM BoxTypeCorrect ==
  SandboxSpec => []SandboxTypeOK
  BY BoxInductive, PTL DEF BoxInv

(* However many processes the server forks, none runs outside the nested   *)
(* cgroup before teardown moves it out.                                    *)
THEOREM ContainedHolds ==
  SandboxSpec => []Contained
  BY BoxInductive, PTL DEF BoxInv

(* launch() leaves no leader behind when it raises, nor teardown() when it *)
(* returns, but for one that SIGKILL has yet to end.                       *)
THEOREM LeaderGoneHolds ==
  SandboxSpec => []LeaderGone
<1>1. BoxInv => LeaderGone
  BY DEF BoxInv, LeaderAt, LeaderGone
<1> QED  BY <1>1, BoxInductive, PTL

(* After SIGKILL no process of the group runs an instruction of its own    *)
(* again, whatever forked before.                                          *)
THEOREM KillIsCompleteHolds ==
  SandboxSpec => []KillIsComplete
<1>1. BoxInv => KillIsComplete
  BY DEF BoxInv, GroupDoomed, Awake, Running, KillIsComplete
<1> QED  BY <1>1, BoxInductive, PTL

(* No signal is sent to a group whose leader has been reaped.              *)
THEOREM NoSignalAfterReapingHolds ==
  SandboxSpec => NoSignalAfterReaping
<1>1. BoxInv /\ [SandboxNext]_sandboxVars
        => [(line = "kill" /\ line' = "wait") \/ forced # forced' => ~reaped]_sandboxVars
  <2> SUFFICES ASSUME BoxInv, [SandboxNext]_sandboxVars,
                      (line = "kill" /\ line' = "wait") \/ forced # forced'
               PROVE  ~reaped
    OBVIOUS
  <2> USE DEF BoxInv, SandboxTypeOK, LeaderAt, mcpaegis, server
  <2>1. CASE LaunchStep
    BY <2>1 DEF LaunchStep, LaunchRefused, CreateCgroup, OpenStderr,
                OpenStderrFails, Spawn, SpawnFails, PopenReturns,
                WaitAlive, PidInCgroup, Undo
  <2>2. CASE ChildStep
    BY <2>2 DEF ChildStep, EnterCgroup, EnterCgroupFails, Exec,
                ExecFails, Undo
  <2>3. CASE TeardownCalled  BY <2>3 DEF TeardownCalled
  <2>4. CASE TeardownStep
    BY <2>4 DEF TeardownStep, Term, LeaderExited, Kill, WaitExpires, CloseStderr,
                ListCgroup, Move, Rmdir
  <2>5. CASE ProcessStep
    BY <2>5 DEF ProcessStep, Fork, Setsid, IgnoreTerm, Exit
  <2>6. CASE UNCHANGED sandboxVars  BY <2>6 DEF sandboxVars
  <2> QED  BY <2>1, <2>2, <2>3, <2>4, <2>5, <2>6 DEF SandboxNext
<1> QED  BY <1>1, BoxInductive, PTL DEF SandboxSpec, SandboxSafeSpec, NoSignalAfterReaping
=============================================================================
