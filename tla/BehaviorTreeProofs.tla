------------------------- MODULE BehaviorTreeProofs -------------------------
(***************************************************************************)
(* TypeOK, NothingHidden, TrueParent and ShellShown are invariants of      *)
(* BehaviorTree, for any number of processes and events.  Ids are given    *)
(* out in order, so a parent has the lower one: every chain of parents     *)
(* ends.  Descent is what is inductive: each event names an ancestor as    *)
(* the parent, whenever it happened, and ancestors never change.           *)
(***************************************************************************)
EXTENDS BehaviorTree, SequenceTheorems, WellFoundedInduction, TLAPS

(* An event names real ancestors.                                          *)
Truthful(e) ==
  /\ e.pid <= lastPid
  /\ e.ppid = Outside \/ e.ppid \in lineage[e.pid]
  /\ e.kind = "fork" =>
       \/ e.child = NoChild
       \/ e.child \in 1 .. lastPid /\ e.pid \in lineage[e.child]

Descent ==
  /\ \A p \in Pids : \A q \in lineage[p] : q < p /\ lineage[q] \subseteq lineage[p]
  /\ \A p \in Pids : p > lastPid => lineage[p] = {}
  /\ \A p \in alive : parent[p] = Outside \/ parent[p] \in lineage[p]
  /\ \A i \in DOMAIN window : Truthful(window[i])

IInv == TypeOK /\ Descent

-----------------------------------------------------------------------------
(* Sequences and numbers                                                   *)

(* What a sequence with one element in the middle consists of.             *)
LEMMA Joined ==
  ASSUME NEW E, NEW a \in Seq(E), NEW b \in Seq(E), NEW e \in E
  PROVE  /\ a \o <<e>> \o b \in Seq(E) /\ Len(a \o <<e>> \o b) = Len(a) + 1 + Len(b)
         /\ \A j \in DOMAIN (a \o <<e>> \o b) :
              \/ (a \o <<e>> \o b)[j] = e
              \/ \E k \in DOMAIN a : (a \o <<e>> \o b)[j] = a[k]
              \/ \E k \in DOMAIN b : (a \o <<e>> \o b)[j] = b[k]
<1>0. <<e>> \in Seq(E) /\ Len(<<e>>) = 1 /\ <<e>>[1] = e
  OBVIOUS
<1>1. /\ a \o <<e>> \in Seq(E) /\ Len(a \o <<e>>) = Len(a) + 1
      /\ \A j \in 1 .. Len(a) + 1 : (a \o <<e>>)[j] = IF j <= Len(a) THEN a[j] ELSE <<e>>[j - Len(a)]
  BY <1>0, ConcatProperties, Zenon
<1> DEFINE c == a \o <<e>>
<1> HIDE DEF c
<1>2. /\ c \o b \in Seq(E) /\ Len(c \o b) = Len(c) + Len(b)
      /\ \A j \in 1 .. Len(c) + Len(b) : (c \o b)[j] = IF j <= Len(c) THEN c[j] ELSE b[j - Len(c)]
  BY <1>1, ConcatProperties, Zenon DEF c
<1> DEFINE v == c \o b
<1> HIDE DEF v
<1>3. v \in Seq(E) /\ Len(v) = Len(a) + 1 + Len(b)
  BY <1>1, <1>2 DEF v, c
<1>4. ASSUME NEW j \in DOMAIN v
      PROVE  v[j] = e \/ (\E k \in DOMAIN a : v[j] = a[k]) \/ (\E k \in DOMAIN b : v[j] = b[k])
  <2>0. j \in 1 .. Len(c) + Len(b) /\ Len(c) = Len(a) + 1 /\ Len(a) \in Nat /\ Len(b) \in Nat
    BY <1>1, <1>3 DEF c
  <2>1. CASE j <= Len(a)
    <3>1. v[j] = a[j] /\ j \in DOMAIN a
      BY <2>0, <2>1, <1>1, <1>2 DEF v, c
    <3> QED BY <3>1
  <2>2. CASE j = Len(a) + 1
    <3>1. j - Len(a) = 1 /\ ~ (j <= Len(a)) /\ j <= Len(c)
      BY <2>0, <2>2
    <3>2. v[j] = c[j]
      BY <2>0, <3>1, <1>2 DEF v
    <3>3. c[j] = <<e>>[j - Len(a)]
      BY <2>0, <2>2, <3>1, <1>1 DEF c
    <3> QED BY <1>0, <3>1, <3>2, <3>3
  <2>3. CASE j > Len(a) + 1
    <3>1. v[j] = b[j - Len(c)] /\ j - Len(c) \in DOMAIN b
      BY <2>0, <2>3, <1>2 DEF v
    <3> QED BY <3>1
  <2> QED BY <2>0, <2>1, <2>2, <2>3
<1> QED BY <1>3, <1>4 DEF v, c

(* An insertion adds its element and no other.                             *)
LEMMA Inserted ==
  ASSUME NEW E, NEW w \in Seq(E), NEW e \in E, NEW i \in 1 .. Len(w) + 1
  PROVE  /\ InsertAt(w, i, e) \in Seq(E) /\ Len(InsertAt(w, i, e)) = Len(w) + 1
         /\ \A j \in DOMAIN InsertAt(w, i, e) :
              InsertAt(w, i, e)[j] = e \/ \E k \in DOMAIN w : InsertAt(w, i, e)[j] = w[k]
<1> DEFINE a == SubSeq(w, 1, i - 1)
           b == SubSeq(w, i, Len(w))
           v == a \o <<e>> \o b
<1>0. Len(w) \in Nat /\ i - 1 \in Int /\ \A j \in 1 .. Len(w) : w[j] \in E
  OBVIOUS
<1>1. /\ a \in Seq(E) /\ Len(a) = i - 1 /\ \A j \in DOMAIN a : a[j] = w[j] /\ j \in DOMAIN w
  BY <1>0, SubSeqProperties
<1>2. /\ b \in Seq(E) /\ Len(b) = Len(w) - i + 1
      /\ \A j \in DOMAIN b : b[j] = w[i + j - 1] /\ i + j - 1 \in DOMAIN w
  BY <1>0, SubSeqProperties
<1>3. InsertAt(w, i, e) = v
  BY DEF InsertAt
<1> HIDE DEF a, b
<1>4. /\ v \in Seq(E) /\ Len(v) = Len(a) + 1 + Len(b)
      /\ \A j \in DOMAIN v :
           v[j] = e \/ (\E k \in DOMAIN a : v[j] = a[k]) \/ (\E k \in DOMAIN b : v[j] = b[k])
  <2>1. a \in Seq(E) /\ b \in Seq(E)
    BY <1>1, <1>2
  <2> QED BY <2>1, Joined
<1> HIDE DEF v
<1>5. Len(v) = Len(w) + 1
  BY <1>0, <1>1, <1>2, <1>4
<1>6. \A j \in DOMAIN v : v[j] = e \/ \E k \in DOMAIN w : v[j] = w[k]
  BY <1>1, <1>2, <1>4, Zenon
<1> QED BY <1>3, <1>4, <1>5, <1>6, Zenon

(* A set of natural numbers has a least element.                           *)
LEMMA Least ==
  ASSUME NEW S \in SUBSET Nat, S # {}
  PROVE  \E m \in S : \A n \in S : m <= n
<1> DEFINE R == OpToRel(<, Nat)
<1>1. IsWellFoundedOn(R, Nat)
  BY NatLessThanWellFounded
<1> HIDE DEF R
<1>2. PICK m \in S : \A n \in S : ~ (<<n, m>> \in R)
  BY <1>1, WFMin
<1>3. \A n \in S : ~ (n < m)
  BY <1>2 DEF R, OpToRel
<1> QED BY <1>3

(* The earliest and the latest of some positions are among them.           *)
LEMMA EarliestIsOne ==
  ASSUME NEW S \in SUBSET Nat, S # {}
  PROVE  Earliest(S) \in S
BY Least DEF Earliest

LEMMA LatestIsOne ==
  ASSUME NEW n \in Nat, NEW S \in SUBSET (1 .. n), S # {}
  PROVE  Latest(S) \in S
<1> DEFINE T == {n - i : i \in S}
<1>1. T \in SUBSET Nat /\ T # {}
  <2>1. \A i \in S : n - i \in Nat
    OBVIOUS
  <2> QED BY <2>1
<1>2. PICK t \in T : \A u \in T : t <= u
  BY <1>1, Least
<1>3. PICK m \in S : t = n - m
  OBVIOUS
<1>4. \A j \in S : j <= m
  <2> SUFFICES ASSUME NEW j \in S PROVE j <= m
    OBVIOUS
  <2>1. n - m <= n - j
    BY <1>2, <1>3
  <2> QED BY <2>1
<1> QED BY <1>4 DEF Latest

-----------------------------------------------------------------------------
LEMMA Constants == MaxPid \in Nat \ {0} /\ NoChild = MaxPid + 1 /\ Pids = 1 .. MaxPid
BY BehaviorTreeAssumption DEF NoChild, Pids

LEMMA Initial == Init => IInv
<1> SUFFICES ASSUME Init PROVE IInv
  OBVIOUS
<1>1. TypeOK
  <2>1. window \in Seq(Events) /\ Len(window) <= MaxEvents
    BY BehaviorTreeAssumption DEF Init
  <2>2. lastPid \in Pids /\ alive \subseteq 1 .. lastPid /\ seeds \subseteq 1 .. lastPid
    BY Constants DEF Init
  <2>3. /\ parent \in [alive -> 0 .. MaxPid] /\ comm \in [alive -> Names]
        /\ lineage \in [Pids -> SUBSET Pids]
    BY Constants DEF Init, Outside
  <2>4. seeded \in BOOLEAN
    BY DEF Init
  <2> QED BY <2>1, <2>2, <2>3, <2>4 DEF TypeOK
<1>2. Descent
  BY DEF Init, Descent, Outside
<1> QED BY <1>1, <1>2 DEF IInv

(* An event that enters the window, or does not, keeps its type.           *)
LEMMA SubmitType ==
  ASSUME TypeOK, NEW e \in Events, Submit(e)
  PROVE  window' \in Seq(Events) /\ Len(window') <= MaxEvents
<1>1. CASE UNCHANGED window
  BY <1>1 DEF TypeOK
<1>2. CASE Len(window) < MaxEvents /\ \E i \in 1 .. Len(window) + 1 : window' = InsertAt(window, i, e)
  <2>1. PICK i \in 1 .. Len(window) + 1 : window' = InsertAt(window, i, e)
    BY <1>2
  <2>2. window' \in Seq(Events) /\ Len(window') = Len(window) + 1
    BY <2>1, Inserted DEF TypeOK
  <2> QED BY <1>2, <2>2, BehaviorTreeAssumption DEF TypeOK
<1> QED BY <1>1, <1>2 DEF Submit

(* ... and tells the truth if it does and the ancestors stay.              *)
LEMMA SubmitTruthful ==
  ASSUME TypeOK, Descent, NEW e \in Events, Submit(e), Truthful(e)',
         lastPid' \in Pids, lastPid <= lastPid',
         \A p \in 1 .. lastPid : lineage'[p] = lineage[p]
  PROVE  (\A i \in DOMAIN window : Truthful(window[i]))'
<1>1. ASSUME NEW d \in Events, Truthful(d)
      PROVE  Truthful(d)'
  <2>1. d.pid \in 1 .. lastPid
    BY <1>1, Constants DEF Truthful, Events, TypeOK
  <2>2. lineage'[d.pid] = lineage[d.pid] /\ d.pid <= lastPid'
    BY <2>1, Constants DEF TypeOK
  <2>3. d.child \in 1 .. lastPid => d.child \in 1 .. lastPid' /\ lineage'[d.child] = lineage[d.child]
    BY Constants DEF TypeOK
  <2> QED BY <1>1, <2>2, <2>3 DEF Truthful
<1>2. \A i \in DOMAIN window : window[i] \in Events /\ Truthful(window[i])
  BY DEF Descent, TypeOK
<1>3. CASE UNCHANGED window
  <2> SUFFICES ASSUME NEW i \in DOMAIN window' PROVE Truthful(window[i])'
    OBVIOUS
  <2>1. PICK d \in Events : d = window[i] /\ Truthful(d)
    BY <1>2, <1>3
  <2> QED BY <1>1, <1>3, <2>1 DEF Truthful
<1>4. CASE \E i \in 1 .. Len(window) + 1 : window' = InsertAt(window, i, e)
  <2>1. PICK i \in 1 .. Len(window) + 1 : window' = InsertAt(window, i, e)
    BY <1>4
  <2> SUFFICES ASSUME NEW j \in DOMAIN window' PROVE Truthful(window[j])'
    OBVIOUS
  <2>2. window'[j] = e \/ \E k \in DOMAIN window : window'[j] = window[k]
    BY <2>1, Inserted DEF TypeOK
  <2>3. CASE window'[j] = e
    BY <2>3 DEF Truthful
  <2>4. CASE \E k \in DOMAIN window : window'[j] = window[k]
    <3>1. PICK d \in Events : d = window'[j] /\ Truthful(d)
      BY <1>2, <2>4
    <3> QED BY <1>1, <3>1 DEF Truthful
  <2> QED BY <2>2, <2>3, <2>4
<1> QED BY <1>3, <1>4 DEF Submit

LEMMA EventType ==
  ASSUME TypeOK, NEW p \in alive, NEW k \in Kinds, NEW w \in Details[k], NEW c \in 0 .. NoChild
  PROVE  Event(k, p, w, c) \in Events
<1>1. p \in Pids /\ parent[p] \in 0 .. MaxPid /\ comm[p] \in Names
  BY Constants DEF TypeOK
<1>2. w \in UNION {Details[h] : h \in Kinds}
  OBVIOUS
<1> QED BY <1>1, <1>2 DEF Event, Events

(* An event of a live process is true when it is made.                     *)
LEMMA EventTruthful ==
  ASSUME TypeOK, Descent, NEW p \in alive, NEW k, NEW w, NEW c,
         k = "fork" => c = NoChild
  PROVE  Truthful(Event(k, p, w, c))
<1>1. p <= lastPid /\ (parent[p] = Outside \/ parent[p] \in lineage[p])
  BY Constants DEF TypeOK, Descent
<1> QED BY <1>1 DEF Event, Truthful

LEMMA SomeKinds ==
  /\ Touches \subseteq Kinds \ {"fork"} /\ "exec" \in Kinds /\ "fork" \in Kinds
  /\ Details["fork"] = {"none"} /\ Details["exec"] = Images
BY BehaviorTreeAssumption DEF Kinds, Details

(* A step that makes an event and leaves the ancestors alone.              *)
LEMMA Quiet ==
  ASSUME IInv, NEW e \in Events, Truthful(e), Submit(e),
         UNCHANGED <<lastPid, alive, parent, lineage, seeded, seeds>>,
         comm' \in [alive -> Names]
  PROVE  IInv'
<1>1. TypeOK'
  BY SubmitType DEF IInv, TypeOK
<1>2. Truthful(e)'
  BY DEF Truthful
<1>3. (\A i \in DOMAIN window : Truthful(window[i]))'
  <2>1. lastPid' \in Pids /\ lastPid <= lastPid' /\ \A p \in 1 .. lastPid : lineage'[p] = lineage[p]
    BY Constants DEF IInv, TypeOK
  <2> QED BY <1>2, <2>1, SubmitTruthful DEF IInv
<1>4. Descent'
  BY <1>3 DEF IInv, Descent
<1> QED BY <1>1, <1>4 DEF IInv

LEMMA StepTouch ==
  ASSUME IInv, NEW p \in Pids, Touch(p)
  PROVE  IInv'
<1>1. PICK k \in Touches : \E w \in Details[k] : Submit(Event(k, p, w, 0))
  BY DEF Touch
<1>2. PICK w \in Details[k] : Submit(Event(k, p, w, 0))
  BY <1>1
<1>3. Event(k, p, w, 0) \in Events
  BY EventType, SomeKinds, Constants DEF Touch, IInv
<1>4. Truthful(Event(k, p, w, 0))
  BY EventTruthful, SomeKinds DEF Touch, IInv
<1> QED BY <1>2, <1>3, <1>4, Quiet DEF Touch, IInv, TypeOK, server

LEMMA StepExec ==
  ASSUME IInv, NEW p \in Pids, Exec(p)
  PROVE  IInv'
<1>1. PICK w \in Details["exec"] :
        Submit(Event("exec", p, w, 0)) /\ comm' \in {comm, [comm EXCEPT ![p] = w]}
  BY DEF Exec
<1>2. Event("exec", p, w, 0) \in Events
  BY EventType, SomeKinds, Constants DEF Exec, IInv
<1>3. Truthful(Event("exec", p, w, 0))
  BY EventTruthful DEF Exec, IInv
<1>4. w \in Names
  BY SomeKinds, BehaviorTreeAssumption DEF Names
<1>5. comm' \in [alive -> Names]
  BY <1>1, <1>4 DEF IInv, TypeOK
<1> QED BY <1>1, <1>2, <1>3, <1>5, Quiet DEF Exec

LEMMA StepForkFails ==
  ASSUME IInv, NEW p \in Pids, ForkFails(p)
  PROVE  IInv'
<1>1. Event("fork", p, "none", NoChild) \in Events
  BY EventType, SomeKinds, Constants DEF ForkFails, IInv
<1>2. Truthful(Event("fork", p, "none", NoChild))
  BY EventTruthful DEF ForkFails, IInv
<1> QED BY <1>1, <1>2, Quiet DEF ForkFails, IInv, TypeOK, server

(* A new id below the process that asked for it.                           *)
LEMMA NewId ==
  ASSUME IInv, NEW p \in alive, lastPid < MaxPid, lastPid' = lastPid + 1,
         lineage' = [lineage EXCEPT ![lastPid'] = lineage[p] \union {p}],
         Submit(Event("fork", p, "none", lastPid'))
  PROVE  /\ lastPid' \in Pids /\ lineage' \in [Pids -> SUBSET Pids]
         /\ window' \in Seq(Events) /\ Len(window') <= MaxEvents
         /\ \A q \in Pids : \A r \in lineage'[q] : r < q /\ lineage'[r] \subseteq lineage'[q]
         /\ \A q \in Pids : q > lastPid' => lineage'[q] = {}
         /\ (\A i \in DOMAIN window : Truthful(window[i]))'
         /\ lineage'[lastPid'] = lineage[p] \union {p}
         /\ \A q \in 1 .. lastPid : lineage'[q] = lineage[q]
<1>0. /\ lastPid \in Nat /\ lastPid' \in Pids /\ p \in Pids /\ p <= lastPid
      /\ lineage \in [Pids -> SUBSET Pids]
  BY Constants DEF IInv, TypeOK
<1>1. \A q \in 1 .. lastPid : lineage'[q] = lineage[q]
  BY <1>0, Constants
<1>2. lineage' \in [Pids -> SUBSET Pids] /\ lineage'[lastPid'] = lineage[p] \union {p}
  BY <1>0
<1>3. PICK e \in Events : e = Event("fork", p, "none", lastPid')
  BY <1>0, EventType, SomeKinds, Constants DEF IInv
<1>4. Truthful(e)' /\ Submit(e)
  <2>1. parent[p] = Outside \/ parent[p] \in lineage[p]
    BY DEF IInv, Descent
  <2>2. /\ e.pid = p /\ e.ppid = parent[p] /\ e.kind = "fork" /\ e.child = lastPid'
    BY <1>3 DEF Event
  <2>3. lineage'[p] = lineage[p] /\ p <= lastPid' /\ lastPid' \in 1 .. lastPid'
    BY <1>0, <1>1, Constants
  <2> QED BY <1>2, <1>3, <2>1, <2>2, <2>3 DEF Truthful
<1>5. ASSUME NEW q \in Pids, NEW r \in lineage'[q]
      PROVE  r < q /\ lineage'[r] \subseteq lineage'[q]
  <2>0. \A s \in Pids : \A t \in lineage[s] : t < s /\ lineage[t] \subseteq lineage[s]
    BY DEF IInv, Descent
  <2>1. CASE q = lastPid'
    <3>1. r \in Pids /\ r <= lastPid /\ lineage[r] \subseteq lineage[p] \union {p}
      BY <1>0, <1>2, <2>0, <2>1, Constants
    <3>2. lineage'[r] = lineage[r]
      BY <3>1, <1>0, <1>1, Constants
    <3> QED BY <1>0, <1>2, <2>1, <3>1, <3>2, Constants
  <2>2. CASE q # lastPid'
    <3>1. lineage'[q] = lineage[q] /\ r \in Pids
      BY <1>0, <2>2
    <3>2. r < q /\ lineage[r] \subseteq lineage[q]
      BY <2>0, <3>1
    <3>3. r # lastPid'
      <4>1. CASE q <= lastPid
        BY <4>1, <3>1, <3>2, <1>0, Constants
      <4>2. CASE q > lastPid
        BY <4>2, <3>1, <1>0 DEF IInv, Descent
      <4> QED BY <4>1, <4>2, <1>0, Constants
    <3> QED BY <1>0, <3>1, <3>2, <3>3
  <2> QED BY <2>1, <2>2
<1>6. \A q \in Pids : q > lastPid' => lineage'[q] = {}
  BY <1>0, Constants DEF IInv, Descent
<1>7. window' \in Seq(Events) /\ Len(window') <= MaxEvents
  BY <1>3, SubmitType DEF IInv
<1>8. (\A i \in DOMAIN window : Truthful(window[i]))'
  BY <1>0, <1>1, <1>3, <1>4, SubmitTruthful DEF IInv
<1> QED BY <1>0, <1>1, <1>2, <1>5, <1>6, <1>7, <1>8

LEMMA StepFork ==
  ASSUME IInv, NEW p \in Pids, Fork(p)
  PROVE  IInv'
<1>1. /\ lastPid \in Nat /\ lastPid' = lastPid + 1 /\ lastPid' \notin alive /\ alive' = alive \union {lastPid'}
      /\ p \in alive /\ lastPid < MaxPid /\ parent \in [alive -> 0 .. MaxPid] /\ comm \in [alive -> Names]
      /\ alive \subseteq 1 .. lastPid
  BY Constants DEF Fork, IInv, TypeOK
<1>2. /\ lastPid' \in Pids /\ lineage' \in [Pids -> SUBSET Pids]
      /\ window' \in Seq(Events) /\ Len(window') <= MaxEvents
      /\ \A q \in Pids : \A r \in lineage'[q] : r < q /\ lineage'[r] \subseteq lineage'[q]
      /\ \A q \in Pids : q > lastPid' => lineage'[q] = {}
      /\ (\A i \in DOMAIN window : Truthful(window[i]))'
      /\ lineage'[lastPid'] = lineage[p] \union {p}
      /\ \A q \in 1 .. lastPid : lineage'[q] = lineage[q]
  BY NewId DEF Fork
<1>3. TypeOK'
  <2>1. alive' \subseteq 1 .. lastPid' /\ seeds' \subseteq 1 .. lastPid' /\ seeded' \in BOOLEAN
    BY <1>1, <1>2, Constants DEF Fork, IInv, TypeOK
  <2>2. parent' \in [alive' -> 0 .. MaxPid] /\ comm' \in [alive' -> Names]
    BY <1>1, Constants DEF Fork
  <2> QED BY <1>2, <2>1, <2>2 DEF TypeOK
<1>4. ASSUME NEW c \in alive'
      PROVE  parent'[c] = Outside \/ parent'[c] \in lineage'[c]
  <2>1. CASE c = lastPid'
    BY <2>1, <1>1, <1>2 DEF Fork
  <2>2. CASE c \in alive
    <3>1. parent[c] = Outside \/ parent[c] \in lineage[c]
      BY <2>2 DEF IInv, Descent
    <3>2. parent'[c] = parent[c] /\ lineage'[c] = lineage[c]
      BY <2>2, <1>1, <1>2 DEF Fork
    <3> QED BY <3>1, <3>2
  <2> QED BY <1>1, <2>1, <2>2
<1>5. Descent'
  BY <1>2, <1>4 DEF Descent
<1> QED BY <1>3, <1>5 DEF IInv

LEMMA StepThread ==
  ASSUME IInv, NEW p \in Pids, Thread(p)
  PROVE  IInv'
<1>1. /\ lastPid \in Nat /\ lastPid' = lastPid + 1 /\ alive \subseteq 1 .. lastPid
      /\ p \in alive /\ lastPid < MaxPid
  BY Constants DEF Thread, IInv, TypeOK
<1>2. /\ lastPid' \in Pids /\ lineage' \in [Pids -> SUBSET Pids]
      /\ window' \in Seq(Events) /\ Len(window') <= MaxEvents
      /\ \A q \in Pids : \A r \in lineage'[q] : r < q /\ lineage'[r] \subseteq lineage'[q]
      /\ \A q \in Pids : q > lastPid' => lineage'[q] = {}
      /\ (\A i \in DOMAIN window : Truthful(window[i]))'
      /\ \A q \in 1 .. lastPid : lineage'[q] = lineage[q]
  BY NewId DEF Thread
<1>3. TypeOK'
  <2>1. alive' \subseteq 1 .. lastPid' /\ seeds' \subseteq 1 .. lastPid' /\ seeded' \in BOOLEAN
    BY <1>1, <1>2, Constants DEF Thread, IInv, TypeOK
  <2>2. parent' \in [alive' -> 0 .. MaxPid] /\ comm' \in [alive' -> Names]
    BY DEF Thread, IInv, TypeOK
  <2> QED BY <1>2, <2>1, <2>2 DEF TypeOK
<1>4. \A c \in alive' : parent'[c] = Outside \/ parent'[c] \in lineage'[c]
  BY <1>1, <1>2 DEF Thread, IInv, Descent
<1>5. Descent'
  BY <1>2, <1>4 DEF Descent
<1> QED BY <1>3, <1>5 DEF IInv

(* A step that leaves the ids and the window's events as they are.         *)
LEMMA WindowStays ==
  ASSUME IInv, UNCHANGED <<lastPid, lineage>>, window' = window \/ window' = <<>>
  PROVE  /\ (\A i \in DOMAIN window : Truthful(window[i]))'
         /\ window' \in Seq(Events) /\ Len(window') <= MaxEvents
<1>1. CASE window' = window
  BY <1>1 DEF IInv, TypeOK, Descent, Truthful
<1>2. CASE window' = <<>>
  BY <1>2, BehaviorTreeAssumption
<1> QED BY <1>1, <1>2

LEMMA StepExit ==
  ASSUME IInv, NEW p \in Pids, Exit(p)
  PROVE  IInv'
<1>1. PICK q \in (lineage[p] \intersect alive) \union {Outside} :
        parent' = [c \in alive' |-> IF parent[c] = p THEN q ELSE parent[c]]
  BY DEF Exit
<1>2. q \in 0 .. MaxPid /\ alive' \subseteq alive /\ parent \in [alive -> 0 .. MaxPid]
  BY Constants DEF Exit, IInv, TypeOK, Outside
<1>3. TypeOK'
  <2>1. alive' \subseteq 1 .. lastPid' /\ lastPid' \in Pids /\ seeds' \subseteq 1 .. lastPid' /\ seeded' \in BOOLEAN
    BY DEF Exit, IInv, TypeOK
  <2>2. parent' \in [alive' -> 0 .. MaxPid] /\ comm' \in [alive' -> Names] /\ lineage' \in [Pids -> SUBSET Pids]
    BY <1>1, <1>2 DEF Exit, IInv, TypeOK
  <2> QED BY <2>1, <2>2, WindowStays DEF Exit, TypeOK
<1>4. ASSUME NEW c \in alive'
      PROVE  parent'[c] = Outside \/ parent'[c] \in lineage'[c]
  <2>1. c \in Pids /\ (parent[c] = Outside \/ parent[c] \in lineage[c])
    BY <1>2, Constants DEF IInv, TypeOK, Descent
  <2>2. p # Outside
    BY Constants DEF Outside
  <2>3. parent[c] = p => lineage[p] \subseteq lineage[c]
    BY <2>1, <2>2 DEF IInv, Descent
  <2> QED BY <1>1, <2>1, <2>3 DEF Exit
<1>5. Descent'
  BY <1>4, WindowStays DEF Exit, IInv, Descent
<1> QED BY <1>3, <1>5 DEF IInv

LEMMA StepPipeline ==
  ASSUME IInv, ReadSeeds \/ Drain \/ UNCHANGED vars
  PROVE  IInv'
<1>1. /\ UNCHANGED server /\ (window' = window \/ window' = <<>>)
      /\ seeds' \subseteq 1 .. lastPid /\ seeded' \in BOOLEAN
  BY DEF ReadSeeds, Drain, vars, server, IInv, TypeOK
<1>2. TypeOK'
  BY <1>1, WindowStays DEF server, IInv, TypeOK
<1>3. Descent'
  BY <1>1, WindowStays DEF server, IInv, Descent
<1> QED BY <1>2, <1>3 DEF IInv

LEMMA Step == IInv /\ [Next]_vars => IInv'
<1> SUFFICES ASSUME IInv, [Next]_vars PROVE IInv'
  OBVIOUS
<1>1. ASSUME NEW p \in Pids, Touch(p) \/ Exec(p) \/ Fork(p) \/ Thread(p) \/ ForkFails(p) \/ Exit(p)
      PROVE  IInv'
  BY <1>1, StepTouch, StepExec, StepFork, StepThread, StepForkFails, StepExit
<1>2. CASE ReadSeeds \/ Drain \/ UNCHANGED vars
  BY <1>2, StepPipeline
<1> QED BY <1>1, <1>2 DEF Next

THEOREM Invariance == Spec => []IInv
BY Initial, Step, PTL DEF Spec

(* The state keeps its types.                                              *)
THEOREM TypeCorrect == Spec => []TypeOK
<1>1. IInv => TypeOK
  BY DEF IInv
<1> QED BY <1>1, Invariance, PTL

-----------------------------------------------------------------------------
(* The tree                                                                *)

LEMMA SeenIsPositions ==
  ASSUME IInv, NEW p
  PROVE  Seen(window, p) \in SUBSET Nat /\ Execs(window, p) \in SUBSET (1 .. Len(window))
BY DEF IInv, TypeOK, Seen, Execs, Kept

LEMMA NodesArePids ==
  ASSUME IInv
  PROVE  Nodes(window) \subseteq 1 .. NoChild
<1>1. ASSUME NEW i \in DOMAIN window
      PROVE  Mentions(window[i]) \subseteq 1 .. NoChild
  <2>1. Truthful(window[i]) /\ window[i] \in Events
    BY DEF IInv, TypeOK, Descent
  <2>2. window[i].pid \in 1 .. NoChild
    BY <2>1, Constants DEF Events
  <2>3. window[i].kind = "fork" => window[i].child \in 1 .. NoChild
    BY <2>1, Constants DEF Truthful, IInv, TypeOK
  <2> QED BY <2>2, <2>3 DEF Mentions
<1>2. seeds \subseteq 1 .. NoChild
  BY Constants DEF IInv, TypeOK
<1> QED BY <1>1, <1>2 DEF Nodes, Kept

(* A node hangs under an ancestor, which has a lower pid, or under nothing *)
(* in the cgroup.                                                          *)
LEMMA Descends ==
  ASSUME IInv, NEW p \in Nodes(window), Ppid(window, p) # Outside
  PROVE  /\ Ppid(window, p) \in Pids /\ Ppid(window, p) < p
         /\ p \in Pids => Ppid(window, p) \in lineage[p]
<1>1. Seen(window, p) # {}
  BY DEF Ppid
<1>2. Earliest(Seen(window, p)) \in Seen(window, p)
  BY <1>1, SeenIsPositions, EarliestIsOne
<1> DEFINE e == window[Earliest(Seen(window, p))]
<1>3. e \in Events /\ Truthful(e) /\ p \in Mentions(e)
  BY <1>2 DEF Seen, Kept, IInv, TypeOK, Descent
<1>4. Ppid(window, p) = IF p = e.pid THEN e.ppid ELSE e.pid
  BY <1>1 DEF Ppid
<1> HIDE DEF e
<1>5. e.pid \in Pids /\ \A q \in Pids : \A r \in lineage[q] : r \in Pids /\ r < q
  BY <1>3, Constants DEF Events, IInv, TypeOK, Descent
<1>6. CASE p = e.pid
  BY <1>3, <1>4, <1>5, <1>6 DEF Truthful
<1>7. CASE p # e.pid
  <2>1. e.kind = "fork" /\ p = e.child /\ Ppid(window, p) = e.pid
    BY <1>3, <1>4, <1>7 DEF Mentions
  <2>2. CASE e.child = NoChild
    BY <2>1, <2>2, <1>5, Constants
  <2>3. CASE e.child \in 1 .. lastPid /\ e.pid \in lineage[e.child]
    <3>1. e.child \in Pids
      BY <2>3, Constants DEF IInv, TypeOK
    <3> QED BY <3>1, <2>1, <2>3, <1>5
  <2> QED BY <1>3, <2>1, <2>2, <2>3 DEF Truthful
<1> QED BY <1>6, <1>7

(* Every node of the tree is reached from a root.                          *)
LEMMA AllWalked ==
  ASSUME IInv
  PROVE  NothingHidden
<1> SUFFICES ASSUME NEW p \in Nodes(window), NEW S \in SUBSET Nodes(window), p \in S,
                    \A q \in S : Ppid(window, q) \in S \ {q}
             PROVE  FALSE
  BY DEF NothingHidden, Walked
<1>1. S \in SUBSET Nat /\ S # {} /\ Outside \notin S
  BY NodesArePids, Constants DEF Outside
<1>2. PICK m \in S : \A n \in S : m <= n
  BY <1>1, Least
<1>3. Ppid(window, m) \in S /\ Ppid(window, m) # Outside
  BY <1>1
<1>4. Ppid(window, m) < m
  BY <1>3, Descends
<1>5. m \in Nat /\ Ppid(window, m) \in Nat /\ m <= Ppid(window, m)
  BY <1>1, <1>2, <1>3
<1> QED BY <1>4, <1>5

(* No event is hidden: every node of a tree is reached from a root.        *)
THEOREM NothingIsHidden == Spec => []NothingHidden
<1>1. IInv => NothingHidden
  BY AllWalked
<1> QED BY <1>1, Invariance, PTL

(* The tree shows a process under one it descends from.                    *)
THEOREM ParentsAreTrue == Spec => []TrueParent
<1>1. ASSUME IInv PROVE TrueParent
  <2> SUFFICES ASSUME NEW p \in Nodes(window) \intersect Pids, Ppid(window, p) \in Nodes(window)
               PROVE  Ppid(window, p) \in lineage[p]
    BY DEF TrueParent
  <2>1. Ppid(window, p) # Outside
    BY <1>1, NodesArePids, Constants DEF Outside
  <2> QED BY <1>1, <2>1, Descends
<1> QED BY <1>1, Invariance, PTL

(* A process that executes only shells in a window is observed as a shell. *)
THEOREM ShellsAreShown == Spec => []ShellShown
<1>1. ASSUME IInv PROVE ShellShown
  <2> SUFFICES ASSUME NEW i \in DOMAIN window,
                      window[i].kind = "exec" /\ window[i].what = "shell",
                      \A j \in Execs(window, window[i].pid) : window[j].what = "shell"
               PROVE  "SHELL_EXEC" \in Observed(window)
    BY DEF ShellShown
  <2> DEFINE p == window[i].pid
  <2>1. i \in Kept(window)
    BY DEF Kept, Noise
  <2>2. i \in Execs(window, p)
    BY <2>1 DEF Execs
  <2>3. p \in Walked(window)
    <3>1. p \in Mentions(window[i])
      BY DEF Mentions
    <3>2. p \in Nodes(window)
      BY <2>1, <3>1 DEF Nodes
    <3> QED BY <1>1, <3>2, AllWalked DEF NothingHidden
  <2>4. Latest(Execs(window, p)) \in Execs(window, p)
    <3>1. Len(window) \in Nat
      BY <1>1 DEF IInv, TypeOK
    <3> QED BY <1>1, <2>2, <3>1, SeenIsPositions, LatestIsOne
  <2>5. Comm(window, p) = "shell"
    BY <2>2, <2>4 DEF Comm
  <2>6. LooksLikeShell(window, p)
    BY <2>5 DEF LooksLikeShell
  <2>7. "SHELL_EXEC" \in ShellCaps(window)
    BY <2>3, <2>6 DEF ShellCaps
  <2> QED BY <2>7 DEF Observed
<1> QED BY <1>1, Invariance, PTL
=============================================================================
