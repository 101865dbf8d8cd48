--------------------------- MODULE VerdictsProofs ---------------------------
(***************************************************************************)
(* Proofs about the verdicts of a runtime run, for any tools, profiles,    *)
(* trees, answers of the model and number of calls.  What makes the        *)
(* properties inductive is that the verdict under work is the code's until *)
(* the model has spoken (VerdictInv), and that what the report has         *)
(* collected keeps to the same ids (ReportInv).                            *)
(***************************************************************************)
EXTENDS Verdicts, FiniteSetTheorems, SequenceTheorems, TLAPS

(* What Consistent asks of a verdict.                                      *)
Sound(v) ==
  /\ v.confirmed \subseteq Emittable /\ v.only \subseteq Emittable
  /\ v.confirmed \intersect v.only = {}
  /\ \A m \in v.mismatches :
       m.observed /\ m.id # "none" => m.id \in v.confirmed \union v.only

VerdictInv ==
  /\ profile.known \subseteq Weaknesses
  /\ pc \in {"verify", "judge", "inspect"} => profile \in Profiles \union {NoProfile}
  /\ pc = "judge" \/ (pc = "inspect" /\ ~llm) => verdict = VerdictOf(tree, profile)
  /\ pc = "inspect" => verdict.decision = VerdictOf(tree, profile).decision
  /\ tree.sensitive \in BOOLEAN
  /\ Sound(verdict)

ReportInv ==
  /\ llm \in BOOLEAN
  /\ \A v \in verifications :
       v.confirmed \union v.only \subseteq (IF llm THEN Emittable ELSE Emittable \ {"W10"})
  /\ leaked \subseteq Tools /\ leaked \subseteq {w.tool : w \in witnesses}
  /\ \A w \in witnesses : w.tool \in leaked
  /\ pc \in {"inspect", "judge", "verify"} => tool \in Tools
  /\ pc \in {"write", "done"} => findings = {f \in Derive : f.id \in categories}
  /\ \A f \in findings : f.id \in Emittable \intersect categories
  /\ plan \in Seq(Tools)

IInv == VerdictInv /\ ReportInv

-----------------------------------------------------------------------------
(* The operators                                                           *)

(* What an observed capability can come to.                                *)
LEMMA ClassifyCases ==
  ASSUME NEW c, NEW p, p.known \subseteq Weaknesses
  PROVE  \/ Classify(c, p) = <<"none", "">> /\ (c \in Privileged => c \in p.code \union p.declared)
         \/ FlagOf(c) \in {"W5", "W6", "W7"} \intersect p.known /\ Classify(c, p) = <<FlagOf(c), "confirmed">>
         \/ Classify(c, p) = <<"W9", "runtime_only">>
         \/ /\ c \notin Privileged \/ c \in p.declared
            /\ \/ "W3" \in p.known /\ Classify(c, p) = <<"W3", "confirmed">>
               \/ "W3" \notin p.known /\ Classify(c, p) = <<"W3", "runtime_only">>
<1>1. FlagOf(c) \in {"W5", "W6", "W7", "none"}
  BY DEF FlagOf
<1>2. "none" \notin p.known
  BY DEF Weaknesses, StaticOnly, Emittable
<1> QED
  BY <1>1, <1>2 DEF Classify

LEMMA PairsEqual ==
  ASSUME NEW a, NEW b, NEW c, NEW d, <<a, b>> = <<c, d>>
  PROVE  a = c /\ b = d
OBVIOUS

LEMMA PairId ==
  ASSUME NEW a, NEW b
  PROVE  <<a, b>>[1] = a
OBVIOUS

(* The same, as the pairs that there are.                                  *)
LEMMA ClassifyPairs ==
  ASSUME NEW c, NEW p, p.known \subseteq Weaknesses
  PROVE  \E w \in Weaknesses \union {"none"}, b \in {"", "confirmed", "runtime_only"} :
           /\ Classify(c, p) = <<w, b>>
           /\ b = "" <=> w = "none"
           /\ b = "confirmed" => w \in {"W3", "W5", "W6", "W7"} \intersect p.known
           /\ b = "runtime_only" => w \in {"W9"} \union ({"W3"} \ p.known)
<1> DEFINE F == FlagOf(c)
<1>1. {"W3", "W9"} \subseteq Weaknesses /\ {"W5", "W6", "W7"} \subseteq Weaknesses
  BY DEF Weaknesses, StaticOnly, Emittable
<1>2. CASE Classify(c, p) = <<"none", "">>
  BY <1>2
<1>3. CASE F \in {"W5", "W6", "W7"} \intersect p.known /\ Classify(c, p) = <<F, "confirmed">>
  <2> HIDE DEF F
  <2> QED  BY <1>1, <1>3
<1>4. CASE Classify(c, p) = <<"W9", "runtime_only">>
  BY <1>1, <1>4
<1>5. CASE "W3" \in p.known /\ Classify(c, p) = <<"W3", "confirmed">>
  BY <1>1, <1>5
<1>6. CASE "W3" \notin p.known /\ Classify(c, p) = <<"W3", "runtime_only">>
  BY <1>1, <1>6
<1> QED
  BY <1>2, <1>3, <1>4, <1>5, <1>6, ClassifyCases

(* The verdict of the code is sound, and without a W10.                    *)
LEMMA CodeVerdict ==
  ASSUME NEW t, NEW p, p.known \subseteq Weaknesses
  PROVE  /\ Sound(VerdictOf(t, p))
         /\ "W10" \notin VerdictOf(t, p).confirmed \union VerdictOf(t, p).only
         /\ VerdictOf(t, p).confirmed \subseteq p.known
<1> DEFINE v == VerdictOf(t, p)
<1>1. v.confirmed = Bucket("confirmed", t, p)
  BY DEF VerdictOf
<1>2. v.only = Bucket("runtime_only", t, p) \union ((IF t.sensitive THEN {"W9"} ELSE {}) \ v.confirmed)
  BY DEF VerdictOf
<1>3. v.confirmed \subseteq {"W3", "W5", "W6", "W7"} \intersect p.known
  <2> SUFFICES ASSUME NEW w \in Bucket("confirmed", t, p) PROVE w \in {"W3", "W5", "W6", "W7"} \intersect p.known
    BY <1>1
  <2>1. PICK c \in t.caps : Classify(c, p) = <<w, "confirmed">>
    BY DEF Bucket
  <2>2. PICK x \in Weaknesses \union {"none"}, b \in {"", "confirmed", "runtime_only"} :
          /\ Classify(c, p) = <<x, b>>
          /\ b = "confirmed" => x \in {"W3", "W5", "W6", "W7"} \intersect p.known
    BY ClassifyPairs
  <2> HIDE DEF v
  <2>3. <<w, "confirmed">> = <<x, b>>
    BY ONLY <2>1, <2>2, Zenon
  <2>4. w = x /\ b = "confirmed"
    BY <2>3, PairsEqual, Zenon
  <2> QED  BY <2>2, <2>4
<1>4. Bucket("runtime_only", t, p) \subseteq {"W9"} \union ({"W3"} \ p.known)
  <2> SUFFICES ASSUME NEW w \in Bucket("runtime_only", t, p) PROVE w \in {"W9"} \union ({"W3"} \ p.known)
    OBVIOUS
  <2>1. PICK c \in t.caps : Classify(c, p) = <<w, "runtime_only">>
    BY DEF Bucket
  <2>2. PICK x \in Weaknesses \union {"none"}, b \in {"", "confirmed", "runtime_only"} :
          /\ Classify(c, p) = <<x, b>>
          /\ b = "runtime_only" => x \in {"W9"} \union ({"W3"} \ p.known)
    BY ClassifyPairs
  <2> HIDE DEF v
  <2>3. <<w, "runtime_only">> = <<x, b>>
    BY ONLY <2>1, <2>2, Zenon
  <2>4. w = x /\ b = "runtime_only"
    BY <2>3, PairsEqual, Zenon
  <2> QED  BY <2>2, <2>4
<1>5. ASSUME NEW m \in v.mismatches, m.observed, m.id # "none"
      PROVE  m.id \in v.confirmed \union v.only
  <2>1. m \in Mismatches(t, p)
    BY <1>5 DEF VerdictOf
  <2>2. PICK c \in t.caps : m.id = Classify(c, p)[1]
    BY <1>5, <2>1 DEF Mismatches
  <2>3. PICK x \in Weaknesses \union {"none"}, b \in {"", "confirmed", "runtime_only"} :
          Classify(c, p) = <<x, b>> /\ (b = "" <=> x = "none")
    BY ClassifyPairs
  <2>4. m.id = x /\ b # "" /\ x \in Weaknesses
    <3>1. m.id = <<x, b>>[1]
      BY <2>2, <2>3, Zenon
    <3>2. m.id = x
      BY <3>1, PairId, Zenon
    <3> QED  BY <1>5, <2>3, <3>2
  <2>5. m.id \in Bucket("confirmed", t, p) \union Bucket("runtime_only", t, p)
    BY <2>3, <2>4 DEF Bucket
  <2> QED  BY <1>1, <1>2, <2>5
<1>6. Sound(v)
  BY <1>2, <1>3, <1>4, <1>5 DEF Sound, Emittable
<1> QED
  BY <1>2, <1>3, <1>4, <1>6

(* Nothing the model says makes a verdict unsound.                         *)
LEMMA JudgeVerdict ==
  ASSUME NEW answer \in Answers, Sound(verdict),
         verdict = [decision |-> verdict.decision, confirmed |-> verdict.confirmed,
                    only |-> verdict.only, mismatches |-> verdict.mismatches]
  PROVE  Sound(Apply(answer)) /\ Apply(answer).decision = verdict.decision
<1> DEFINE C == Judged(answer, "runtime_confirmed")  O == Judged(answer, "runtime_only")
<1>1. /\ Apply(answer).confirmed = C /\ Apply(answer).only = O
      /\ Apply(answer).mismatches = {m \in verdict.mismatches : Kept(m, C \union O)}
      /\ Apply(answer).decision = verdict.decision
  BY DEF Apply
<1>2. C \intersect O = {}
  <2> SUFFICES ASSUME NEW w \in C, w \in O PROVE FALSE
    OBVIOUS
  <2>1. PICK n \in 0 .. MaxItems : DOMAIN answer = 1 .. n
    BY DEF Answers
  <2>2. PICK i \in DOMAIN answer :
          answer[i] = [id |-> w, verdict |-> "runtime_confirmed"] /\ \A j \in 1 .. i - 1 : answer[j].id # w
    BY DEF Judged
  <2>3. PICK k \in DOMAIN answer :
          answer[k] = [id |-> w, verdict |-> "runtime_only"] /\ \A j \in 1 .. k - 1 : answer[j].id # w
    BY DEF Judged
  <2>4. i \in Int /\ k \in Int /\ i >= 1 /\ k >= 1
    BY <2>1, VerdictsAssumption
  <2>5. ~(i < k) /\ ~(k < i)
    BY <2>2, <2>3, <2>4
  <2>6. answer[i].verdict = "runtime_confirmed" /\ answer[k].verdict = "runtime_only" /\ i = k
    BY <2>2, <2>3, <2>4, <2>5
  <2> QED  BY <2>6
<1>3. C \subseteq Emittable /\ O \subseteq Emittable
  BY DEF Judged
<1> QED
  BY <1>1, <1>2, <1>3 DEF Sound, Kept

(* A canary that is no fragment is never skipped.                          *)
LEMMA WindowsAreKept ==
  ASSUME NEW leaf \in Leaves, leaf.form # "fragment"
  PROVE  Keep(leaf) /\ Matches(leaf.form)
<1>1. leaf.form \in AllForms \ {"fragment"}
  BY VerdictsAssumption DEF Leaves
<1>2. Length(leaf.form) \in {24, 46, 48, 64, 96}
  BY <1>1 DEF Length, AllForms
<1> QED
  BY <1>1, <1>2 DEF Keep, Matches

(* A plan is a sequence of tools.                                          *)
LEMMA PlanType ==
  ASSUME NEW names \in SUBSET Tools, NEW s \in Ranked(names), NEW max \in Nat
  PROVE  [i \in {j \in DOMAIN s : j <= max} |-> s[i]] \in Seq(Tools)
<1> DEFINE n == Cardinality(names)  m == IF n <= max THEN n ELSE max
<1>1. IsFiniteSet(names) /\ n \in Nat
  BY VerdictsAssumption, FS_Subset, FS_CardinalityType
<1>2. s \in [1 .. n -> names]
  BY DEF Ranked
<1>3. m \in Nat /\ {j \in DOMAIN s : j <= max} = 1 .. m
  BY <1>1, <1>2
<1>4. [i \in {j \in DOMAIN s : j <= max} |-> s[i]] \in [1 .. m -> Tools]
  BY <1>1, <1>2, <1>3
<1> HIDE DEF m
<1> QED
  BY <1>3, <1>4, SeqDef, Zenon

(* What the findings are derived from.                                     *)
LEMMA DeriveCases ==
  ASSUME NEW f
  PROVE  f \in Derive <=>
           \/ \E v \in verifications :
                \/ \E w \in v.confirmed : f = [tool |-> v.tool, id |-> w, status |-> "confirmed"]
                \/ \E w \in v.only : f = [tool |-> v.tool, id |-> w, status |-> "runtime_only"]
           \/ \E w \in witnesses : f = Leak(w)
<1>1. \A v : f \in Of(v) <=>
             \/ \E w \in v.confirmed : f = [tool |-> v.tool, id |-> w, status |-> "confirmed"]
             \/ \E w \in v.only : f = [tool |-> v.tool, id |-> w, status |-> "runtime_only"]
  BY DEF Of
<1>2. f \in Derive <=> (\E v \in verifications : f \in Of(v)) \/ \E w \in witnesses : f = Leak(w)
  BY DEF Derive
<1> QED
  BY <1>1, <1>2, Zenon

-----------------------------------------------------------------------------
(* The inductive invariant                                                 *)

LEMMA InitIInv == Init => IInv
<1> SUFFICES ASSUME Init PROVE IInv
  OBVIOUS
<1>1. VerdictInv
  BY DEF Init, VerdictInv, Sound, NoProfile, NoTree, NoVerdict
<1>2. ReportInv
  BY DEF Init, ReportInv
<1> QED
  BY <1>1, <1>2 DEF IInv

LEMMA NextIInv == IInv /\ [Next]_vars => IInv'
<1> SUFFICES ASSUME IInv, [Next]_vars PROVE IInv'
  OBVIOUS
<1> USE DEF IInv
<1>1. CASE Load
  BY <1>1 DEF Load, VerdictInv, ReportInv, Sound, call, report, Derive, Of, Leak
<1>2. CASE Plan
  <2>0. PICK fromStatic \in SUBSET Tools, live \in SUBSET Tools, scripted \in SUBSET Tools,
             max \in 0 .. Cardinality(Tools) :
          \E s \in Ranked(MergeTools(fromStatic, live) \union scripted) :
            /\ ~static => fromStatic = {}
            /\ plan' = [i \in {j \in DOMAIN s : j <= max} |-> s[i]]
    BY <1>2, Zenon DEF Plan
  <2>1. PICK s \in Ranked(MergeTools(fromStatic, live) \union scripted) :
          plan' = [i \in {j \in DOMAIN s : j <= max} |-> s[i]]
    BY <2>0
  <2>2. max \in Nat /\ MergeTools(fromStatic, live) \union scripted \in SUBSET Tools
    BY VerdictsAssumption, FS_CardinalityType DEF MergeTools
  <2>3. plan' \in Seq(Tools)
    BY <2>1, <2>2, PlanType
  <2> QED
    BY <1>2, <2>3 DEF Plan, VerdictInv, ReportInv, Sound, run, call, report
<1>3. CASE Denied
  BY <1>3 DEF Denied, VerdictInv, ReportInv, Sound, run, call, report
<1>4. CASE Call
  <2>1. Head(plan) \in Tools /\ Tail(plan) \in Seq(Tools)
    BY <1>4 DEF Call, ReportInv
  <2>2. profile' \in Profiles \union {NoProfile} /\ profile'.known \subseteq Weaknesses
    BY <1>4, VerdictsAssumption DEF Call, Profiles, NoProfile
  <2>3. tree'.sensitive \in BOOLEAN
    BY <1>4 DEF Call
  <2>4. VerdictInv'
    BY <1>4, <2>2, <2>3 DEF Call, VerdictInv, Sound, run
  <2>5. ReportInv'
    BY <1>4, <2>1 DEF Call, ReportInv, run, report
  <2> QED  BY <2>4, <2>5
<1>5. CASE Verify
  <2>1. profile.known \subseteq Weaknesses /\ verdict' = VerdictOf(tree, profile)
    BY <1>5 DEF Verify, VerdictInv
  <2>2. Sound(verdict')
    BY <2>1, CodeVerdict
  <2>3. VerdictInv'
    BY <1>5, <2>1, <2>2 DEF Verify, VerdictInv, Sound, run
  <2>4. ReportInv'
    BY <1>5 DEF Verify, ReportInv, run, report
  <2> QED  BY <2>3, <2>4
<1>6. CASE Judge
  <2>1. verdict = VerdictOf(tree, profile) /\ Sound(verdict) /\ pc = "judge"
    BY <1>6 DEF Judge, VerdictInv
  <2>2. verdict = [decision |-> verdict.decision, confirmed |-> verdict.confirmed,
                   only |-> verdict.only, mismatches |-> verdict.mismatches]
    BY <2>1 DEF VerdictOf
  <2>3. Sound(verdict') /\ verdict'.decision = verdict.decision /\ (~llm => verdict' = verdict)
    <3>1. CASE UNCHANGED verdict
      BY <2>1, <3>1
    <3>2. CASE llm /\ \E answer \in Answers : verdict' = Apply(answer)
      BY <2>1, <2>2, <3>2, JudgeVerdict
    <3> QED  BY <1>6, <3>1, <3>2 DEF Judge
  <2>4. VerdictInv'
    BY <1>6, <2>1, <2>3 DEF Judge, VerdictInv, Sound, run
  <2>5. ReportInv'
    BY <1>6 DEF Judge, ReportInv, run, report
  <2> QED  BY <2>4, <2>5
<1>7. CASE Inspect
  <2>1. VerdictInv'
    BY <1>7 DEF Inspect, VerdictInv, Sound, run, NoProfile, NoTree, NoVerdict
  <2>2. verdict.confirmed \union verdict.only \subseteq (IF llm THEN Emittable ELSE Emittable \ {"W10"})
    <3>1. CASE llm
      BY <3>1 DEF VerdictInv, Sound
    <3>2. CASE ~llm
      BY <1>7, <3>2, CodeVerdict DEF Inspect, VerdictInv, Sound
    <3> QED  BY <3>1, <3>2
  <2>3. \A v \in verifications' :
          v.confirmed \union v.only \subseteq (IF llm THEN Emittable ELSE Emittable \ {"W10"})
    BY <1>7, <2>2 DEF Inspect, ReportInv
  <2>4. PICK leaves \in {{}} \union {{l} : l \in Leaves} :
          /\ witnesses' = witnesses \union
               {[tool |-> tool, seed |-> l.seed] : l \in {k \in leaves : Keep(k) /\ Matches(k.form)}}
          /\ leaked' = IF \E l \in leaves : l.form # "fragment" THEN leaked \union {tool} ELSE leaked
    BY <1>7 DEF Inspect
  <2>5. tool \in Tools
    BY <1>7 DEF Inspect, ReportInv
  <2>6. leaked' \subseteq {w.tool : w \in witnesses'}
    <3>1. CASE \E l \in leaves : l.form # "fragment"
      <4>1. PICK l \in leaves : l.form # "fragment"
        BY <3>1
      <4>2. Keep(l) /\ Matches(l.form)
        BY <4>1, WindowsAreKept
      <4>3. [tool |-> tool, seed |-> l.seed] \in witnesses'
        BY <2>4, <4>2
      <4>4. tool \in {w.tool : w \in witnesses'}
        BY <4>3
      <4> QED  BY <2>4, <4>4 DEF ReportInv
    <3>2. CASE ~\E l \in leaves : l.form # "fragment"
      BY <2>4, <3>2 DEF ReportInv
    <3> QED  BY <3>1, <3>2
  <2>7. \A w \in witnesses' : w.tool \in leaked'
    BY <2>4 DEF ReportInv, Matches
  <2>8. ReportInv'
    BY <1>7, <2>3, <2>4, <2>5, <2>6, <2>7 DEF Inspect, ReportInv, run
  <2> QED  BY <2>1, <2>8
<1>8. CASE Build
  <2>1. VerdictInv'
    BY <1>8 DEF Build, VerdictInv, Sound, run, call
  <2>2. \A f \in Derive : f.id \in Emittable
    <3> SUFFICES ASSUME NEW f \in Derive PROVE f.id \in Emittable
      OBVIOUS
    <3>1. CASE \E v \in verifications :
                 \/ \E w \in v.confirmed : f = [tool |-> v.tool, id |-> w, status |-> "confirmed"]
                 \/ \E w \in v.only : f = [tool |-> v.tool, id |-> w, status |-> "runtime_only"]
      BY <3>1 DEF ReportInv, Emittable
    <3>2. CASE \E w \in witnesses : f = Leak(w)
      BY <3>2 DEF Leak, Emittable
    <3> QED  BY <3>1, <3>2, DeriveCases
  <2>3. findings' = {f \in Derive' : f.id \in categories'}
    BY <1>8 DEF Build, Derive, Of, Leak, run
  <2>4. ReportInv'
    BY <1>8, <2>2, <2>3 DEF Build, ReportInv, run, call
  <2> QED  BY <2>1, <2>4
<1>9. CASE Write
  <2>1. VerdictInv'
    BY <1>9 DEF Write, VerdictInv, Sound, run, call
  <2>2. ReportInv'
    BY <1>9 DEF Write, ReportInv, Derive, Of, Leak, run, call
  <2> QED  BY <2>1, <2>2
<1>10. CASE UNCHANGED vars
  BY <1>10 DEF vars, run, call, report, VerdictInv, ReportInv, Sound, Derive, Of, Leak
<1> QED
  BY <1>1, <1>2, <1>3, <1>4, <1>5, <1>6, <1>7, <1>8, <1>9, <1>10 DEF Next, Finished

LEMMA AlwaysIInv == Spec => []IInv
<1> QED
  BY InitIInv, NextIInv, PTL DEF Spec

-----------------------------------------------------------------------------
(* The theorems                                                            *)

(* With the code's word as the last one, an unexplained privileged         *)
(* capability and a sensitive path are always in the verdict of a call.    *)
THEOREM AccountedHolds == Spec => []Accounted
<1>1. IInv => Accounted
  <2> SUFFICES ASSUME IInv, pc = "inspect"
               PROVE  /\ verdict.decision = "deny" <=> tree.sensitive
                      /\ ~llm =>
                           /\ \A c \in Caps : Unexplained(c) => "W9" \in verdict.only \/ FlagOf(c) \in verdict.confirmed
                           /\ tree.sensitive => "W9" \in verdict.only
                           /\ verdict.confirmed \subseteq profile.known
    BY DEF Accounted
  <2>1. verdict.decision = "deny" <=> tree.sensitive
    BY DEF IInv, VerdictInv, VerdictOf
  <2>2. ASSUME ~llm
        PROVE  /\ \A c \in Caps : Unexplained(c) => "W9" \in verdict.only \/ FlagOf(c) \in verdict.confirmed
               /\ tree.sensitive => "W9" \in verdict.only
               /\ verdict.confirmed \subseteq profile.known
    <3>1. verdict = VerdictOf(tree, profile) /\ profile.known \subseteq Weaknesses
      BY <2>2 DEF IInv, VerdictInv
    <3>2. /\ verdict.confirmed = Bucket("confirmed", tree, profile)
          /\ verdict.only = Bucket("runtime_only", tree, profile) \union
                              ((IF tree.sensitive THEN {"W9"} ELSE {}) \ verdict.confirmed)
      BY <3>1 DEF VerdictOf
    <3>3. ASSUME NEW c \in Caps, Unexplained(c)
          PROVE  "W9" \in verdict.only \/ FlagOf(c) \in verdict.confirmed
      <4>1. c \in tree.caps /\ c \in Privileged /\ c \notin profile.declared \union profile.code
        BY <3>3 DEF Unexplained
      <4>2. \/ FlagOf(c) \in {"W5", "W6", "W7"} /\ Classify(c, profile) = <<FlagOf(c), "confirmed">>
            \/ Classify(c, profile) = <<"W9", "runtime_only">>
        BY <3>1, <4>1, ClassifyCases
      <4>3. FlagOf(c) \in Bucket("confirmed", tree, profile) \/ "W9" \in Bucket("runtime_only", tree, profile)
        BY <4>1, <4>2 DEF Bucket, Weaknesses, Emittable
      <4> QED  BY <3>2, <4>3
    <3>4. "W9" \in verdict.confirmed \/ (tree.sensitive => "W9" \in verdict.only)
      BY <3>2
    <3>5. "W9" \notin verdict.confirmed
      <4> SUFFICES ASSUME "W9" \in Bucket("confirmed", tree, profile) PROVE FALSE
        BY <3>2
      <4>1. PICK c \in tree.caps : Classify(c, profile) = <<"W9", "confirmed">>
        BY DEF Bucket
      <4>2. PICK x \in Weaknesses \union {"none"}, b \in {"", "confirmed", "runtime_only"} :
              /\ Classify(c, profile) = <<x, b>>
              /\ b = "confirmed" => x \in {"W3", "W5", "W6", "W7"} \intersect profile.known
        BY <3>1, ClassifyPairs
      <4>3. <<"W9", "confirmed">> = <<x, b>>
        BY ONLY <4>1, <4>2, Zenon
      <4>4. x = "W9" /\ b = "confirmed"
        BY <4>3, PairsEqual, Zenon
      <4> QED  BY <4>2, <4>4
    <3>6. verdict.confirmed \subseteq profile.known
      BY <3>1, CodeVerdict
    <3> QED  BY <3>3, <3>4, <3>5, <3>6
  <2> QED  BY <2>1, <2>2
<1> QED
  BY <1>1, AlwaysIInv, PTL

(* Whoever had the last word, a verdict does not contradict itself, and    *)
(* every finding is one that a run may report.                             *)
THEOREM ConsistentHolds == Spec => []Consistent
<1>1. IInv => Consistent
  BY DEF IInv, VerdictInv, ReportInv, Sound, Consistent
<1> QED
  BY <1>1, AlwaysIInv, PTL

(* A canary that came out in a string value of a response is a finding of  *)
(* its tool.                                                               *)
THEOREM LeaksReportedHolds == Spec => []LeaksReported
<1>1. IInv => LeaksReported
  <2> SUFFICES ASSUME IInv, pc \in {"write", "done"}, "W10" \in categories,
                      NEW t \in Tools
               PROVE  LET f == [tool |-> t, id |-> "W10", status |-> "runtime_only"]
                      IN  (t \in leaked => f \in findings) /\ (~llm /\ f \in findings => t \in leaked)
    BY DEF LeaksReported, IInv, ReportInv
  <2> DEFINE f == [tool |-> t, id |-> "W10", status |-> "runtime_only"]
  <2>1. findings = {g \in Derive : g.id \in categories}
    BY DEF IInv, ReportInv
  <2>2. ASSUME t \in leaked PROVE f \in findings
    <3>1. PICK w \in witnesses : w.tool = t
      BY <2>2 DEF IInv, ReportInv
    <3>2. f = Leak(w)
      BY <3>1 DEF Leak
    <3>3. f \in Derive
      BY <3>2, DeriveCases
    <3> QED  BY <2>1, <3>3
  <2>3. ASSUME ~llm, f \in findings PROVE t \in leaked
    <3>1. f \in Derive
      BY <2>1, <2>3
    <3>2. \A v \in verifications : "W10" \notin v.confirmed \union v.only
      BY <2>3 DEF IInv, ReportInv
    <3>3. \E w \in witnesses : f = Leak(w)
      BY <3>1, <3>2, DeriveCases
    <3> QED  BY <3>3 DEF Leak, IInv, ReportInv
  <2> QED  BY <2>2, <2>3
<1> QED
  BY <1>1, AlwaysIInv, PTL
=============================================================================
