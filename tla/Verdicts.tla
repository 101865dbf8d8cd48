------------------------------ MODULE Verdicts ------------------------------
(***************************************************************************)
(* dynamic/: from the calls of a runtime run to the findings of its        *)
(* report.  Which calls are made (invocation_generator.py), which the      *)
(* audit denies (pre_execution_auditor.py), what the behavior tree of a    *)
(* call says against the static profile (post_execution_verifier.py), what *)
(* the LLM makes of it (runtime_judge.py over llm/client.py), what the     *)
(* canaries in its response say (canary.py, sink_inspector.py), and what   *)
(* of it becomes a finding (report_builder.py).                            *)
(*                                                                         *)
(* A tree is the set of its capabilities, a response is one leaf string, a *)
(* profile, and what a model answers, is any that its types allow.         *)
(***************************************************************************)
EXTENDS Integers, Sequences, FiniteSets

CONSTANTS
  Tools,
  Risky,     \* the tools with the higher risk score
  Caps,      \* the capabilities in use
  Flags,     \* the weakness ids a static report may have flagged
  Forms,     \* the forms of a canary in a response
  Named,     \* the weakness ids the model names
  MaxItems,  \* bound: classifications in an answer
  Selected   \* the category filters of the session: sets of weakness ids

VARIABLES
  pc,            \* the stage of run()
  llm,           \* session.llm.enabled
  categories,    \* session.categories
  static,        \* there is a static report
  plan,          \* the calls still to be made
  tool,          \* the tool of the current call
  profile,       \* its static profile
  tree,          \* [caps, sensitive]: its behavior tree
  verdict,       \* its verification
  verifications, \* what the report has of the calls so far
  witnesses,     \* the canaries seen: tool and seed
  leaked,        \* history: the tools whose response held a canary whole or in part
  findings,      \* of the report
  files          \* the report files written

call == <<tool, profile, tree, verdict>>
run == <<llm, categories, static>>
report == <<verifications, witnesses, leaked, findings, files>>
vars == <<pc, run, plan, call, report>>

AllCaps == {"FS_READ", "FS_WRITE", "NET_OUTBOUND", "SHELL_EXEC", "DB_ACCESS",
            "CREDENTIAL_HANDLING"}
Privileged == {"SHELL_EXEC", "CREDENTIAL_HANDLING", "NET_OUTBOUND"}
StaticOnly == {"W1", "W2", "W4", "W8"}
Emittable == {"W3", "W5", "W6", "W7", "W9", "W10"}
Weaknesses == StaticOnly \union Emittable
AllForms == {"exact", "prefix", "suffix", "middle", "separated", "base64", "hex",
             "rot13", "fragment"}

ASSUME VerdictsAssumption ==
  /\ IsFiniteSet(Tools) /\ Risky \subseteq Tools /\ Caps \subseteq AllCaps
  /\ Flags \subseteq Weaknesses /\ Named \subseteq Weaknesses
  /\ Forms \subseteq AllForms
  /\ MaxItems \in Nat
  /\ Selected \subseteq SUBSET Weaknesses

Profiles == [declared : SUBSET Caps, code : SUBSET Caps, known : SUBSET Flags]
NoProfile == [declared |-> {}, code |-> {}, known |-> {}]
NoTree == [caps |-> {}, sensitive |-> FALSE]
NoVerdict == [decision |-> "allow", confirmed |-> {}, only |-> {}, mismatches |-> {}]

Init ==
  /\ pc = "load"
  /\ llm \in BOOLEAN /\ categories \in Selected /\ static = FALSE
  /\ plan = <<>> /\ tool = {}
  /\ profile = NoProfile /\ tree = NoTree /\ verdict = NoVerdict
  /\ verifications = {} /\ witnesses = {} /\ leaked = {}
  /\ findings = {} /\ files = {}

-----------------------------------------------------------------------------
(* Before the calls                                                        *)

(* _load_static_report: the report given, else the one in the output       *)
(* directory; one that cannot be read is passed over.                      *)
Load ==
  /\ pc = "load"
  /\ static' \in BOOLEAN
  /\ pc' = "plan"
  /\ UNCHANGED <<llm, categories, plan, call, report>>

(* The tools the static report and the server list.                        *)
MergeTools(fromStatic, live) == fromStatic \union live

(* Riskiest first; the sort leaves ties in their order, here in any.       *)
Ranked(names) ==
  {s \in [1 .. Cardinality(names) -> names] :
     \A i, j \in DOMAIN s : i < j => s[i] # s[j] /\ (s[j] \in Risky => s[i] \in Risky)}

(* generate: a call of every tool that is listed, has a profile or is      *)
(* named by the test script, cut to --max-calls.                           *)
Plan ==
  /\ pc = "plan"
  /\ \E fromStatic, live, scripted \in SUBSET Tools, max \in 0 .. Cardinality(Tools) :
       \E s \in Ranked(MergeTools(fromStatic, live) \union scripted) :
         /\ ~static => fromStatic = {}
         /\ plan' = [i \in {j \in DOMAIN s : j <= max} |-> s[i]]
  /\ pc' = "next"
  /\ UNCHANGED <<run, call, report>>

-----------------------------------------------------------------------------
(* A call                                                                  *)

(* The arguments match a sensitive path or a dangerous command: no call.   *)
Denied ==
  /\ pc = "next" /\ plan # <<>>
  /\ plan' = Tail(plan)
  /\ UNCHANGED <<pc, run, call, report>>

(* The server does what it does, and the tree shows it; a tool may have no *)
(* profile.  A sensitive path is one of a file event.                      *)
Call ==
  /\ pc = "next" /\ plan # <<>>
  /\ tool' = Head(plan) /\ plan' = Tail(plan)
  /\ profile' \in IF static THEN Profiles ELSE {NoProfile}
  /\ \E caps \in SUBSET Caps, sensitive \in BOOLEAN :
       /\ sensitive => caps \intersect {"FS_READ", "FS_WRITE"} # {}
       /\ tree' = [caps |-> caps, sensitive |-> sensitive]
  /\ pc' = "verify"
  /\ UNCHANGED <<run, verdict, report>>

(* The weakness whose static flag an observed capability confirms.         *)
FlagOf(c) ==
  CASE c = "SHELL_EXEC" -> "W5"
    [] c \in {"FS_READ", "FS_WRITE"} -> "W6"
    [] c = "NET_OUTBOUND" -> "W7"
    [] OTHER -> "none"

(* What the code has, without looking at what was declared.                *)
ClassifyByCodeAlone(c, p) ==
  IF FlagOf(c) \in p.known THEN <<FlagOf(c), "confirmed">>
  ELSE IF c \in Privileged \ (p.code \union p.declared) THEN <<"none", "">>
  ELSE IF c \notin p.code THEN <<"W3", IF "W3" \in p.known THEN "confirmed" ELSE "runtime_only">>
  ELSE <<"none", "">>

Classify(c, p) ==
  IF FlagOf(c) \in p.known THEN <<FlagOf(c), "confirmed">>
  ELSE IF c \in Privileged \ (p.code \union p.declared) THEN <<"W9", "runtime_only">>
  ELSE IF c \notin p.code THEN <<"W3", IF "W3" \in p.known THEN "confirmed" ELSE "runtime_only">>
  ELSE <<"none", "">>

Bucket(b, t, p) == {w \in Weaknesses : \E c \in t.caps : Classify(c, p) = <<w, b>>}

(* A capability seen against the profile, or expected and not seen.        *)
Mismatches(t, p) ==
  {[cap |-> c, observed |-> TRUE, id |-> Classify(c, p)[1]] :
     c \in {d \in t.caps : \/ Classify(d, p)[1] # "none"
                           \/ d \notin p.code \intersect p.declared}}
  \union
  {[cap |-> c, observed |-> FALSE, id |-> "none"] : c \in (p.declared \union p.code) \ t.caps}

VerdictOf(t, p) ==
  LET confirmed == Bucket("confirmed", t, p)
      hijack == IF t.sensitive THEN {"W9"} ELSE {}
  IN  [decision |-> IF t.sensitive THEN "deny" ELSE "allow",
       confirmed |-> confirmed,
       only |-> Bucket("runtime_only", t, p) \union (hijack \ confirmed),
       mismatches |-> Mismatches(t, p)]

Verify ==
  /\ pc = "verify"
  /\ verdict' = VerdictOf(tree, profile)
  /\ pc' = "judge"
  /\ UNCHANGED <<run, plan, tool, profile, tree, report>>

-----------------------------------------------------------------------------
(* The judge                                                               *)

Answers ==
  UNION {[1 .. n -> [id : Named, verdict : {"runtime_confirmed", "runtime_only", "absent"}]] :
           n \in 0 .. MaxItems}

(* Every verdict counts.                                                   *)
JudgedByAny(answer, v) ==
  {w \in Emittable : \E i \in DOMAIN answer : answer[i] = [id |-> w, verdict |-> v]}

(* Of several verdicts on one weakness the first counts.                   *)
Judged(answer, v) ==
  {w \in Emittable :
     \E i \in DOMAIN answer :
       /\ answer[i] = [id |-> w, verdict |-> v]
       /\ \A j \in 1 .. i - 1 : answer[j].id # w}

Kept(m, ids) == ~m.observed \/ m.id = "none" \/ m.id \in ids

(* The verdict of the model replaces that of the code, the decision apart. *)
Apply(answer) ==
  LET confirmed == Judged(answer, "runtime_confirmed")
      only == Judged(answer, "runtime_only")
  IN  [verdict EXCEPT !.confirmed = confirmed, !.only = only,
                      !.mismatches = {m \in @ : Kept(m, confirmed \union only)}]

(* judge_verification: without a key, when the request fails and when its  *)
(* text holds no object with classifications, the verdict of the code      *)
(* stands.                                                                 *)
Judge ==
  /\ pc = "judge"
  /\ \/ UNCHANGED verdict
     \/ llm /\ \E answer \in Answers : verdict' = Apply(answer)
  /\ pc' = "inspect"
  /\ UNCHANGED <<run, plan, tool, profile, tree, report>>

-----------------------------------------------------------------------------
(* The canaries                                                            *)

(* No tool argument holds one: arg seeds are never made.                   *)
Seeds == {"env", "file"}

(* How long the text of each form of a canary of 48 characters is.         *)
Length(form) ==
  CASE form \in {"exact", "rot13"} -> 48
    [] form \in {"prefix", "suffix", "middle"} -> 24
    [] form = "separated" -> 46
    [] form = "base64" -> 64
    [] form = "hex" -> 96
    [] OTHER -> 8

(* match_text knows every form but a fragment shorter than its window.     *)
Matches(form) == form \in AllForms \ {"fragment"}

Leaves == [key : {"text", "metadata"}, form : Forms, seed : Seeds]

(* A window of metadata as long as the bait's is skipped.                  *)
KeepLonger(leaf) == ~(leaf.key = "metadata" /\ Length(leaf.form) <= 24)

(* Short metadata is skipped, and a string of up to three characters.      *)
Keep(leaf) ==
  /\ ~(leaf.key = "metadata" /\ Length(leaf.form) < 24)
  /\ Length(leaf.form) >= 4

(* inspect: every leaf that is kept, against every seed.                   *)
Inspect ==
  /\ pc = "inspect"
  /\ \E leaves \in {{}} \union {{l} : l \in Leaves} :
       /\ witnesses' = witnesses \union
            {[tool |-> tool, seed |-> l.seed] : l \in {k \in leaves : Keep(k) /\ Matches(k.form)}}
       /\ leaked' = IF \E l \in leaves : l.form # "fragment" THEN leaked \union {tool} ELSE leaked
  /\ verifications' = verifications \union
       {[tool |-> tool, confirmed |-> verdict.confirmed, only |-> verdict.only]}
  /\ tool' = {} /\ profile' = NoProfile /\ tree' = NoTree /\ verdict' = NoVerdict
  /\ pc' = "next"
  /\ UNCHANGED <<run, plan, findings, files>>

-----------------------------------------------------------------------------
(* The report                                                              *)

(* classify_witness: an env or file canary in a response is W10.           *)
Leak(w) == [tool |-> w.tool, id |-> "W10", status |-> "runtime_only"]

Of(v) ==
  {[tool |-> v.tool, id |-> w, status |-> "confirmed"] : w \in v.confirmed}
  \union {[tool |-> v.tool, id |-> w, status |-> "runtime_only"] : w \in v.only}

Derive == (UNION {Of(v) : v \in verifications}) \union {Leak(w) : w \in witnesses}

Build ==
  /\ pc = "next" /\ plan = <<>>
  /\ findings' = {f \in Derive : f.id \in categories}
  /\ pc' = "write"
  /\ UNCHANGED <<run, plan, call, verifications, witnesses, leaked, files>>

(* write_reports: json, sarif and markdown in this order.  A writer that   *)
(* raises has a plain one behind it; when that raises too, so does run().  *)
Write ==
  /\ pc = "write"
  /\ \/ \E f \in {"json", "sarif", "md"} :
          /\ files = CASE f = "json" -> {} [] f = "sarif" -> {"json"} [] f = "md" -> {"json", "sarif"}
          /\ files' = files \union {f}
          /\ pc' = IF f = "md" THEN "done" ELSE "write"
     \/ pc' = "failed" /\ UNCHANGED files
  /\ UNCHANGED <<run, plan, call, verifications, witnesses, leaked, findings>>

Finished == pc \in {"done", "failed"} /\ UNCHANGED vars

Next ==
  \/ Load \/ Plan \/ Denied \/ Call \/ Verify \/ Judge \/ Inspect
  \/ Build \/ Write \/ Finished

Spec == Init /\ [][Next]_vars

-----------------------------------------------------------------------------
(* Properties                                                              *)

(* When the code has the last word, a privileged capability that neither   *)
(* the declaration nor the code explains is never silent, and a sensitive  *)
(* path denies the call and is a W9 (README.md:319).                       *)
Unexplained(c) == c \in tree.caps \intersect Privileged /\ c \notin profile.declared \union profile.code

Accounted ==
  /\ pc = "inspect" => (verdict.decision = "deny" <=> tree.sensitive)
  /\ pc = "inspect" /\ ~llm =>
       /\ \A c \in Caps : Unexplained(c) => "W9" \in verdict.only \/ FlagOf(c) \in verdict.confirmed
       /\ tree.sensitive => "W9" \in verdict.only
       /\ verdict.confirmed \subseteq profile.known

(* Whoever had the last word: a weakness is confirmed or runtime only and  *)
(* never both, a mismatch names no weakness that has been dropped, and no  *)
(* static-only id comes out of a run (README.md:318).                      *)
Consistent ==
  /\ verdict.confirmed \intersect verdict.only = {}
  /\ \A m \in verdict.mismatches :
       m.observed /\ m.id # "none" => m.id \in verdict.confirmed \union verdict.only
  /\ \A f \in findings : f.id \in Emittable \intersect categories

(* A canary that a response holds, whole, encoded or in a window of 24     *)
(* characters, is a W10 finding of its tool in whichever of the response's *)
(* string values it is (the names of the fields are not searched), and     *)
(* without the model nothing else is.                                      *)
LeaksReported ==
  pc \in {"write", "done"} /\ "W10" \in categories =>
    LET reported == {t \in Tools : [tool |-> t, id |-> "W10", status |-> "runtime_only"] \in findings}
    IN  leaked \subseteq reported /\ (~llm => reported \subseteq leaked)
=============================================================================
