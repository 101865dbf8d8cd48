--------------------------- MODULE StaticPipeline ---------------------------
(***************************************************************************)
(* static/pipeline.py: the discovery of the server's tools with a live     *)
(* handshake (discovery.py), three lanes in a thread pool, the joins, and  *)
(* the report with the profiles that the runtime run is judged against     *)
(* (report_builder.py).                                                    *)
(*                                                                         *)
(* What a text says to a pattern, to a scanner or to the model is free;    *)
(* which sink belongs to which tool is computed (Attribution).             *)
(***************************************************************************)
EXTENDS Attribution

CONSTANTS
  Suspicious, \* the tools whose text meets a poisoning rule
  Declarable, \* the capabilities a text or a reply can declare
  Keywords,   \* what the keyword rules find declared in the text of each tool
  Selected    \* the category filters of the session: sets of weakness ids

VARIABLES
  pc,          \* where run() is
  llm,         \* session.llm.enabled
  categories,  \* session.categories
  language,    \* detect_language
  server,      \* the process of the handshake
  shaken,      \* what became of the handshake
  listed,      \* the tools discovered
  handler,     \* their source_location
  lane,        \* the three futures
  advertised,  \* lane A: the tools it has classified
  poisoned,    \* lane A: those with a W1
  declared,    \* lane A: what each declares
  shadows,     \* lane A: those with a W2
  search,      \* lane B: the outcome of the pattern scan, as in Searches
  facts,       \* lane B: the sink facts
  inventory,   \* lane C: the weakness ids it found
  findings,    \* of the report
  profiles,    \* of the report
  files        \* the report files written

session == <<llm, categories>>
discovery == <<language, server, shaken, listed, handler>>
laneA == <<advertised, poisoned, declared, shadows>>
laneB == <<search, facts>>
report == <<findings, profiles, files>>
vars == <<pc, session, discovery, lane, laneA, laneB, inventory, report>>

Capabilities ==
  {"FS_READ", "FS_WRITE", "SHELL_EXEC", "NET_OUTBOUND", "NET_INBOUND", "DB_ACCESS",
   "CREDENTIAL_HANDLING", "BROWSER_AUTOMATION", "CLOUD_SAAS", "CODE_REPO",
   "PROMPT_PROVIDING", "BENIGN_UTILITY"}

(* SINK_TO_CAPABILITY                                                      *)
CapabilityOf(type) ==
  CASE type = "shell_exec" -> "SHELL_EXEC"
    [] type = "file_read" -> "FS_READ"
    [] type = "file_write" -> "FS_WRITE"
    [] type = "network_call" -> "NET_OUTBOUND"
    [] type = "db_query" -> "DB_ACCESS"
    [] type = "credential_read" -> "CREDENTIAL_HANDLING"
    [] OTHER -> None

(* SINK_TO_INJECTION                                                       *)
InjectionOf(type) ==
  CASE type \in {"shell_exec", "db_query", "dynamic_code_load"} -> "W5"
    [] type \in {"file_read", "file_write"} -> "W6"
    [] type = "network_call" -> "W7"
    [] OTHER -> None

(* No tool has the name of the server as a whole in a finding; a text in   *)
(* which no keyword is found declares a benign utility.                    *)
ASSUME StaticPipelineAssumption ==
  /\ "*" \notin Tools /\ "nowhere" \notin Fns
  /\ Suspicious \subseteq Tools /\ Declarable \subseteq Capabilities
  /\ Keywords \in [Tools -> (SUBSET Declarable) \ {{}}]
  /\ Selected \subseteq SUBSET {"W1", "W2", "W3", "W4", "W5", "W6", "W7", "W8", "W9", "W10"}

NoHandlers == [t \in Tools |-> Nowhere]
NoSearch == [handler |-> NoHandlers, site |-> None, hits |-> {}, reaching |-> {}]

Init ==
  /\ pc = "launch"
  /\ llm \in BOOLEAN /\ categories \in Selected
  /\ language \in {"python", "javascript"} /\ server = None /\ shaken = None
  /\ listed = {} /\ handler = NoHandlers
  /\ lane = [l \in {"A", "B", "C"} |-> "waiting"]
  /\ advertised = {} /\ poisoned = {} /\ declared = [t \in Tools |-> {}] /\ shadows = {}
  /\ search = NoSearch /\ facts = {} /\ inventory = {}
  /\ findings = {} /\ profiles = <<>> /\ files = {}

-----------------------------------------------------------------------------
(* Discovery                                                               *)

(* detect_entrypoint finds no command, or Popen fails: no handshake.       *)
Launch ==
  /\ pc = "launch"
  /\ \/ server' = "running" /\ pc' = "handshake" /\ UNCHANGED shaken
     \/ shaken' = "failed" /\ pc' = "tools" /\ UNCHANGED server
  /\ UNCHANGED <<session, language, listed, handler, lane, laneA, laneB, inventory, report>>

ServerExits ==
  /\ server \in {"running", "deaf", "doomed"} /\ server' = "gone"
  /\ UNCHANGED <<pc, session, language, shaken, listed, handler, lane, laneA, laneB, inventory, report>>

(* initialize and the three lists: each is answered, or fails at its       *)
(* timeout or by a malformed answer.  Bytes that are no UTF-8 are not      *)
(* among the errors _try_live expects.                                     *)
Handshake ==
  /\ pc = "handshake"
  /\ shaken' \in IF server = "running" THEN {"live", "failed", "raised"} ELSE {"failed"}
  /\ pc' = "terminate"
  /\ UNCHANGED <<session, language, server, listed, handler, lane, laneA, laneB, inventory, report>>

StopIsTerminate ==
  /\ pc = "terminate"
  /\ server' \in IF server = "running" THEN {"gone", "deaf"} ELSE {server}
  /\ pc' = "tools"
  /\ UNCHANGED <<session, language, shaken, listed, handler, lane, laneA, laneB, inventory, report>>

(* _stop_proc, on every way out: SIGTERM to a server that still runs.      *)
Terminate ==
  /\ pc = "terminate"
  /\ server' \in IF server = "running" THEN {"gone", "deaf"} ELSE {server}
  /\ pc' = "kill"
  /\ UNCHANGED <<session, language, shaken, listed, handler, lane, laneA, laneB, inventory, report>>

(* When it has not ended after two seconds, SIGKILL; the wait for its end  *)
(* may expire too, and the run goes on.                                    *)
KillServer ==
  /\ pc = "kill"
  /\ server' \in IF server = "deaf" THEN {"gone", "doomed"} ELSE {server}
  /\ pc' = "tools"
  /\ UNCHANGED <<session, language, shaken, listed, handler, lane, laneA, laneB, inventory, report>>

(* The tools of the live list, with the places the source scan finds for   *)
(* some of them; without a live list the tools the scan finds.             *)
Listed(h) ==
  LET scanned == {t \in Tools : h[t] # Nowhere}
  IN  IF shaken = "live" THEN {s \in SUBSET Tools : scanned \subseteq s} ELSE {scanned}

(* discover: the tools, and then the lanes are submitted.                  *)
Discover ==
  /\ pc = "tools"
  /\ IF shaken = "raised"
     THEN pc' = "failed" /\ UNCHANGED <<listed, handler, lane>>
     ELSE /\ pc' = "lanes"
          /\ handler' \in Handlers
          /\ listed' \in Listed(handler')
          /\ lane' = [l \in DOMAIN lane |-> "running"]
  /\ UNCHANGED <<session, language, server, shaken, laneA, laneB, inventory, report>>

-----------------------------------------------------------------------------
(* The lanes                                                               *)

Running(l) == pc = "lanes" /\ lane[l] = "running"

PoisoningFast(t) == {t} \intersect Suspicious
ClassifyTool(t) == Keywords[t]

(* complete_json: an object, what it says of the tool, and whether its     *)
(* confidence is a number.                                                 *)
Replies == [poisoned : BOOLEAN, caps : SUBSET Declarable, number : BOOLEAN]

Classified(t, flags, caps) ==
  /\ advertised' = advertised \union {t}
  /\ poisoned' = poisoned \union (IF "W1" \in categories THEN flags ELSE {})
  /\ declared' = [declared EXCEPT ![t] = caps]
  /\ UNCHANGED lane

(* advertisement.classify, one tool, by the rules when there is no key, no *)
(* reply or no object in it.                                               *)
AdvertiseByRules ==
  /\ Running("A")
  /\ \E t \in listed \ advertised : Classified(t, PoisoningFast(t), ClassifyTool(t))
  /\ UNCHANGED <<pc, session, discovery, shadows, laneB, inventory, report>>

(* By the reply; one that declares nothing leaves that to the keywords.  A *)
(* confidence that is no number raises.                                    *)
AdvertiseByModel ==
  /\ Running("A") /\ llm
  /\ \E t \in listed \ advertised, r \in Replies :
       IF r.poisoned /\ ~r.number
         THEN /\ lane' = [lane EXCEPT !["A"] = "raised"]
              /\ advertised' = {} /\ poisoned' = {} /\ declared' = [u \in Tools |-> {}]
         ELSE Classified(t, IF r.poisoned THEN {t} ELSE {},
                         IF r.caps = {} THEN ClassifyTool(t) ELSE r.caps)
  /\ UNCHANGED <<pc, session, discovery, shadows, laneB, inventory, report>>

(* shadowing_flags: the names of a pair that are too close.                *)
Shadow ==
  /\ Running("A") /\ advertised = listed
  /\ shadows' \in IF "W2" \in categories THEN {s \in SUBSET listed : Cardinality(s) # 1} ELSE {{}}
  /\ lane' = [lane EXCEPT !["A"] = "done"]
  /\ UNCHANGED <<pc, session, discovery, advertised, poisoned, declared, laneB, inventory, report>>

(* _proximate_attributions: in Python the tools found from the callers,    *)
(* else those of the sink's place.                                         *)
Proximate(s) ==
  LET p == PlaceOf[s.site]
  IN  IF language # "python" THEN Nearest(handler, p)
      ELSE IF s.hits # {} THEN s.hits
      ELSE ToolsAt(handler, p)

(* The scan with the pattern rules.  Without Semgrep, and when it fails or *)
(* prints no JSON, there are no results.                                   *)
PatternScan ==
  /\ Running("B") /\ search = NoSearch
  /\ \E s \in {x \in Searches : x.handler = handler} :
       search' = s /\ facts' = ProximateFacts(s.site, Proximate(s))
  /\ UNCHANGED <<pc, session, discovery, lane, laneA, inventory, report>>

NoResults ==
  /\ Running("B") /\ search = NoSearch
  /\ search' = [NoSearch EXCEPT !.site = "nowhere"]
  /\ UNCHANGED <<pc, session, discovery, lane, laneA, facts, inventory, report>>

(* The scan with the taint rules and those generated for the handlers; the *)
(* file of these may fail to be written.                                   *)
TaintScan ==
  /\ Running("B") /\ search # NoSearch
  /\ \/ lane' = [lane EXCEPT !["B"] = "raised"] /\ facts' = {}
     \/ /\ lane' = [lane EXCEPT !["B"] = "done"]
        /\ \/ UNCHANGED facts
           \/ \E site \in Fns, from \in Sources :
                facts' = Merge(facts, DirectFacts(site, Direct(site, from, handler, language)))
  /\ UNCHANGED <<pc, session, discovery, laneA, search, inventory, report>>

(* credential_scanner: some file of the tree holds a secret, or none.      *)
Credentials == SUBSET {"W10"}

(* sca_scan: pip-audit, npm audit, osv-scanner, cargo audit and the install*)
(* scripts; a tool that is missing or fails has found nothing.             *)
ScaScan == SUBSET {"W4"}

(* inventory.scan; a package.json that holds no object raises.             *)
Inventory ==
  /\ Running("C")
  /\ \/ /\ \E c \in Credentials, d \in ScaScan : inventory' = (c \union d) \intersect categories
        /\ lane' = [lane EXCEPT !["C"] = "done"]
     \/ "W4" \in categories /\ lane' = [lane EXCEPT !["C"] = "raised"] /\ UNCHANGED inventory
  /\ UNCHANGED <<pc, session, discovery, laneA, laneB, report>>

-----------------------------------------------------------------------------
(* Joins and report                                                        *)

FactsOf(t) == {f \in facts : f.tool = t}
CodeCaps(t) == {CapabilityOf(SinkOf[f.site]) : f \in FactsOf(t)} \ {None}

Finding(t, id, severity) == [tool |-> t, id |-> id, severity |-> severity]

(* cross_check.check: more in the code than declared, more declared than   *)
(* in the code, where a benign utility counts for nothing; HIGH only when  *)
(* a high capability has a direct sink.                                    *)
Claimed(t) == declared[t] \ {"BENIGN_UTILITY"}
HighUnderdeclared == {"SHELL_EXEC", "CREDENTIAL_HANDLING", "NET_OUTBOUND"}
CrossCheck ==
  {Finding(t, "W3",
     IF \E f \in FactsOf(t) : /\ f.confidence = "direct"
                              /\ CapabilityOf(SinkOf[f.site]) \in HighUnderdeclared \ Claimed(t)
     THEN "HIGH" ELSE "MEDIUM") : t \in {u \in listed : CodeCaps(u) \ Claimed(u) # {}}}
  \union {Finding(t, "W3", "LOW") : t \in {u \in listed : Claimed(u) \ CodeCaps(u) # {}}}

(* access_control_check.check, of the privileged sinks with no guard by    *)
(* name on their path.                                                     *)
PrivilegedSinks == {"shell_exec", "file_write", "db_query", "credential_read"}
AccessCheck(guarded) ==
  {Finding(f.tool, "W8", IF f.confidence = "direct" THEN "MEDIUM" ELSE "LOW") :
     f \in {g \in facts : SinkOf[g.site] \in PrivilegedSinks /\ g.site \notin guarded}}

(* from_sinks: direct facts of a tool.                                     *)
Injections ==
  {Finding(f.tool, InjectionOf(SinkOf[f.site]), "HIGH") :
     f \in {g \in facts : g.confidence = "direct" /\ g.tool # None /\ InjectionOf(SinkOf[g.site]) # None}}

(* The findings, for the categories of the session.                        *)
Joined(guarded) ==
  {f \in CrossCheck \union AccessCheck(guarded) \union Injections
          \union {Finding(t, "W1", "MEDIUM") : t \in poisoned}
          \union {Finding(t, "W2", "MEDIUM") : t \in shadows}
          \union {Finding("*", w, "MEDIUM") : w \in inventory} :
     f.id \in categories}

(* Only when none raises is the pool left.                                 *)
JoinAllDone ==
  /\ pc = "lanes" /\ \A l \in DOMAIN lane : lane[l] = "done"
  /\ pc' = "profiles" /\ \E guarded \in {{}, Fns} : findings' = Joined(guarded)
  /\ UNCHANGED <<session, discovery, lane, laneA, laneB, inventory, profiles, files>>

(* The joins wait for all three lanes, and what one raised is raised then. *)
Join ==
  /\ pc = "lanes" /\ \A l \in DOMAIN lane : lane[l] \in {"done", "raised"}
  /\ IF \E l \in DOMAIN lane : lane[l] = "raised"
     THEN pc' = "failed" /\ UNCHANGED findings
     ELSE /\ pc' = "profiles"
          /\ \E guarded \in {{}, Fns} : findings' = Joined(guarded)
  /\ UNCHANGED <<session, discovery, lane, laneA, laneB, inventory, profiles, files>>

(* Those of the server stay with the server.                               *)
KnownFlagsOfTool(t) == {f.id : f \in {g \in findings : g.tool = t}}

(* collect_known_flags and assemble: of the tool, and for a listed tool of *)
(* the server as a whole.                                                  *)
KnownFlags(t) ==
  {f.id : f \in {g \in findings : g.tool = t \/ (g.tool = "*" /\ t \in listed)}}

(* build_profiles: of the listed tools, and of every name a finding has.   *)
Assemble ==
  /\ pc = "profiles" /\ pc' = "write"
  /\ profiles' = [t \in listed \union ({f.tool : f \in findings} \ {"*"}) |->
                    [declared |-> IF t \in Tools THEN declared[t] ELSE {},
                     code |-> IF t \in Tools THEN CodeCaps(t) ELSE {}, known |-> KnownFlags(t)]]
  /\ UNCHANGED <<session, discovery, lane, laneA, laneB, inventory, findings, files>>

(* write_reports: the JSON, for which a writer that fails has a plain one  *)
(* behind it; the others are written if they can be.                       *)
Write ==
  /\ pc = "write"
  /\ \/ pc' = "done" /\ \E others \in SUBSET {"sarif", "md"} : files' = {"json"} \union others
     \/ pc' = "failed" /\ UNCHANGED files
  /\ UNCHANGED <<session, discovery, lane, laneA, laneB, inventory, findings, profiles>>

Run ==
  \/ Launch \/ Handshake \/ Terminate \/ KillServer \/ Discover
  \/ Join \/ Assemble \/ Write

Lanes == AdvertiseByRules \/ AdvertiseByModel \/ Shadow \/ PatternScan \/ NoResults \/ TaintScan \/ Inventory

Next == Run \/ Lanes \/ ServerExits

(* Every request, scan and wait has a timeout, and each lane has a thread; *)
(* the handshake's few messages fit into the server's pipe.                *)
Fairness ==
  /\ WF_vars(Run)
  /\ WF_vars(AdvertiseByRules \/ AdvertiseByModel \/ Shadow) /\ WF_vars(PatternScan \/ NoResults \/ TaintScan) /\ WF_vars(Inventory)

Spec == Init /\ [][Next]_vars /\ Fairness

-----------------------------------------------------------------------------
(* Properties                                                              *)

(* Whose the sink of the pattern scan is: the tools that calls lead back   *)
(* to; without any, those declared on its line or under its name.          *)
Owners ==
  IF search.reaching # {} THEN search.reaching ELSE ToolsAt(handler, PlaceOf[search.site])

(* In Python a tool has a fact of the sink that the pattern scan found if  *)
(* calls lead there from a function that counts as the tool's, of at most  *)
(* MAX_HOPS calls with no other tool's function in between, and the other  *)
(* scan takes none of these facts away.  Only owners have a proximate one, *)
(* and a sink that has no owner is kept for none.  A function counts as    *)
(* the tool's by its name, so that one nobody calls from the handler may   *)
(* make the tool an owner; and behind another tool's function the search   *)
(* does not look for more, unlike what reverse_paths' docstring says.      *)
Attributed ==
  language = "python" /\ search.site \in Fns /\ lane["B"] # "raised" =>
    LET at == {f \in facts : f.site = search.site}
        proximate == {f.tool : f \in {g \in at : g.confidence = "proximate"}}
    IN  /\ Owners \subseteq {f.tool : f \in at}
        /\ proximate \subseteq Owners \union {None}
        /\ None \in proximate <=> Owners = {}

(* What the runtime run is judged against: the profile of a tool has the   *)
(* capability of the sink it is an owner of, is free of W3 only when       *)
(* declaration and code agree, but for a benign utility, has a W5 to W7    *)
(* only from a direct sink, and has the flags of the whole server.         *)
ProfilesTrue ==
  pc \in {"write", "done"} =>
    \A t \in listed :
      LET p == profiles[t]
      IN  /\ language = "python" /\ search.site \in Fns /\ t \in Owners =>
               CapabilityOf(SinkOf[search.site]) \in p.code \union {None}
          /\ "W3" \in categories \ p.known => p.declared \ {"BENIGN_UTILITY"} = p.code
          /\ \A w \in p.known \intersect {"W5", "W6", "W7"} :
               \E f \in facts : f.tool = t /\ f.confidence = "direct" /\ InjectionOf(SinkOf[f.site]) = w
          /\ inventory \subseteq p.known /\ p.known \subseteq categories

(* When the lanes start, and when the run is over, however it went, the    *)
(* process discovery started has ended or has been sent SIGKILL (what it   *)
(* has started in turn is not signalled); then no lane is left running,    *)
(* and there is a report exactly when nothing failed.                      *)
Settled ==
  /\ pc \in {"lanes", "done", "failed"} => server \in {None, "gone", "doomed"}
  /\ pc \in {"done", "failed"} => \A l \in DOMAIN lane : lane[l] # "running"
  /\ pc = "done" <=> files # {}

(* The run ends, whatever the server, the model and the scanners do.       *)
RunEnds == <>(pc \in {"done", "failed"})

(* No reply of the model fails the run ("Static analysis must never fail   *)
(* because of LLM", llm/client.py:37): with an error there is a cause      *)
(* outside the lane that asks the model.                                   *)
NeverFailsBecauseOfLLM ==
  pc = "failed" => lane["A"] # "raised" \/ "raised" \in {lane["B"], lane["C"]}
=============================================================================
