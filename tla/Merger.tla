------------------------------- MODULE Merger -------------------------------
(***************************************************************************)
(* combine/merger.py: _merge_findings() and _combine_group(), which pair   *)
(* the findings of the static report with those of the runtime report, key *)
(* (tool, weakness) by key, and give each result its confidence tier.      *)
(*                                                                         *)
(* A finding is its key, its severity, the sink locations its evidence     *)
(* names (_sink_locations) and, at runtime, its status.  derive_findings   *)
(* names no location; a report that is given as a file may.                *)
(***************************************************************************)
EXTENDS Integers, Sequences

CONSTANTS
  LastKey,     \* bound: keys are 1 .. LastKey, in the order of their sort
  Locations,   \* sink locations
  Severities,  \* severities of the static findings, as SEVERITY_RANK
  Critical,    \* the keys whose weakness is CRITICAL at runtime (W9, W10)
  MaxFindings  \* bound: findings in each report

VARIABLES
  static,    \* _static_items
  runtime,   \* _runtime_items
  selected,  \* the keys whose weakness is in the session's categories
  pc,        \* group: next key; static, alone, only: the loops of
             \* _combine_group; done
  key,       \* the key of the group
  todo,      \* the findings this loop has not yet looked at
  used,      \* used_runtime
  combined   \* the combined findings, with their index in both reports

inputs == <<static, runtime, selected>>
vars == <<inputs, pc, key, todo, used, combined>>

ASSUME MergerAssumption ==
  LastKey \in Nat /\ MaxFindings \in Nat /\ Severities \subseteq 1 .. 4

Keys == 1 .. LastKey
Statuses == {"confirmed", "runtime_only", "unconfirmed_static_flag_stands"}
Tiers == {"static_only", "runtime_confirmed", "runtime_only"}

StaticFindings == [key : Keys, severity : Severities, locs : SUBSET Locations]
RuntimeFindings == [key : Keys, locs : SUBSET Locations, status : Statuses]

Least(S) == CHOOSE i \in S : \A j \in S : i <= j

Init ==
  /\ \E n \in 0 .. MaxFindings : static \in [1 .. n -> StaticFindings]
  /\ \E n \in 0 .. MaxFindings : runtime \in [1 .. n -> RuntimeFindings]
  /\ selected \in SUBSET Keys
  /\ pc = "group" /\ key = 0
  /\ todo = {} /\ used = {}
  /\ combined = <<>>

StaticOf(k) == {i \in DOMAIN static : static[i].key = k}
RuntimeOf(k, status) ==
  {j \in DOMAIN runtime : runtime[j].key = k /\ runtime[j].status = status}

Confirmed == RuntimeOf(key, "confirmed")

(* A finding without a location taken for a match of any.                  *)
SameSinkOrUnknown(i, j) ==
  \/ static[i].locs = {} \/ runtime[j].locs = {}
  \/ static[i].locs \intersect runtime[j].locs # {}

(* _same_sink: no location on either side, or one in common.               *)
SameSink(i, j) ==
  \/ static[i].locs = {} /\ runtime[j].locs = {}
  \/ static[i].locs \intersect runtime[j].locs # {}

(* SEVERITY_BY_WEAKNESS: HIGH, the 3rd of four, or CRITICAL.               *)
RuntimeSeverity(j) == IF runtime[j].key \in Critical THEN 4 ELSE 3

(* A pair that is given the severity of what was seen at runtime.          *)
SeverityAtRuntime(e) == IF e.r # 0 THEN RuntimeSeverity(e.r) ELSE static[e.s].severity

(* The severity of a combined finding: of a pair the higher one.           *)
Severity(e) ==
  IF e.r = 0 THEN static[e.s].severity
  ELSE IF e.s = 0 \/ static[e.s].severity < RuntimeSeverity(e.r) THEN RuntimeSeverity(e.r)
  ELSE static[e.s].severity

(* _fail_on_exit of the full command: the exit code is 1.                  *)
FailsOn(threshold) == \E n \in DOMAIN combined : Severity(combined[n]) >= threshold

Entry(tier, i, j) == [key |-> key, tier |-> tier, s |-> i, r |-> j]

-----------------------------------------------------------------------------
(* The next key in order; its group is skipped when it is filtered out.    *)
Group ==
  /\ pc = "group" /\ key < LastKey
  /\ key' = key + 1
  /\ used' = {}
  /\ IF key' \in selected
     THEN todo' = StaticOf(key') /\ pc' = "static"
     ELSE UNCHANGED <<todo, pc>>
  /\ UNCHANGED <<inputs, combined>>

Finish ==
  /\ pc = "group" /\ key = LastKey
  /\ pc' = "done"
  /\ UNCHANGED <<inputs, key, todo, used, combined>>

(* A loop that does not look at used_runtime.                              *)
MatchReuses ==
  /\ pc = "static" /\ todo # {}
  /\ LET i == Least(todo)
         free == {j \in Confirmed : SameSink(i, j)}
     IN  /\ todo' = todo \ {i}
         /\ IF free = {}
            THEN /\ combined' = Append(combined, Entry("static_only", i, 0))
                 /\ UNCHANGED used
            ELSE /\ combined' = Append(combined, Entry("runtime_confirmed", i, Least(free)))
                 /\ used' = used \union {Least(free)}
  /\ UNCHANGED <<inputs, pc, key>>

(* A loop that gives up at the first confirmed finding that does not fit. *)
MatchFirstOnly ==
  /\ pc = "static" /\ todo # {}
  /\ LET i == Least(todo)
         first == {j \in Confirmed \ used : j = Least(Confirmed \ used)}
         free == {j \in first : SameSink(i, j)}
     IN  /\ todo' = todo \ {i}
         /\ IF free = {}
            THEN /\ combined' = Append(combined, Entry("static_only", i, 0))
                 /\ UNCHANGED used
            ELSE /\ combined' = Append(combined, Entry("runtime_confirmed", i, Least(free)))
                 /\ used' = used \union {Least(free)}
  /\ UNCHANGED <<inputs, pc, key>>

(* The next static finding takes the first confirmed one of its sink that  *)
(* is left, or stays static_only.                                          *)
Match ==
  /\ pc = "static" /\ todo # {}
  /\ LET i == Least(todo)
         free == {j \in Confirmed \ used : SameSink(i, j)}
     IN  /\ todo' = todo \ {i}
         /\ IF free = {}
            THEN /\ combined' = Append(combined, Entry("static_only", i, 0))
                 /\ UNCHANGED used
            ELSE /\ combined' = Append(combined, Entry("runtime_confirmed", i, Least(free)))
                 /\ used' = used \union {Least(free)}
  /\ UNCHANGED <<inputs, pc, key>>

(* The confirmed findings that are left, forgotten.                        *)
MatchEndsForgets ==
  /\ pc = "static" /\ todo = {}
  /\ todo' = {}
  /\ pc' = "alone"
  /\ UNCHANGED <<inputs, key, used, combined>>

(* The confirmed findings that are left, each on its own ...               *)
MatchEnds ==
  /\ pc = "static" /\ todo = {}
  /\ todo' = Confirmed \ used
  /\ pc' = "alone"
  /\ UNCHANGED <<inputs, key, used, combined>>

Alone ==
  /\ pc = "alone" /\ todo # {}
  /\ combined' = Append(combined, Entry("runtime_confirmed", 0, Least(todo)))
  /\ todo' = todo \ {Least(todo)}
  /\ UNCHANGED <<inputs, pc, key, used>>

(* ... and the runtime_only ones.                                          *)
AloneEnds ==
  /\ pc = "alone" /\ todo = {}
  /\ todo' = RuntimeOf(key, "runtime_only")
  /\ pc' = "only"
  /\ UNCHANGED <<inputs, key, used, combined>>

Only ==
  /\ pc = "only" /\ todo # {}
  /\ combined' = Append(combined, Entry("runtime_only", 0, Least(todo)))
  /\ todo' = todo \ {Least(todo)}
  /\ UNCHANGED <<inputs, pc, key, used>>

OnlyEnds ==
  /\ pc = "only" /\ todo = {}
  /\ pc' = "group"
  /\ UNCHANGED <<inputs, key, todo, used, combined>>

Next ==
  \/ Group \/ Finish \/ Match \/ MatchEnds \/ Alone \/ AloneEnds \/ Only \/ OnlyEnds

Spec == Init /\ [][Next]_vars

-----------------------------------------------------------------------------
(* Properties                                                              *)

Entries == [key : Keys, tier : Tiers, s : 0 .. MaxFindings, r : 0 .. MaxFindings]

TypeOK ==
  /\ static \in Seq(StaticFindings) /\ Len(static) <= MaxFindings
  /\ runtime \in Seq(RuntimeFindings) /\ Len(runtime) <= MaxFindings
  /\ selected \subseteq Keys
  /\ pc \in {"group", "static", "alone", "only", "done"}
  /\ key \in 0 .. LastKey
  /\ todo \subseteq CASE pc = "static" -> StaticOf(key)
                      [] pc = "alone" -> Confirmed \ used
                      [] pc = "only" -> RuntimeOf(key, "runtime_only")
                      [] OTHER -> {}
  /\ used \subseteq Confirmed
  /\ combined \in Seq(Entries)

(* Nothing is reported twice: not a static finding, and not a runtime one, *)
(* which confirms at most one static finding.                              *)
NothingTwice ==
  \A m, n \in DOMAIN combined : m # n =>
    /\ combined[m].s # 0 => combined[m].s # combined[n].s
    /\ combined[m].r # 0 => combined[m].r # combined[n].r

(* Nothing is lost: every finding of a selected key is in the result, but  *)
(* for a runtime finding that only lets the static flag stand; and a key   *)
(* that is filtered out leaves no trace.                                   *)
NothingLost ==
  pc = "done" =>
    /\ \A i \in DOMAIN static :
         static[i].key \in selected <=> \E n \in DOMAIN combined : combined[n].s = i
    /\ \A j \in DOMAIN runtime :
         (runtime[j].key \in selected /\ runtime[j].status # "unconfirmed_static_flag_stands")
           <=> \E n \in DOMAIN combined : combined[n].r = j

(* A static finding is confirmed only by a confirmed finding of the same   *)
(* tool and weakness that exercised its sink.                              *)
OnlyTheExercisedSink ==
  \A n \in DOMAIN combined :
    LET e == combined[n]
    IN  e.s # 0 /\ e.r # 0 =>
          /\ e.tier = "runtime_confirmed"
          /\ runtime[e.r].status = "confirmed"
          /\ static[e.s].key = e.key /\ runtime[e.r].key = e.key
          /\ static[e.s].locs \union runtime[e.r].locs # {} =>
               static[e.s].locs \intersect runtime[e.r].locs # {}

(* --fail-on (README.md:437) lets through no finding of either report: the *)
(* full command exits with 1 when the static or the runtime command would, *)
(* whatever was merged with what, and only then.                           *)
GateAgrees ==
  pc = "done" => \A threshold \in 3 .. 4 :
    FailsOn(threshold) <=>
      \/ \E i \in DOMAIN static : static[i].key \in selected /\ static[i].severity >= threshold
      \/ \E j \in DOMAIN runtime :
           /\ runtime[j].key \in selected /\ runtime[j].status # "unconfirmed_static_flag_stands"
           /\ RuntimeSeverity(j) >= threshold

(* First fit leaves no pair behind: a static finding that stays            *)
(* static_only has the sink of no confirmed finding reported on its own.   *)
NoPairLeft ==
  pc = "done" =>
    \A m, n \in DOMAIN combined :
      combined[m].r = 0 /\ combined[n].s = 0 /\ combined[n].tier = "runtime_confirmed"
        /\ combined[m].key = combined[n].key
        => ~SameSink(combined[m].s, combined[n].r)
=============================================================================
