----------------------------- MODULE Attribution -----------------------------
(***************************************************************************)
(* static/taint/: which tools a sink belongs to.  call_graph.py walks the  *)
(* callers of the function that holds the sink back to the handlers of the *)
(* tools, semgrep_runner.py turns the two scans into facts and merges them.*)
(*                                                                         *)
(* A function is its definition in a file, and holds at most one sink.     *)
(* A place is what the code knows of one: its file, the name of the        *)
(* function it is in, and its line.                                        *)
(***************************************************************************)
EXTENDS Integers, FiniteSets

CONSTANTS
  Tools,
  Rank,      \* the place of each in the listing
  Fns,       \* the functions of the server's source
  PlaceOf,   \* the place of the sink in each
  TopLevel,  \* those that are not nested in another
  SinkOf,    \* the type of the sink in each
  Locations, \* the places where discovery finds tools declared
  MaxHops,   \* MAX_HOPS
  MaxCalls   \* bound: calls in the source

None == "none"
Places == [file : STRING \ {None}, name : STRING \ {None}, line : Nat]
Nowhere == [file |-> None, name |-> None, line |-> 0]

ASSUME AttributionAssumption ==
  /\ IsFiniteSet(Tools) /\ IsFiniteSet(Fns) /\ None \notin Tools \union Fns
  /\ Rank \in [Tools -> 1 .. Cardinality(Tools)]
  /\ \A t, u \in Tools : Rank[t] = Rank[u] => t = u
  /\ PlaceOf \in [Fns -> Places] /\ Locations \subseteq Places /\ TopLevel \subseteq Fns
  /\ SinkOf \in [Fns -> {"shell_exec", "file_read", "file_write", "network_call", "db_query",
                         "dynamic_code_load", "credential_read"}]
  /\ MaxHops \in Nat /\ MaxCalls \in Nat

Names == {PlaceOf[f].name : f \in Fns}

(* A call is kept as its caller and the name that is called.               *)
Graphs == {calls \in SUBSET (Fns \X Names) : Cardinality(calls) <= MaxCalls}

(* source_location of each tool: the handler's name in its file with the   *)
(* line of its definition or, where the source is searched with patterns,  *)
(* the tool's name with the line of its registration.                      *)
Handlers == [Tools -> Locations \union {Nowhere}]

First(S) == IF S = {} THEN None ELSE CHOOSE t \in S : \A u \in S : Rank[t] <= Rank[u]
Last(S) == IF S = {} THEN None ELSE CHOOSE t \in S : \A u \in S : Rank[u] <= Rank[t]

(* _entrypoint_index: by file and name the last tool of the listing, by    *)
(* the name alone the first.                                               *)
Named(h, p) == {t \in Tools : h[t].name = p.name}
InFile(h, p) == {t \in Named(h, p) : h[t].file = p.file}

(* _tools_at: by file and name, or by file and line.                       *)
ToolsAt(h, p) ==
  {t \in Tools : h[t].file = p.file /\ (h[t].name = p.name \/ h[t].line = p.line)}

(* match_tool: any function of the handler's name in its file is the       *)
(* tool's; else, as the qualified name of a top-level function is its      *)
(* name, the tool of that name.  A nested function of the name in another  *)
(* file is refused, for the index knows the handler's file.                *)
Match(h) ==
  [f \in Fns |-> IF InFile(h, PlaceOf[f]) # {} THEN Last(InFile(h, PlaceOf[f]))
                 ELSE IF f \in TopLevel THEN First(Named(h, PlaceOf[f])) ELSE None]

Callers(calls, f) == {c \in Fns : <<c, PlaceOf[f].name>> \in calls}

(* It goes on from every function.                                         *)
HopsThroughHandlers(start, calls, m) ==
  LET hop[n \in 0 .. MaxHops] ==
        IF n = 0 THEN {start}
        ELSE (UNION {Callers(calls, f) : f \in hop[n - 1]}) \ (UNION {hop[k] : k \in 0 .. n - 1})
  IN  hop

(* The functions the search comes to at each hop.  A function that is      *)
(* some tool's is not searched from, unless the search starts there.       *)
Hops(start, calls, m) ==
  LET hop[n \in 0 .. MaxHops] ==
        IF n = 0 THEN {start}
        ELSE (UNION {Callers(calls, f) : f \in {g \in hop[n - 1] : n = 1 \/ m[g] = None}})
             \ (UNION {hop[k] : k \in 0 .. n - 1})
  IN  hop

(* reverse_paths: the tools the search meets.                              *)
ReversePaths(start, calls, m) ==
  {m[f] : f \in UNION {Hops(start, calls, m)[n] : n \in 0 .. MaxHops}} \ {None}

(* _proximate_attributions where no callers are searched: the tools of the *)
(* place, else of the name.                                                *)
Nearest(h, p) ==
  IF ToolsAt(h, p) # {} THEN ToolsAt(h, p) ELSE {First(Named(h, p))} \ {None}

(* _tool_from_taint_source: the tool of the place the taint comes from.    *)
Tainting(h, p, language) ==
  IF language = "python" /\ InFile(h, p) # {} THEN Last(InFile(h, p))
  ELSE IF ToolsAt(h, p) # {} THEN First(ToolsAt(h, p))
  ELSE First(Named(h, p))

(* _direct_attributions: that tool; without one, those of the sink's place.*)
Direct(site, from, h, language) ==
  IF from # Nowhere /\ Tainting(h, from, language) # None
  THEN {Tainting(h, from, language)}
  ELSE ToolsAt(h, PlaceOf[site])

(* Where a taint can come from: a line in a function, if the trace says.   *)
Sources == {[PlaceOf[f] EXCEPT !.line = l.line] : f \in Fns, l \in Locations} \union {Nowhere}

(* _facts_from_results: a sink nobody reaches is a fact of no tool; a      *)
(* tainted one is dropped.                                                 *)
ProximateFacts(site, hits) ==
  {[tool |-> t, site |-> site, confidence |-> "proximate"] : t \in IF hits = {} THEN {None} ELSE hits}
DirectFacts(site, hits) == {[tool |-> t, site |-> site, confidence |-> "direct"] : t \in hits}

SameFact(f, g) == f.tool = g.tool /\ f.site = g.site

(* _merge_facts: of one tool and one sink, the direct fact.                *)
Merge(proximate, direct) ==
  {f \in proximate : ~\E g \in direct : SameFact(f, g)} \union direct

-----------------------------------------------------------------------------
(* What the search is for                                                  *)

(* A path of calls from a function that counts as the tool's to the sink,  *)
(* of at most MaxHops calls, with no tool's function in between.           *)
Reaches(t, site, calls, m) ==
  \E k \in 0 .. MaxHops : \E p \in [0 .. k -> Fns] :
    /\ p[0] = site /\ m[p[k]] = t
    /\ \A i \in 0 .. k - 1 : p[i + 1] \in Callers(calls, p[i])
    /\ \A i \in 1 .. k - 1 : m[p[i]] = None

(* Every outcome of a search in any source, next to what it should be.     *)
Searches ==
  {[handler |-> h, site |-> s, hits |-> ReversePaths(s, calls, Match(h)),
    reaching |-> {t \in Tools : Reaches(t, s, calls, Match(h))}] :
     h \in Handlers, calls \in Graphs, s \in Fns}
=============================================================================
