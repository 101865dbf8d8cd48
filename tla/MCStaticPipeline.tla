-------------------------- MODULE MCStaticPipeline --------------------------
(***************************************************************************)
(* The static pipeline on small instances: four functions, so that a chain *)
(* of callers can be longer than MaxHops, two of one name in one file, one *)
(* of them nested.  A tool is declared by its handler, or with a pattern,  *)
(* on the line of a sink and with the name of a function of another file.  *)
(***************************************************************************)
EXTENDS StaticPipeline, TLC

CONSTANTS f1, f2, f3, f4, t1, t2

MCFns == {f1, f2, f3, f4}
At(file, name, line) == [file |-> file, name |-> name, line |-> line]
MCPlaceOf ==
  f1 :> At("a.py", "run", 12) @@ f2 :> At("a.py", "load", 20)
    @@ f3 :> At("a.py", "run", 32) @@ f4 :> At("b.py", "main", 12)
MCTopLevel == {f1, f2, f4}
MCLocations == {At("a.py", "run", 10), At("a.py", "main", 20)}
MCSinkOf ==
  f1 :> "shell_exec" @@ f2 :> "dynamic_code_load" @@ f3 :> "shell_exec" @@ f4 :> "shell_exec"
MCTools == {t1, t2}
MCRank == t1 :> 1 @@ t2 :> 2
MCKeywords ==
  [t \in Tools |-> IF t \in Suspicious THEN {"SHELL_EXEC"} ELSE {"BENIGN_UTILITY"}]
=============================================================================
