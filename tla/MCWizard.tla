------------------------------ MODULE MCWizard ------------------------------
(* Two servers, one of them typed as a file, a directory that is none, and *)
(* a script that is next to the first server only.                         *)
EXTENDS Wizard

MCInputs == {"one", "one/server.py", "two", "none"}
MCLooksLike == {"one", "one/server.py", "two"}
MCDir == [i \in MCInputs |-> IF i = "one/server.py" THEN "one" ELSE i]
MCScripts == {"", "runtime.yaml", "no such file"}
MCLoads == {<<"runtime.yaml", "one">>}
MCReports == {<<"a">>, <<"a", "b", "c">>}
=============================================================================
