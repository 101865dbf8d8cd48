------------------------------- MODULE Wizard -------------------------------
(***************************************************************************)
(* tui/app.py: the wizard's screens, from the mode to the report, with     *)
(* polish_report() and the streaming LLM client behind it.                 *)
(*                                                                         *)
(* The app handles one event at a time.  The worker's call_from_thread     *)
(* runs a handler there and waits for it, so each of them is one step; the *)
(* typing of the report is a task of its own, which gives way at every     *)
(* chunk.  RunAnalysis has what the worker does before the report.         *)
(***************************************************************************)
EXTENDS Integers, Sequences

CONSTANTS
  Inputs,     \* what can be typed as a path
  LooksLike,  \* those looks_like_mcp_server() accepts
  Dir,        \* the directory each stands for: its parent when it is a file
  Scripts,    \* what can be typed as a script; Blank is none
  Blank,
  Loads,      \* <<script, directory>> looks_like_test_script() accepts
  Words,      \* what the LLM may send, a chunk of text each
  Where,      \* the line "Reports: ..." that names the output directory
  Reports,    \* local texts of a report: sequences of chunks
  MaxWords,   \* bound: deltas of one answer
  MaxRuns     \* bound: runs

VARIABLES
  app,        \* "up", or "gone" after quit
  stack,      \* the screens, the last on top
  mode, llmOn, serverPath, testScript, busy,   \* fields of WizardApp
  view,       \* fields of the RunScreen and what its Markdown shows
  runs,       \* history: runs so far
  worker,     \* where the worker thread stands
  args,       \* what it was given
  failed,     \* result.error is set
  pieces,     \* handle()'s buf: what the LLM has sent
  body        \* history: the final text of this run

choice == <<mode, llmOn, serverPath, testScript>>
job == <<args, failed, pieces, body>>
vars == <<app, stack, choice, busy, view, runs, worker, job>>

ASSUME WizardAssumption ==
  /\ LooksLike \subseteq Inputs /\ Blank \in Scripts
  /\ \A i \in Inputs : Dir[i] # ""
  /\ MaxRuns \in Nat /\ MaxWords \in Nat

Modes == {"static", "runtime", "full"}
Top == stack[Len(stack)]
Push(screen) == Append(stack, screen)
Pop == SubSeq(stack, 1, Len(stack) - 1)

-----------------------------------------------------------------------------
(* The RunScreen: one operator per method, from its fields to its fields   *)

NewView ==
  [ready |-> FALSE, done |-> FALSE, error |-> FALSE, typing |-> FALSE,
   target |-> <<>>, shown |-> <<>>, md |-> <<>>]

OpenReport(v, error) == [v EXCEPT !.error = error, !.md = <<>>]

(* set_report: an error is shown as it is, a report is typed; the task     *)
(* that is typing, if any, is cancelled for a new one.                     *)
SetReport(v, text) ==
  IF v.error
    THEN [v EXCEPT !.target = text, !.md = text]
    ELSE [v EXCEPT !.target = text, !.typing = TRUE]

(* A finish_report that does not tell the typing task that this is all.    *)
FinishUntold(v, text, error) ==
  LET told == SetReport([v EXCEPT !.error = error], text)
  IN  IF error THEN [told EXCEPT !.ready = TRUE] ELSE told

FinishReport(v, text, error) ==
  LET told == SetReport([v EXCEPT !.error = error, !.done = TRUE], text)
  IN  IF error THEN [told EXCEPT !.ready = TRUE] ELSE told

(* The next text to show: a chunk more, of the same text or of a new one.  *)
Longer(shown, target) ==
  IF Len(shown) + 1 < Len(target) THEN SubSeq(target, 1, Len(shown) + 1) ELSE target

(* A task that stops typing as soon as it has been told the last text.     *)
TypeLess(v) ==
  LET longer == Longer(v.shown, v.target)
  IN  IF v.done \/ v.shown = v.target
        THEN [v EXCEPT !.ready = v.done, !.typing = ~v.done]
        ELSE [v EXCEPT !.shown = longer, !.md = longer]

(* _type_report, from one sleep to the next.                               *)
TypeOn(v) ==
  LET longer == Longer(v.shown, v.target)
  IN  IF v.shown = v.target
        THEN [v EXCEPT !.ready = v.done, !.typing = ~v.done]
        ELSE [v EXCEPT !.shown = longer, !.md = longer]

-----------------------------------------------------------------------------
Init ==
  /\ app = "up" /\ stack = <<"mode">>
  /\ mode = "full" /\ llmOn \in BOOLEAN /\ serverPath = "" /\ testScript = Blank
  /\ busy = FALSE /\ view = NewView /\ runs = 0
  /\ worker = "idle" /\ args = [path |-> "", script |-> Blank]
  /\ failed = FALSE /\ pieces = <<>> /\ body = <<>>

(* The user                                                                *)

SetMode(m) ==
  /\ app = "up" /\ Top = "mode"
  /\ mode' = m
  /\ UNCHANGED <<app, stack, llmOn, serverPath, testScript, busy, view, runs, worker, job>>

SetLlm ==
  /\ app = "up" /\ Top = "model"
  /\ llmOn' = ~llmOn
  /\ UNCHANGED <<app, stack, mode, serverPath, testScript, busy, view, runs, worker, job>>

Enter ==
  /\ app = "up"
  /\ \/ Top = "mode" /\ stack' = Push("model")
     \/ Top = "model" /\ stack' = Push("path")
  /\ UNCHANGED <<app, choice, busy, view, runs, worker, job>>

Back ==
  /\ app = "up" /\ Top \in {"model", "path", "script"}
  /\ stack' = Pop
  /\ UNCHANGED <<app, choice, busy, view, runs, worker, job>>

(* _advance: any other path is refused with a message.                     *)
SubmitPath(i) ==
  /\ app = "up" /\ Top = "path"
  /\ i \in LooksLike
  /\ serverPath' = Dir[i] /\ stack' = Push("script")
  /\ UNCHANGED <<app, mode, llmOn, testScript, busy, view, runs, worker, job>>

(* start_run, with a script that has been set in the same handler.         *)
StartRun(script) ==
  IF busy \/ serverPath = ""
    THEN UNCHANGED <<stack, busy, view, runs, worker, job>>
    ELSE /\ runs < MaxRuns
         /\ busy' = TRUE /\ stack' = Push("run") /\ view' = NewView
         /\ runs' = runs + 1 /\ worker' = "work"
         /\ args' = [path |-> serverPath, script |-> script]
         /\ failed' = FALSE /\ pieces' = <<>> /\ body' = <<>>

(* A blank that leaves the script of an earlier turn as it was.            *)
SubmitScriptKeeps(s) ==
  /\ app = "up" /\ Top = "script"
  /\ s = Blank \/ <<s, serverPath>> \in Loads
  /\ testScript' = IF s = Blank THEN testScript ELSE s
  /\ StartRun(testScript')
  /\ UNCHANGED <<app, mode, llmOn, serverPath>>

(* on_input_submitted: what does not load is refused with a message.       *)
SubmitScript(s) ==
  /\ app = "up" /\ Top = "script"
  /\ s = Blank \/ <<s, serverPath>> \in Loads
  /\ testScript' = s
  /\ StartRun(s)
  /\ UNCHANGED <<app, mode, llmOn, serverPath>>

(* action_again: back to the first screen.                                 *)
Again ==
  /\ app = "up" /\ Top = "run" /\ view.ready
  /\ stack' = <<"mode">> /\ busy' = FALSE /\ view' = NewView
  /\ UNCHANGED <<app, choice, runs, worker, job>>

(* Escape on the first screen, quit typed with no field in focus, ctrl+q.  *)
Quit ==
  /\ app = "up"
  /\ app' = "gone"
  /\ UNCHANGED <<stack, choice, busy, view, runs, worker, job>>

-----------------------------------------------------------------------------
(* The worker                                                              *)

(* run_analysis: a result, or an error in it.                              *)
Analyse ==
  /\ app = "up" /\ worker = "work"
  /\ failed' \in BOOLEAN
  /\ worker' = "open"
  /\ UNCHANGED <<app, stack, choice, busy, view, runs, args, pieces, body>>

(* It waits for a command, and no command of its has a timeout.            *)
AnalysisHangs ==
  /\ app = "up" /\ worker = "work"
  /\ worker' = "hung"
  /\ UNCHANGED <<app, stack, choice, busy, view, runs, job>>

Open ==
  /\ app = "up" /\ worker = "open"
  /\ view' = OpenReport(view, failed)
  /\ worker' = IF ~failed /\ llmOn THEN "stream" ELSE "local"
  /\ UNCHANGED <<app, stack, choice, busy, runs, job>>

(* The error's text, or fallback_tui_report without an LLM.                *)
Local ==
  /\ app = "up" /\ worker = "local"
  /\ body' \in IF failed THEN {<<"error">>} ELSE {Append(r, Where) : r \in Reports}
  /\ view' = SetReport(view, body')
  /\ worker' = "finish"
  /\ UNCHANGED <<app, stack, choice, busy, runs, args, failed, pieces>>

WithWhere(text) ==
  IF \E n \in DOMAIN text : text[n] = Where THEN text ELSE Append(text, Where)

(* on_report, unless it is too soon after the last time.                   *)
OnReport(text) == view' \in {view, SetReport(view, WithWhere(text))}

(* A delta of the stream, or the whole answer after a stream that broke,   *)
(* which comes on top of what had been received.                           *)
Delta(w) ==
  /\ app = "up" /\ worker = "stream"
  /\ Len(pieces) < MaxWords
  /\ pieces' = Append(pieces, w)
  /\ OnReport(pieces')
  /\ UNCHANGED <<app, stack, choice, busy, runs, worker, args, failed, body>>

(* polish_report returns: the LLM's text, or the report as it is when      *)
(* there is none.                                                          *)
Polished(text) ==
  /\ \/ text # <<>> /\ body' = WithWhere(text)
     \/ text = <<>> /\ \E r \in Reports : body' = WithWhere(r)
  /\ OnReport(body')
  /\ worker' = "finish"

StreamEnds ==
  /\ app = "up" /\ worker = "stream"
  /\ Polished(pieces)
  /\ UNCHANGED <<app, stack, choice, busy, runs, args, failed, pieces>>

(* complete_stream falls back to complete, with an answer or none.         *)
StreamBreaks ==
  /\ app = "up" /\ worker = "stream"
  /\ \E answer \in {<<>>} \union {<<w>> : w \in Words} :
       pieces' = pieces \o answer /\ Polished(answer)
  /\ UNCHANGED <<app, stack, choice, busy, runs, args, failed>>

(* An exception neither of them catches ends the thread.                   *)
PolishRaises ==
  /\ app = "up" /\ worker = "stream"
  /\ worker' = "lost"
  /\ UNCHANGED <<app, stack, choice, busy, view, runs, job>>

(* _finish.                                                                *)
Finish ==
  /\ app = "up" /\ worker = "finish"
  /\ view' = FinishReport(view, body, failed)
  /\ busy' = FALSE /\ worker' = "idle"
  /\ UNCHANGED <<app, stack, choice, runs, job>>

(* The report's task goes on for another chunk.                            *)
Type ==
  /\ app = "up" /\ view.typing
  /\ TypeOn(view) # view
  /\ view' = TypeOn(view)
  /\ UNCHANGED <<app, stack, choice, busy, runs, worker, job>>

-----------------------------------------------------------------------------
User ==
  \/ \E m \in Modes : SetMode(m)
  \/ SetLlm \/ Enter \/ Back \/ Again \/ Quit
  \/ \E i \in Inputs : SubmitPath(i)
  \/ \E s \in Scripts : SubmitScript(s)

Worker ==
  \/ Analyse \/ Open \/ Local \/ StreamEnds \/ StreamBreaks \/ PolishRaises \/ Finish
  \/ \E w \in Words : Delta(w)

Next == User \/ Worker \/ AnalysisHangs \/ Type

(* The worker goes on unless run_analysis hangs: it returns when each      *)
(* command it waits for ends (RunAnalysis), and the LLM's answer ends or   *)
(* is timed out.  The event loop runs its tasks; the user owes nothing.    *)
Fairness == WF_vars(Worker) /\ WF_vars(Type)

SafeSpec == Init /\ [][Next]_vars
Spec == SafeSpec /\ Fairness

-----------------------------------------------------------------------------
(* Properties                                                              *)

(* The user may leave for a new run only when the screen shows the final   *)
(* text, whole, whatever was streamed, dropped or typed before it, and     *)
(* whether the stream broke or the run failed.                             *)
ReportShown == Top = "run" /\ view.ready => view.md = body /\ worker = "idle"

(* A run is given a directory that was taken for an MCP server and no      *)
(* script, or one that loads next to that very directory, however often    *)
(* the user went back and forth before, in this run or an earlier one.     *)
RunsWhatWasChecked ==
  busy => /\ \E i \in LooksLike : Dir[i] = args.path
          /\ args.script = Blank \/ <<args.script, args.path>> \in Loads

(* The report of a run gets on the screen, typed to its end, and a new run *)
(* is allowed, unless a command of the run never ends: or the user has     *)
(* quit, or polishing raised.                                              *)
ReportEnds == busy ~> view.ready \/ app = "gone" \/ worker \in {"lost", "hung"}
=============================================================================
