---------------------------- MODULE WizardProofs ----------------------------
(***************************************************************************)
(* Proofs about the wizard, for any inputs, scripts, reports and answers:  *)
(* what a run is given was checked in this very form (Choosing), and the   *)
(* way to a new run opens on the final text alone (Showing).               *)
(***************************************************************************)
EXTENDS Wizard, TLAPS

Names == {"mode", "model", "path", "script", "run"}

Screens ==
  [n \in 1 .. 5 |-> CASE n = 1 -> "mode" [] n = 2 -> "model" [] n = 3 -> "path"
                       [] n = 4 -> "script" [] n = 5 -> "run"]

(* The screens are stacked in one order, and a run is on its own screen.   *)
Stacked ==
  /\ stack \in Seq(Names) /\ Len(stack) \in 1 .. 5
  /\ \A k \in 1 .. Len(stack) : stack[k] = Screens[k]
  /\ busy <=> worker # "idle"
  /\ busy => Top = "run"

IsServer(path) == \E i \in LooksLike : Dir[i] = path

Choosing ==
  /\ Stacked
  /\ Top = "script" => IsServer(serverPath)
  /\ RunsWhatWasChecked

(* The fields of the RunScreen.                                            *)
FieldNames == {"ready", "done", "error", "typing", "target", "shown", "md"}

Fields(v) ==
  /\ DOMAIN v = FieldNames /\ v = [f \in DOMAIN v |-> v[f]]
  /\ v.ready \in BOOLEAN /\ v.done \in BOOLEAN
  /\ v.error \in BOOLEAN /\ v.typing \in BOOLEAN

(* The screen and the worker behind it: what is typed is what is shown,    *)
(* an error is never typed, and only _finish tells that this is all.       *)
Showing ==
  /\ Fields(view) /\ failed \in BOOLEAN
  /\ Top # "run" \/ worker \in {"work", "open", "hung"} => view = NewView
  /\ view.done => worker = "idle" /\ view.target = body
  /\ view.ready => worker = "idle" /\ view.md = body /\ ~view.typing
  /\ ~view.error => view.md = view.shown
  /\ view.error => ~view.typing
  /\ worker \in {"local", "stream", "finish", "lost"} => (view.error <=> failed)
  /\ worker = "stream" => ~failed

-----------------------------------------------------------------------------
(* The screens and what is chosen on them                                  *)

LEMMA ScreenAt ==
  /\ Screens[1] = "mode" /\ Screens[2] = "model" /\ Screens[3] = "path"
  /\ Screens[4] = "script" /\ Screens[5] = "run"
  /\ \A n \in 1 .. 5 : Screens[n] \in Names
  BY DEF Screens, Names

LEMMA TopIs ==
  ASSUME Stacked
  PROVE  /\ Top = Screens[Len(stack)]
         /\ Top = "mode" <=> Len(stack) = 1
         /\ Top = "model" <=> Len(stack) = 2
         /\ Top = "path" <=> Len(stack) = 3
         /\ Top = "script" <=> Len(stack) = 4
         /\ Top = "run" <=> Len(stack) = 5
<1>1. Len(stack) \in 1 .. 5 /\ \A k \in 1 .. Len(stack) : stack[k] = Screens[k]
  BY DEF Stacked
<1>2. Len(stack) \in 1 .. Len(stack)
  BY <1>1
<1>3. Top = Screens[Len(stack)]
  BY <1>1, <1>2 DEF Top
<1>4. CASE Len(stack) = 1  BY <1>3, <1>4, ScreenAt
<1>5. CASE Len(stack) = 2  BY <1>3, <1>5, ScreenAt
<1>6. CASE Len(stack) = 3  BY <1>3, <1>6, ScreenAt
<1>7. CASE Len(stack) = 4  BY <1>3, <1>7, ScreenAt
<1>8. CASE Len(stack) = 5  BY <1>3, <1>8, ScreenAt
<1> QED  BY <1>1, <1>4, <1>5, <1>6, <1>7, <1>8

LEMMA PushScreen ==
  ASSUME Stacked, NEW n \in 2 .. 5, Len(stack) = n - 1, stack' = Append(stack, Screens[n])
  PROVE  /\ stack' \in Seq(Names) /\ Len(stack') = n
         /\ \A k \in 1 .. Len(stack') : stack'[k] = Screens[k]
<1> DEFINE s == Screens[n]
<1>1. s \in Names
  BY ScreenAt
<1> HIDE DEF s
<1>2. stack' = Append(stack, s) /\ stack \in Seq(Names)
  BY DEF s, Stacked
<1>3. /\ stack' \in Seq(Names) /\ Len(stack') = n /\ stack'[n] = s
      /\ \A k \in 1 .. n - 1 : stack'[k] = stack[k]
  BY <1>1, <1>2
<1> QED  BY <1>3 DEF Stacked, s

(* The first screen alone.                                                 *)
LEMMA FirstScreen ==
  LET first == <<"mode">>
  IN  /\ first \in Seq(Names) /\ Len(first) = 1 /\ first[1] = "mode"
      /\ \A k \in 1 .. Len(first) : first[k] = Screens[k]
<1>1. <<"mode">> \in Seq(Names)
  BY DEF Names
<1>2. Len(<<"mode">>) = 1
  OBVIOUS
<1>3. <<"mode">>[1] = "mode"
  OBVIOUS
<1> QED  BY <1>1, <1>2, <1>3, ScreenAt

LEMMA PopScreen ==
  ASSUME Stacked, Len(stack) > 1, stack' = Pop
  PROVE  /\ stack' \in Seq(Names) /\ Len(stack') = Len(stack) - 1
         /\ \A k \in 1 .. Len(stack') : stack'[k] = Screens[k]
  BY DEF Stacked, Pop

LEMMA InitChoosing == Init => Choosing
<1> SUFFICES ASSUME Init PROVE Choosing
  OBVIOUS
<1>1. stack = <<"mode">> /\ busy = FALSE /\ worker = "idle"
  BY DEF Init
<1>2. Stacked /\ Top = "mode"
  BY <1>1, FirstScreen DEF Stacked, Top
<1> QED  BY <1>1, <1>2 DEF Choosing, RunsWhatWasChecked

(* A step that leaves the stack, the choices and the run alone.            *)
LEMMA SameChoice ==
  ASSUME Choosing, UNCHANGED <<stack, serverPath, busy, args>>,
         worker' = "idle" <=> worker = "idle"
  PROVE  Choosing'
  BY DEF Choosing, Stacked, Top, IsServer, RunsWhatWasChecked

LEMMA NextChoosing == Choosing /\ Showing /\ [Next]_vars => Choosing'
<1> SUFFICES ASSUME Choosing, Showing, [Next]_vars PROVE Choosing'
  OBVIOUS
<1>a. Stacked /\ RunsWhatWasChecked
  BY DEF Choosing
<1>1. ASSUME NEW m \in Modes, SetMode(m) PROVE Choosing'
  BY <1>1, SameChoice DEF SetMode, job
<1>2. CASE SetLlm  BY <1>2, SameChoice DEF SetLlm, job
<1>3. CASE Enter
  <2>1. \E n \in 2 .. 3 : Len(stack) = n - 1 /\ stack' = Append(stack, Screens[n])
    <3>1. CASE Top = "mode" /\ stack' = Push("model")
      <4>1. Len(stack) = 2 - 1 /\ stack' = Append(stack, Screens[2])
        BY <3>1, <1>a, TopIs, ScreenAt DEF Push
      <4> QED  BY <4>1
    <3>2. CASE Top = "model" /\ stack' = Push("path")
      <4>1. Len(stack) = 3 - 1 /\ stack' = Append(stack, Screens[3])
        BY <3>2, <1>a, TopIs, ScreenAt DEF Push
      <4> QED  BY <4>1
    <3> QED  BY <1>3, <3>1, <3>2 DEF Enter
  <2>2. /\ stack' \in Seq(Names) /\ Len(stack') \in 2 .. 3
        /\ \A k \in 1 .. Len(stack') : stack'[k] = Screens[k]
    BY <1>a, <2>1, PushScreen
  <2>3. ~busy /\ UNCHANGED <<serverPath, busy, worker, args>>
    BY <1>3, <1>a DEF Enter, Stacked, choice, job
  <2>4. Stacked'
    BY <1>a, <2>2, <2>3 DEF Stacked
  <2>5. (Top # "script")'
    <3>1. CASE Len(stack') = 2  BY <2>2, <3>1, ScreenAt DEF Top
    <3>2. CASE Len(stack') = 3  BY <2>2, <3>2, ScreenAt DEF Top
    <3> QED  BY <2>2, <3>1, <3>2
  <2> QED  BY <2>3, <2>4, <2>5 DEF Choosing, RunsWhatWasChecked
<1>4. CASE Back
  <2>1. Len(stack) \in 2 .. 4 /\ stack' = Pop
    BY <1>4, <1>a, TopIs DEF Back
  <2>2. /\ stack' \in Seq(Names) /\ Len(stack') \in 1 .. 3
        /\ \A k \in 1 .. Len(stack') : stack'[k] = Screens[k]
    <3>1. /\ stack' \in Seq(Names) /\ Len(stack') = Len(stack) - 1
          /\ \A k \in 1 .. Len(stack') : stack'[k] = Screens[k]
      BY <1>a, <2>1, PopScreen
    <3> QED  BY <2>1, <3>1
  <2>3. ~busy /\ UNCHANGED <<serverPath, busy, worker, args>>
    BY <1>4, <1>a DEF Back, Stacked, choice, job
  <2>4. Stacked' /\ Len(stack') # 4
    BY <1>a, <2>1, <2>2, <2>3 DEF Stacked
  <2>5. (Top # "script")'
    <3>1. CASE Len(stack') = 1  BY <2>2, <3>1, ScreenAt DEF Top
    <3>2. CASE Len(stack') = 2  BY <2>2, <3>2, ScreenAt DEF Top
    <3>3. CASE Len(stack') = 3  BY <2>2, <3>3, ScreenAt DEF Top
    <3> QED  BY <2>1, <2>2, <3>1, <3>2, <3>3
  <2> QED  BY <2>3, <2>4, <2>5 DEF Choosing, RunsWhatWasChecked
<1>5. CASE Again
  <2>1. stack' = <<"mode">> /\ busy' = FALSE /\ worker' = worker /\ worker = "idle"
    BY <1>5 DEF Again, Showing
  <2>2. Stacked' /\ (Top = "mode")'
    BY <2>1, FirstScreen DEF Stacked, Top
  <2> QED  BY <2>1, <2>2 DEF Choosing, RunsWhatWasChecked
<1>6. CASE Quit  BY <1>6, SameChoice DEF Quit, choice, job
<1>7. ASSUME NEW i \in Inputs, SubmitPath(i) PROVE Choosing'
  <2>1. Len(stack) = 3 /\ stack' = Push("script") /\ IsServer(serverPath')
    BY <1>7, <1>a, TopIs DEF SubmitPath, IsServer
  <2>2. /\ stack' \in Seq(Names) /\ Len(stack') = 4
        /\ \A k \in 1 .. Len(stack') : stack'[k] = Screens[k]
    <3>1. stack' = Append(stack, Screens[4]) /\ Len(stack) = 4 - 1
      BY <2>1, ScreenAt DEF Push
    <3> QED  BY <1>a, <3>1, PushScreen
  <2>3. ~busy /\ UNCHANGED <<busy, worker, args>>
    BY <1>7, <1>a DEF SubmitPath, Stacked, job
  <2>4. Stacked'
    BY <1>a, <2>2, <2>3 DEF Stacked
  <2>5. IsServer(serverPath)'
    BY <2>1 DEF IsServer
  <2> QED  BY <2>3, <2>4, <2>5 DEF Choosing, RunsWhatWasChecked
<1>8. ASSUME NEW s \in Scripts, SubmitScript(s) PROVE Choosing'
  <2>1. Len(stack) = 4 /\ IsServer(serverPath) /\ ~busy
    BY <1>8, <1>a, TopIs DEF SubmitScript, Choosing, Stacked
  <2>2. serverPath # ""
    BY <2>1, WizardAssumption DEF IsServer
  <2>3. /\ stack' = Append(stack, "run") /\ busy' = TRUE /\ worker' = "work"
        /\ args' = [path |-> serverPath, script |-> s]
        /\ s = Blank \/ <<s, serverPath>> \in Loads
    BY <1>8, <2>1, <2>2 DEF SubmitScript, StartRun, Push
  <2>4. /\ stack' \in Seq(Names) /\ Len(stack') = 5
        /\ \A k \in 1 .. Len(stack') : stack'[k] = Screens[k]
    <3>1. stack' = Append(stack, Screens[5]) /\ Len(stack) = 5 - 1
      BY <2>1, <2>3, ScreenAt
    <3> QED  BY <1>a, <3>1, PushScreen
  <2>5. (Top = "run")'
    BY <2>4, ScreenAt DEF Top
  <2>6. Stacked'
    BY <2>3, <2>4, <2>5 DEF Stacked
  <2>7. RunsWhatWasChecked'
    BY <2>1, <2>3 DEF RunsWhatWasChecked, IsServer
  <2> QED  BY <2>5, <2>6, <2>7 DEF Choosing
<1>9. CASE Finish
  BY <1>9, <1>a DEF Finish, Choosing, Stacked, Top, IsServer, RunsWhatWasChecked,
                    choice, job
<1>10. CASE Worker /\ ~Finish
  <2>1. UNCHANGED <<stack, serverPath, busy, args>> /\ worker # "idle" /\ worker' # "idle"
    BY <1>10 DEF Worker, Analyse, Open, Local, StreamEnds, StreamBreaks, Polished,
                 PolishRaises, Delta, choice, job
  <2> QED  BY <2>1, SameChoice
<1>11. CASE Type  BY <1>11, SameChoice DEF Type, choice, job
<1>12. CASE UNCHANGED vars  BY <1>12, SameChoice DEF vars, choice, job
<1>13. CASE AnalysisHangs  BY <1>13, SameChoice DEF AnalysisHangs, choice, job
<1> QED
  BY <1>1, <1>2, <1>3, <1>4, <1>5, <1>6, <1>7, <1>8, <1>9, <1>10, <1>11, <1>12, <1>13
  DEF Next, User

-----------------------------------------------------------------------------
(* What the screen shows                                                   *)

LEMMA NewViewIs ==
  /\ Fields(NewView) /\ ~NewView.ready /\ ~NewView.done /\ ~NewView.error
  /\ ~NewView.typing /\ NewView.md = NewView.shown /\ NewView.shown = <<>>
  BY DEF NewView, Fields, FieldNames

LEMMA InitShowing == Init => Showing
  BY NewViewIs DEF Init, Showing

(* The operators on the screen, field by field.                            *)
LEMMA SetReportDoes ==
  ASSUME NEW v, Fields(v), NEW text
  PROVE  LET w == SetReport(v, text)
         IN  /\ Fields(w) /\ w.target = text /\ w.shown = v.shown
             /\ w.ready = v.ready /\ w.done = v.done /\ w.error = v.error
             /\ v.error => w.md = text /\ w.typing = v.typing
             /\ ~v.error => w.md = v.md /\ w.typing
  BY DEF SetReport, Fields, FieldNames

LEMMA TypeOnDoes ==
  ASSUME NEW v, Fields(v), v.done \in BOOLEAN
  PROVE  LET w == TypeOn(v)
         IN  /\ Fields(w) /\ w.target = v.target /\ w.done = v.done /\ w.error = v.error
             /\ v.shown = v.target =>
                  w.md = v.md /\ w.shown = v.shown /\ w.ready = v.done /\ w.typing = ~v.done
             /\ v.shown # v.target =>
                  w.md = w.shown /\ w.ready = v.ready /\ w.typing = v.typing
  BY DEF TypeOn, Fields, FieldNames

LEMMA FinishReportDoes ==
  ASSUME NEW v, Fields(v), NEW text, NEW error \in BOOLEAN
  PROVE  LET w == FinishReport(v, text, error)
         IN  /\ Fields(w) /\ w.target = text /\ w.shown = v.shown
             /\ w.done /\ w.error = error
             /\ error => w.md = text /\ w.typing = v.typing /\ w.ready
             /\ ~error => w.md = v.md /\ w.typing /\ w.ready = v.ready
  BY DEF FinishReport, SetReport, Fields, FieldNames

LEMMA OpenReportDoes ==
  ASSUME NEW v, Fields(v), NEW error \in BOOLEAN
  PROVE  LET w == OpenReport(v, error)
         IN  /\ Fields(w) /\ w.shown = v.shown /\ w.md = <<>> /\ w.error = error
             /\ w.ready = v.ready /\ w.done = v.done /\ w.typing = v.typing
  BY DEF OpenReport, Fields, FieldNames

(* A step that leaves the screen and the worker alone.                     *)
LEMMA SameShowing ==
  ASSUME Showing, UNCHANGED <<view, worker, body, failed>>,
         (Top # "run")' => Top # "run"
  PROVE  Showing'
  BY DEF Showing

LEMMA NextShowing == Choosing /\ Showing /\ [Next]_vars => Showing'
<1> SUFFICES ASSUME Choosing, Showing, [Next]_vars PROVE Showing'
  OBVIOUS
<1>a. Stacked
  BY DEF Choosing
<1>1. ASSUME NEW m \in Modes, SetMode(m) PROVE Showing'
  BY <1>1, SameShowing DEF SetMode, Top, job
<1>2. CASE SetLlm  BY <1>2, SameShowing DEF SetLlm, Top, job
<1>3. CASE Enter
  <2>1. view = NewView /\ UNCHANGED <<view, worker, body, failed>>
    BY <1>3 DEF Enter, Showing, job
  <2> QED  BY <2>1, NewViewIs DEF Showing
<1>4. CASE Back
  <2>1. view = NewView /\ UNCHANGED <<view, worker, body, failed>>
    BY <1>4 DEF Back, Showing, job
  <2> QED  BY <2>1 DEF Showing
<1>5. CASE Again
  <2>1. view' = NewView /\ UNCHANGED <<worker, body, failed>> /\ worker = "idle"
    BY <1>5 DEF Again, Showing, job
  <2> QED  BY <2>1, NewViewIs DEF Showing
<1>6. CASE Quit  BY <1>6, SameShowing DEF Quit, Top, job
<1>7. ASSUME NEW i \in Inputs, SubmitPath(i) PROVE Showing'
  <2>1. view = NewView /\ UNCHANGED <<view, worker, body, failed>>
    BY <1>7 DEF SubmitPath, Showing, job
  <2> QED  BY <2>1 DEF Showing
<1>8. ASSUME NEW s \in Scripts, SubmitScript(s) PROVE Showing'
  <2>1. view = NewView
    BY <1>8 DEF SubmitScript, Showing
  <2>2. CASE UNCHANGED <<view, worker, job>>
    BY <2>1, <2>2 DEF Showing, job
  <2>3. CASE view' = NewView /\ worker' = "work" /\ failed' = FALSE
    BY <2>3, NewViewIs DEF Showing
  <2> QED  BY <1>8, <2>2, <2>3 DEF SubmitScript, StartRun
<1>9. CASE Analyse
  BY <1>9, NewViewIs DEF Analyse, Showing
<1>10. CASE Open
  <2>1. view = NewView /\ view' = OpenReport(NewView, failed) /\ failed \in BOOLEAN
    BY <1>10 DEF Open, Showing
  <2>2. /\ Fields(view') /\ view'.shown = <<>> /\ view'.md = <<>> /\ view'.error = failed
        /\ ~view'.ready /\ ~view'.done /\ ~view'.typing
    BY <2>1, OpenReportDoes, NewViewIs
  <2>3. /\ worker' \in {"local", "stream"} /\ (worker' = "stream" => ~failed)
        /\ failed' = failed /\ stack' = stack /\ Top = "run"
    BY <1>10, <1>a DEF Open, Stacked, job
  <2> QED  BY <2>2, <2>3 DEF Showing, Top
<1>11. CASE Type
  <2>1. /\ view.typing /\ view' = TypeOn(view) /\ Fields(view) /\ ~view.error
        /\ UNCHANGED <<stack, worker, body, failed>>
    BY <1>11 DEF Type, Showing, job
  <2>2. Top = "run" /\ worker \notin {"work", "open", "hung"}
    BY <2>1, NewViewIs DEF Showing
  <2>3. view.done \in BOOLEAN
    BY <2>1 DEF Fields
  <2>4. /\ Fields(view') /\ view'.target = view.target /\ view'.done = view.done /\ view'.error = view.error
        /\ view.shown = view.target =>
             /\ view'.md = view.md /\ view'.shown = view.shown
             /\ view'.ready = view.done /\ view'.typing = ~view.done
        /\ view.shown # view.target =>
             view'.md = view'.shown /\ view'.ready = view.ready /\ view'.typing = view.typing
    BY <2>1, <2>3, TypeOnDoes
  <2>5. CASE view.shown = view.target
    BY <2>1, <2>2, <2>3, <2>4, <2>5 DEF Showing, Top
  <2>6. CASE view.shown # view.target
    BY <2>1, <2>2, <2>3, <2>4, <2>6 DEF Showing, Top
  <2> QED  BY <2>5, <2>6
<1>12. CASE Local
  <2>1. /\ view' = SetReport(view, body') /\ worker = "local" /\ worker' = "finish"
        /\ UNCHANGED <<stack, failed>>
    BY <1>12 DEF Local
  <2>2. Top = "run" /\ Fields(view) /\ ~view.done /\ ~view.ready
    BY <1>a, <2>1 DEF Showing, Stacked
  <2>3. /\ Fields(view') /\ view'.target = body' /\ view'.shown = view.shown
        /\ view'.ready = view.ready /\ view'.done = view.done /\ view'.error = view.error
        /\ view.error => view'.typing = view.typing
        /\ ~view.error => view'.md = view.md
    <3>1. view' = SetReport(view, body') /\ Fields(view)
      BY <2>1, <2>2
    <3> QED  BY <3>1, SetReportDoes
  <2> QED  BY <2>1, <2>2, <2>3 DEF Showing, Top
<1>13. CASE StreamEnds \/ StreamBreaks \/ \E w \in Words : Delta(w)
  <2>1. PICK text : OnReport(text)
    BY <1>13 DEF StreamEnds, StreamBreaks, Polished, Delta
  <2>2. worker = "stream" /\ worker' \in {"stream", "finish"} /\ UNCHANGED <<stack, failed>>
    BY <1>13 DEF StreamEnds, StreamBreaks, Polished, Delta
  <2>3. /\ Top = "run" /\ Fields(view) /\ ~view.done /\ ~view.ready
        /\ ~view.error /\ ~failed /\ view.md = view.shown
    BY <1>a, <2>2 DEF Showing, Stacked
  <2>4. /\ Fields(view') /\ view'.shown = view.shown /\ view'.ready = view.ready
        /\ view'.done = view.done /\ view'.error = view.error /\ view'.md = view.md
    <3>1. CASE view' = view  BY <2>3, <3>1
    <3>2. CASE view' = SetReport(view, WithWhere(text))  BY <2>3, <3>2, SetReportDoes
    <3> QED  BY <2>1, <3>1, <3>2 DEF OnReport
  <2> QED  BY <2>2, <2>3, <2>4 DEF Showing, Top
<1>14. CASE PolishRaises
  <2>1. worker = "stream" /\ worker' = "lost" /\ UNCHANGED <<stack, view, failed, body>>
    BY <1>14 DEF PolishRaises, job
  <2>2. Top = "run" /\ ~view.done /\ ~view.ready
    BY <1>a, <2>1 DEF Showing, Stacked
  <2> QED  BY <2>1, <2>2 DEF Showing, Top
<1>15. CASE Finish
  <2>1. /\ view' = FinishReport(view, body, failed) /\ worker = "finish" /\ worker' = "idle"
        /\ UNCHANGED <<stack, failed, body>>
    BY <1>15 DEF Finish, job
  <2>2. /\ Top = "run" /\ Fields(view) /\ failed \in BOOLEAN /\ (view.error <=> failed)
        /\ ~view.ready /\ (~view.error => view.md = view.shown) /\ (view.error => ~view.typing)
    BY <1>a, <2>1 DEF Showing, Stacked
  <2>3. /\ Fields(view') /\ view'.target = body /\ view'.shown = view.shown
        /\ view'.done /\ view'.error = failed
        /\ failed => view'.md = body /\ view'.typing = view.typing /\ view'.ready
        /\ ~failed => view'.md = view.md /\ view'.typing /\ view'.ready = view.ready
    <3>1. view' = FinishReport(view, body, failed) /\ Fields(view) /\ failed \in BOOLEAN
      BY <2>1, <2>2
    <3> QED  BY <3>1, FinishReportDoes
  <2> QED  BY <2>1, <2>2, <2>3 DEF Showing, Top
<1>16. CASE AnalysisHangs
  BY <1>16, NewViewIs DEF AnalysisHangs, Showing, job
<1>17. CASE UNCHANGED vars  BY <1>17, SameShowing DEF vars, Top, job
<1> QED
  BY <1>1, <1>2, <1>3, <1>4, <1>5, <1>6, <1>7, <1>8, <1>9, <1>10, <1>11, <1>12,
     <1>13, <1>14, <1>15, <1>16, <1>17
  DEF Next, User, Worker

LEMMA Always == Spec => [](Choosing /\ Showing)
<1>1. Init => Choosing /\ Showing
  BY InitChoosing, InitShowing
<1>2. Choosing /\ Showing /\ [Next]_vars => (Choosing /\ Showing)'
  BY NextChoosing, NextShowing
<1> QED  BY <1>1, <1>2, PTL DEF Spec, SafeSpec

(* A run gets a directory that was taken for a server, and no script or    *)
(* one that loads next to it, whichever way the user came to the last      *)
(* screen.                                                                 *)
THEOREM RunsWhatWasCheckedHolds == Spec => []RunsWhatWasChecked
  BY Always, PTL DEF Choosing

(* Where a new run can be started the screen shows the final text, of any  *)
(* length, whatever was streamed and typed before it.                      *)
THEOREM ReportShownHolds == Spec => []ReportShown
<1>1. Showing => ReportShown
  BY DEF Showing, ReportShown
<1> QED  BY <1>1, Always, PTL
=============================================================================
