---------------------------- MODULE RunAnalysis ----------------------------
(***************************************************************************)
(* lima/orchestrate.py: run_analysis(), with the Lima VM it starts and     *)
(* stops (lima/vm.py) and the wizard's worker thread that calls it         *)
(* (tui/app.py).  The VM and the report files outlive the process.         *)
(*                                                                         *)
(* The worker's cancel flag is set by action_quit alone, which also ends   *)
(* the app: from then on every log call of the worker raises, and as a     *)
(* daemon thread it dies with the interpreter at any moment.  The command  *)
(* it was running in the guest, or under sudo, may outlive it.             *)
(***************************************************************************)
EXTENDS Integers

CONSTANTS
  Platforms,  \* the hosts: "Darwin" (runtime in the VM), "Linux"
  MaxRun      \* bound: runs, over all processes

VARIABLES
  platform,
  app,       \* the wizard: "up", "gone" after quit
  screen,    \* "wizard" or "run"
  ready,     \* RunScreen._ready: the user may ask for a new run
  busy,      \* WizardApp._busy
  worker,    \* where the worker stands
  mode,      \* static, runtime or full
  now,       \* the number of the current or last run
  static,    \* result.static_report: the run it is from, 0 for None
  dynamic,   \* result.dynamic_report
  merged,    \* result.combined_report: has been made
  error,     \* result.error is set
  files,     \* the run that wrote each report file, 0 when there is none
  vm,        \* status of the Lima instance
  hung,      \* the command the worker waits for never ends
  orphans,   \* the runs that were abandoned with their command at work
  late,      \* history: the orphans that have written a report
  unstopped  \* history: in this run limactl list failed with the VM to be
             \* stopped, or limactl stop did

ui == <<app, screen, ready, busy>>
commands == <<hung, orphans, late>>
result == <<static, dynamic, merged, error>>
runVars == <<platform, ui, worker, mode, now, result, files, vm, commands, unstopped>>

ASSUME RunAnalysisAssumption ==
  /\ Platforms \subseteq {"Darwin", "Linux"}
  /\ MaxRun \in Nat

Modes == {"static", "runtime", "full"}
Reports == {"static", "runtime", "combined"}

UsesVm == platform = "Darwin" /\ mode # "static"

RunInit ==
  /\ platform \in Platforms
  /\ app = "up" /\ screen = "wizard" /\ ready = FALSE /\ busy = FALSE
  /\ worker = "idle" /\ mode \in Modes /\ now = 0
  /\ static = 0 /\ dynamic = 0 /\ merged = FALSE /\ error = FALSE
  /\ files = [r \in Reports |-> 0]
  /\ vm \in {"absent", "stopped"}
  /\ hung = FALSE /\ orphans = {} /\ late = {}
  /\ unstopped = FALSE

-----------------------------------------------------------------------------
(* The wizard                                                              *)

(* start_run: a new worker, unless one is at work.                         *)
StartRun(m) ==
  /\ app = "up" /\ screen = "wizard" /\ ~busy
  /\ now < MaxRun
  /\ busy' = TRUE /\ screen' = "run" /\ ready' = FALSE
  /\ mode' = m /\ now' = now + 1
  /\ static' = 0 /\ dynamic' = 0 /\ merged' = FALSE /\ error' = FALSE
  /\ unstopped' = FALSE
  /\ worker' = "prepare"
  /\ UNCHANGED <<platform, app, files, vm, commands>>

(* An action_again that does not ask whether the screen is ready.          *)
AgainAnytime ==
  /\ app = "up" /\ screen = "run"
  /\ screen' = "wizard" /\ busy' = FALSE
  /\ UNCHANGED <<platform, app, ready, worker, mode, now, result, files, vm, commands, unstopped>>

(* action_again and reset_wizard.                                          *)
Again ==
  /\ app = "up" /\ screen = "run" /\ ready
  /\ screen' = "wizard" /\ busy' = FALSE
  /\ UNCHANGED <<platform, app, ready, worker, mode, now, result, files, vm, commands, unstopped>>

Quit ==
  /\ app = "up"
  /\ app' = "gone"
  /\ UNCHANGED <<platform, screen, ready, busy, worker, mode, now, result, files, vm, commands, unstopped>>

(* The worker's next log call raises, in the finally block as well, or the *)
(* interpreter is gone; limactl is sent SIGTERM if there is still time.    *)
Abandoned ==
  /\ app = "gone" /\ worker # "dead"
  /\ worker' = "dead" /\ hung' = FALSE
  /\ orphans' \in IF worker = "guest" THEN {orphans, orphans \union {now}} ELSE {orphans}
  /\ UNCHANGED <<platform, ui, mode, now, result, files, vm, late, unstopped>>

(* The user starts mcpaegis again.                                         *)
Relaunch ==
  /\ worker = "dead"
  /\ app' = "up" /\ screen' = "wizard" /\ ready' = FALSE /\ busy' = FALSE
  /\ worker' = "idle"
  /\ UNCHANGED <<platform, mode, now, result, files, vm, commands, unstopped>>

-----------------------------------------------------------------------------
(* run_analysis(): the try statement                                       *)

(* On to the next step, which logs first: the last one after quit.         *)
Step(next) == worker' = IF app = "up" THEN next ELSE "dead"

Goto(next) == Step(next) /\ UNCHANGED error

(* Any exception: result.error, then the finally block.                    *)
Fail == Step("finally") /\ error' = TRUE

(* prepare_paths raises before the try statement: no finally block.        *)
Prepare ==
  /\ worker = "prepare"
  /\ \/ Goto(IF mode = "runtime" THEN "host" ELSE "static")
     \/ Step("deliver") /\ error' = TRUE
  /\ UNCHANGED <<platform, ui, mode, now, static, dynamic, merged, files, vm, commands, unstopped>>

Static ==
  /\ worker = "static"
  /\ \/ /\ static' = now
        /\ files' = [files EXCEPT !["static"] = now]
        /\ Goto(IF mode = "full" THEN "host" ELSE "render")
     \/ Fail /\ UNCHANGED static /\ files' \in {files, [files EXCEPT !["static"] = now]}
  /\ UNCHANGED <<platform, ui, mode, now, dynamic, merged, vm, commands, unstopped>>

(* ensure_lima_cli, and ensure_instance up to limactl start, which boots a *)
(* VM that is not up.  limactl list may fail and show nothing: the start   *)
(* is then of an instance to be created, whatever the VM is doing.         *)
Host ==
  /\ worker = "host"
  /\ \/ platform = "Linux" /\ Goto("guest") /\ UNCHANGED vm
     \/ platform = "Darwin" /\ Fail /\ UNCHANGED vm
     \/ platform = "Darwin" /\ vm = "running" /\ Goto("venv") /\ UNCHANGED vm
     \/ platform = "Darwin" /\ vm # "running" /\ Goto("boot") /\ vm' = "starting"
     \/ platform = "Darwin" /\ vm = "running" /\ Goto("boot") /\ UNCHANGED vm
  /\ UNCHANGED <<platform, ui, mode, now, static, dynamic, merged, files, commands, unstopped>>

(* limactl start ends, with the VM up or not.                              *)
Boot ==
  /\ worker = "boot"
  /\ Goto("await") \/ Fail
  /\ UNCHANGED <<platform, ui, mode, now, static, dynamic, merged, files, vm, commands, unstopped>>

(* Polling that never gives up.                                            *)
AwaitForever ==
  /\ worker = "await"
  /\ vm = "running" /\ Goto("venv")
  /\ UNCHANGED <<platform, ui, mode, now, static, dynamic, merged, files, vm, commands, unstopped>>

(* Running within 90 seconds, by what limactl list says.                   *)
Await ==
  /\ worker = "await"
  /\ (vm = "running" /\ Goto("venv")) \/ Fail
  /\ UNCHANGED <<platform, ui, mode, now, static, dynamic, merged, files, vm, commands, unstopped>>

(* venv_ready or ensure_venv.                                              *)
Venv ==
  /\ worker = "venv"
  /\ Goto("guest") \/ Fail
  /\ UNCHANGED <<platform, ui, mode, now, static, dynamic, merged, files, vm, commands, unstopped>>

(* An exit code that nobody looks at.                                      *)
GuestCodeIgnored ==
  /\ worker = "guest"
  /\ files' \in {files, [files EXCEPT !["runtime"] = now]}
  /\ Goto("load")
  /\ UNCHANGED <<platform, ui, mode, now, static, dynamic, merged, vm, commands, unstopped>>

(* mcpaegis runtime in the guest, or under sudo on Linux: it exits 0 only  *)
(* with its report written; on any other code the run fails.               *)
Guest ==
  /\ worker = "guest"
  /\ \/ files' = [files EXCEPT !["runtime"] = now] /\ Goto("load")
     \/ files' \in {files, [files EXCEPT !["runtime"] = now]} /\ Fail
  /\ UNCHANGED <<platform, ui, mode, now, static, dynamic, merged, vm, commands, unstopped>>

(* The report is read back when its file is there; a bad one raises.       *)
Load ==
  /\ worker = "load"
  /\ \/ /\ dynamic' = files["runtime"]
        /\ Goto(IF mode = "full" THEN "merge" ELSE "render")
     \/ files["runtime"] # 0 /\ Fail /\ UNCHANGED dynamic
  /\ UNCHANGED <<platform, ui, mode, now, static, merged, files, vm, commands, unstopped>>

Merge ==
  /\ worker = "merge"
  /\ \/ /\ merged' = TRUE
        /\ files' = [files EXCEPT !["combined"] = now]
        /\ Goto("render")
     \/ Fail /\ UNCHANGED merged /\ files' \in {files, [files EXCEPT !["combined"] = now]}
  /\ UNCHANGED <<platform, ui, mode, now, static, dynamic, vm, commands, unstopped>>

Render ==
  /\ worker = "render"
  /\ Goto("finally") \/ Fail
  /\ UNCHANGED <<platform, ui, mode, now, static, dynamic, merged, files, vm, commands, unstopped>>

-----------------------------------------------------------------------------
(* The finally block                                                       *)

(* A stop after success only.                                              *)
StopSkippedOnError ==
  /\ worker = "finally"
  /\ Step(IF UsesVm /\ vm = "running" /\ ~error THEN "stop" ELSE "deliver")
  /\ UNCHANGED <<platform, ui, mode, now, result, files, vm, commands, unstopped>>

(* stop_instance leaves alone an instance that is not listed as Running;   *)
(* nor is one that runs, when limactl list fails or is not there.          *)
StopUnlessDown ==
  /\ worker = "finally"
  /\ \/ Step(IF UsesVm /\ vm = "running" THEN "stop" ELSE "deliver") /\ UNCHANGED unstopped
     \/ UsesVm /\ vm = "running" /\ Step("deliver") /\ unstopped' = TRUE
  /\ UNCHANGED <<platform, ui, mode, now, result, files, vm, commands>>

(* limactl stop, which ends every command in the guest; its failure is a   *)
(* warning.                                                                *)
Stop ==
  /\ worker = "stop"
  /\ \/ vm' = "stopped" /\ orphans' = {} /\ UNCHANGED unstopped
     \/ unstopped' = TRUE /\ UNCHANGED <<vm, orphans>>
  /\ Step("deliver")
  /\ UNCHANGED <<platform, ui, mode, now, result, files, hung, late>>

(* The worker hands the result to the screen; polishing the text with the  *)
(* LLM can raise, and then _finish never comes.                            *)
Deliver ==
  /\ app = "up" /\ worker = "deliver"
  /\ \/ busy' = FALSE /\ ready' = TRUE /\ worker' = "idle"
     \/ ~error /\ worker' = "lost" /\ UNCHANGED <<busy, ready>>
  /\ UNCHANGED <<platform, app, screen, mode, now, result, files, vm, commands, unstopped>>

-----------------------------------------------------------------------------
(* Outside the process                                                     *)

(* An orphan comes to its end and writes its report, over a later one.     *)
OrphanWrites(n) ==
  /\ n \in orphans
  /\ files' = [files EXCEPT !["runtime"] = n]
  /\ orphans' = orphans \ {n} /\ late' = late \union {n}
  /\ UNCHANGED <<platform, ui, worker, mode, now, result, vm, hung, unstopped>>

(* A boot ends, in its own time.                                           *)
Booted ==
  /\ vm = "starting"
  /\ vm' \in {"running", "stopped"}
  /\ UNCHANGED <<platform, ui, worker, mode, now, result, files, commands, unstopped>>

(* None of the commands has a timeout: limactl, brew, sudo, and whatever   *)
(* they run in the guest.                                                  *)
Hangs ==
  /\ ~hung
  /\ \/ worker = "guest"
     \/ UsesVm /\ worker \in {"host", "boot", "await", "venv", "finally", "stop"}
  /\ hung' = TRUE
  /\ UNCHANGED <<platform, ui, worker, mode, now, result, files, vm, orphans, late, unstopped>>

-----------------------------------------------------------------------------
WorkerStep ==
  \/ Prepare \/ Static \/ Host \/ Boot \/ Await \/ Venv \/ Guest
  \/ Load \/ Merge \/ Render \/ StopUnlessDown \/ Stop \/ Deliver

(* It goes on when the command has ended that it waits for.                *)
Worker == ~hung /\ WorkerStep

User == (\E m \in Modes : StartRun(m)) \/ Again \/ Quit \/ Relaunch

RunNext ==
  \/ Worker \/ User \/ Abandoned
  \/ Hangs \/ Booted \/ (\E n \in 1 .. MaxRun : OrphanWrites(n))

(* The worker goes on while no command hangs, and an interpreter ends that *)
(* has been told to; commands, the VM and orphans owe nothing.             *)
RunFairness == WF_runVars(Worker) /\ WF_runVars(Abandoned)

RunSafeSpec == RunInit /\ [][RunNext]_runVars
RunSpec == RunSafeSpec /\ RunFairness

-----------------------------------------------------------------------------
(* Properties                                                              *)

WorkerTypeOK ==
  /\ platform \in Platforms
  /\ app \in {"up", "gone"} /\ screen \in {"wizard", "run"}
  /\ ready \in BOOLEAN /\ busy \in BOOLEAN
  /\ worker \in {"idle", "dead", "lost", "prepare", "static", "host", "boot",
             "await", "venv", "guest", "load", "merge", "render", "finally",
             "stop", "deliver"}
  /\ mode \in Modes
  /\ merged \in BOOLEAN /\ error \in BOOLEAN
  /\ hung \in BOOLEAN /\ unstopped \in BOOLEAN
  /\ vm \in {"absent", "stopped", "starting", "running"}

RunsTypeOK ==
  /\ now \in 0 .. MaxRun
  /\ static \in {0, now} /\ dynamic \in 0 .. now
  /\ files \in [Reports -> 0 .. now]
  /\ orphans \subseteq 1 .. now /\ late \subseteq 1 .. now
  /\ now = 0 => worker \in {"idle", "dead"}

RunTypeOK == WorkerTypeOK /\ RunsTypeOK

Delivered == worker = "deliver" /\ ~error

(* A run that ends without an error delivers the reports of its mode, all  *)
(* made by this run: a file that an earlier run left in the output         *)
(* directory never passes for its own, unless the command of an abandoned  *)
(* run has written it in the meantime.                                     *)
OwnReports ==
  Delivered =>
    /\ static = IF mode = "runtime" THEN 0 ELSE now
    /\ IF mode = "static" THEN dynamic = 0 ELSE dynamic \in {now} \union late
    /\ merged <=> mode = "full"
    /\ mode # "runtime" => files["static"] = now
    /\ mode = "full" => files["combined"] = now

(* One worker at a time: the wizard is back only once the worker is done,  *)
(* however the run ended.                                                  *)
WizardMeansIdle == app = "up" /\ screen = "wizard" => worker = "idle" /\ ~busy

(* A run that used the VM does not deliver its result with it running,     *)
(* whatever failed in between, unless limactl itself failed at the end: to *)
(* list the VM, or to stop it.                                             *)
StoppedWhenDelivered ==
  [][UsesVm /\ worker \in {"finally", "stop"} /\ worker' = "deliver"
       => vm' # "running" \/ unstopped' = TRUE]_runVars

(* Every run ends, unless a command it waits for never does: its result is *)
(* on the screen with a new run allowed, or the user has quit, or          *)
(* polishing the report raised.  A boot or a listing that never shows the  *)
(* VM running holds up no run.                                             *)
RunEnds == busy ~> ~busy \/ worker \in {"dead", "lost"} \/ hung
=============================================================================
