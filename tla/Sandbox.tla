------------------------------ MODULE Sandbox ------------------------------
(***************************************************************************)
(* dynamic/sandbox/process_provider.py: launch() and teardown() of the     *)
(* audited server, against the processes of that server, which fork, leave *)
(* the process group, ignore SIGTERM and exit as they like.  A process of  *)
(* the server starts as a fork of mcpaegis that has not called exec yet.   *)
(***************************************************************************)
EXTENDS FiniteSets

CONSTANTS
  Leader,    \* the process Popen starts
  Children   \* bound: what it and its descendants may fork

VARIABLES
  line,     \* where launch() or teardown() stands
  refused,  \* launch() raises
  cgroup,   \* the nested cgroup directory exists
  stderr,   \* _stderr_handle is open
  state,    \* of each process: unborn, starting, running, dead
  inside,   \* the processes in the nested cgroup
  group,    \* the processes in the leader's process group
  deaf,     \* the processes that ignore SIGTERM
  doomed,   \* sent a signal they will die of: they run no further instruction
  reaped,   \* the leader's exit status has been collected
  forced,   \* _kill_group has sent SIGKILL
  left      \* _remove_cgroup: processes listed and not yet moved

mcpaegis == <<line, refused, cgroup, stderr, reaped, forced, left>>
server == <<state, inside, group, deaf, doomed>>
sandboxVars == <<mcpaegis, server>>

Procs == {Leader} \union Children

ASSUME SandboxAssumption == Leader \notin Children

Running == {p \in Procs : state[p] = "running"}
Awake == Running \ doomed

SandboxInit ==
  /\ line = "check" /\ refused = FALSE
  /\ cgroup = FALSE /\ stderr = FALSE
  /\ state = [p \in Procs |-> "unborn"]
  /\ inside = {} /\ group = {} /\ deaf = {} /\ doomed = {}
  /\ reaped = FALSE /\ forced = FALSE /\ left = {}

-----------------------------------------------------------------------------
(* launch()                                                                *)

(* Before the nested cgroup exists: no Linux, no such path, no binary, no  *)
(* permission to create it.                                                *)
LaunchRefused ==
  /\ line = "check"
  /\ refused' = TRUE /\ line' = "done"
  /\ UNCHANGED <<cgroup, stderr, reaped, forced, left, server>>

CreateCgroup ==
  /\ line = "check"
  /\ cgroup' = TRUE /\ line' = "stderr"
  /\ UNCHANGED <<refused, stderr, reaped, forced, left, server>>

OpenStderr ==
  /\ line = "stderr"
  /\ stderr' = TRUE /\ line' = "spawn"
  /\ UNCHANGED <<refused, cgroup, reaped, forced, left, server>>

(* stat() or open() raises, with nothing to undo the mkdir.                *)
OpenStderrFails ==
  /\ line = "stderr"
  /\ refused' = TRUE /\ line' = "done"
  /\ UNCHANGED <<cgroup, stderr, reaped, forced, left, server>>

(* Popen forks; the child has a session, hence a group, of its own.        *)
Spawn ==
  /\ line = "spawn"
  /\ state' = [state EXCEPT ![Leader] = "starting"]
  /\ group' = {Leader}
  /\ line' = "exec"
  /\ UNCHANGED <<refused, cgroup, stderr, reaped, forced, left, inside, deaf, doomed>>

(* The exception handler: kill if there is a process, close, remove.       *)
Undo(where) == refused' = TRUE /\ line' = where

(* fork fails.                                                             *)
SpawnFails ==
  /\ line = "spawn"
  /\ Undo("close")
  /\ UNCHANGED <<cgroup, stderr, reaped, forced, left, server>>

(* The child: _enter_cgroup_preexec, then exec.                            *)
EnterCgroup ==
  /\ state[Leader] = "starting" /\ Leader \notin inside
  /\ inside' = inside \union {Leader}
  /\ UNCHANGED <<mcpaegis, state, group, deaf, doomed>>

(* os._exit in the child: Popen does not see it as a failure.              *)
EnterCgroupFails ==
  /\ state[Leader] = "starting" /\ Leader \notin inside
  /\ state' = [state EXCEPT ![Leader] = "dead"]
  /\ UNCHANGED <<mcpaegis, inside, group, deaf, doomed>>

(* An exec that does not wait for the cgroup.                              *)
ExecEarly ==
  /\ state[Leader] = "starting"
  /\ state' = [state EXCEPT ![Leader] = "running"]
  /\ UNCHANGED <<mcpaegis, inside, group, deaf, doomed>>

Exec ==
  /\ state[Leader] = "starting" /\ Leader \in inside
  /\ state' = [state EXCEPT ![Leader] = "running"]
  /\ UNCHANGED <<mcpaegis, inside, group, deaf, doomed>>

(* exec reports its error to Popen, which reaps the child and raises.      *)
ExecFails ==
  /\ line = "exec"
  /\ state[Leader] = "starting" /\ Leader \in inside
  /\ state' = [state EXCEPT ![Leader] = "dead"]
  /\ reaped' = TRUE
  /\ Undo("close")
  /\ UNCHANGED <<cgroup, stderr, forced, left, inside, group, deaf, doomed>>

PopenReturns ==
  /\ line = "exec" /\ state[Leader] \in {"running", "dead"}
  /\ line' = "probe"
  /\ UNCHANGED <<refused, cgroup, stderr, reaped, forced, left, server>>

(* _wait_alive: poll() reaps a leader that has exited.                     *)
WaitAlive ==
  /\ line = "probe"
  /\ IF state[Leader] = "dead"
     THEN reaped' = TRUE /\ Undo("kill")
     ELSE line' = "verify" /\ UNCHANGED <<reaped, refused>>
  /\ UNCHANGED <<cgroup, stderr, forced, left, server>>

(* _pid_in_cgroup: a process that has exited is not listed; nor is any     *)
(* when cgroup.procs cannot be read.                                       *)
PidInCgroup ==
  /\ line = "verify"
  /\ \/ Leader \in Running \intersect inside /\ line' = "serving" /\ UNCHANGED refused
     \/ Undo("kill")
  /\ UNCHANGED <<cgroup, stderr, reaped, forced, left, server>>

-----------------------------------------------------------------------------
(* teardown(), and the exception handler of launch()                       *)

TeardownCalled ==
  /\ line = "serving"
  /\ line' = "kill"
  /\ UNCHANGED <<refused, cgroup, stderr, reaped, forced, left, server>>

(* A signal that ends the processes it reaches.  They die each in its own  *)
(* time (Exit), when the kernel gets to it.                                *)
Doom(S) == doomed' = doomed \union S

(* A _kill_group that does not ask whether the leader has exited.          *)
TermAnyway ==
  /\ line = "kill"
  /\ Doom((group \intersect Running) \ deaf)
  /\ line' = "wait"
  /\ UNCHANGED <<refused, cgroup, stderr, reaped, forced, left, state, inside, group, deaf>>

(* _kill_group: nothing to do once the leader has exited; otherwise        *)
(* SIGTERM, which ends every process of the group that does not ignore it. *)
Term ==
  /\ line = "kill"
  /\ IF state[Leader] = "dead"
     THEN reaped' = TRUE /\ line' = "close" /\ UNCHANGED doomed
     ELSE Doom((group \intersect Running) \ deaf) /\ line' = "wait" /\ UNCHANGED reaped
  /\ UNCHANGED <<refused, cgroup, stderr, forced, left, state, inside, group, deaf>>

(* proc.wait(timeout=5) returns, or proc.wait(timeout=2).                  *)
LeaderExited ==
  /\ line \in {"wait", "killed"} /\ state[Leader] = "dead"
  /\ reaped' = TRUE
  /\ line' = "close"
  /\ UNCHANGED <<refused, cgroup, stderr, forced, left, server>>

(* What could go wrong: no SIGKILL and no end to the wait, none and the    *)
(* wait given up, one for the leader alone.                                *)
NeverKill == FALSE /\ UNCHANGED sandboxVars

KillForgotten ==
  /\ line = "wait"
  /\ line' = "close"
  /\ UNCHANGED <<refused, cgroup, stderr, reaped, forced, left, server>>

KillLeader ==
  /\ line = "wait"
  /\ Doom({Leader})
  /\ forced' = TRUE
  /\ line' = "killed"
  /\ UNCHANGED <<refused, cgroup, stderr, reaped, left, state, inside, group, deaf>>

(* It times out: SIGKILL, and two more seconds for the leader, which may   *)
(* also have exited since.                                                 *)
Kill ==
  /\ line = "wait"
  /\ Doom(group \intersect Running)
  /\ forced' = TRUE
  /\ line' = "killed"
  /\ UNCHANGED <<refused, cgroup, stderr, reaped, left, state, inside, group, deaf>>

(* The two seconds end before the leader has: the exception is dropped.    *)
WaitExpires ==
  /\ line = "killed" /\ state[Leader] # "dead"
  /\ line' = "close"
  /\ UNCHANGED <<refused, cgroup, stderr, reaped, forced, left, server>>

CloseStderr ==
  /\ line = "close"
  /\ stderr' = FALSE /\ line' = "sweep"
  /\ UNCHANGED <<refused, cgroup, reaped, forced, left, server>>

(* _remove_cgroup: one reading of cgroup.procs, one write for each line.   *)
(* A reading that fails ends it; a write that fails leaves its process.    *)
ListCgroup ==
  /\ line = "sweep"
  /\ \/ left' = Running \intersect inside /\ line' = "move"
     \/ line' = "done" /\ UNCHANGED left
  /\ UNCHANGED <<refused, cgroup, stderr, reaped, forced, server>>

Move(p) ==
  /\ line = "move" /\ p \in left
  /\ left' = left \ {p}
  /\ inside' \in {inside, inside \ {p}}
  /\ UNCHANGED <<line, refused, cgroup, stderr, reaped, forced, state, group, deaf, doomed>>

(* rmdir refuses while a process is in the cgroup, and nobody is told.     *)
Rmdir ==
  /\ line = "move" /\ left = {}
  /\ cgroup' = (Running \intersect inside # {})
  /\ line' = "done"
  /\ UNCHANGED <<refused, stderr, reaped, forced, left, server>>

-----------------------------------------------------------------------------
(* The server's processes, which run until a signal or an exit of their own*)

Fork(p, c) ==
  /\ p \in Awake /\ state[c] = "unborn"
  /\ state' = [state EXCEPT ![c] = "running"]
  /\ inside' = IF p \in inside THEN inside \union {c} ELSE inside
  /\ group' = IF p \in group THEN group \union {c} ELSE group
  /\ deaf' = IF p \in deaf THEN deaf \union {c} ELSE deaf
  /\ UNCHANGED <<mcpaegis, doomed>>

Setsid(p) ==
  /\ p \in (Awake \intersect group) \ {Leader}
  /\ group' = group \ {p}
  /\ UNCHANGED <<mcpaegis, state, inside, deaf, doomed>>

IgnoreTerm(p) ==
  /\ p \in Awake \ deaf
  /\ deaf' = deaf \union {p}
  /\ UNCHANGED <<mcpaegis, state, inside, group, doomed>>

Exit(p) ==
  /\ p \in Running
  /\ state' = [state EXCEPT ![p] = "dead"]
  /\ UNCHANGED <<mcpaegis, inside, group, deaf, doomed>>

-----------------------------------------------------------------------------
LaunchStep ==
  \/ LaunchRefused \/ CreateCgroup \/ OpenStderr \/ OpenStderrFails
  \/ Spawn \/ SpawnFails \/ PopenReturns \/ WaitAlive \/ PidInCgroup

ChildStep == EnterCgroup \/ EnterCgroupFails \/ Exec \/ ExecFails

TeardownStep ==
  \/ Term \/ LeaderExited \/ Kill \/ WaitExpires
  \/ CloseStderr \/ ListCgroup \/ (\E p \in Procs : Move(p)) \/ Rmdir

ProcessStep ==
  \/ \E p \in Procs, c \in Children : Fork(p, c)
  \/ \E p \in Procs : Setsid(p) \/ IgnoreTerm(p) \/ Exit(p)

SandboxNext == LaunchStep \/ ChildStep \/ TeardownCalled \/ TeardownStep \/ ProcessStep

(* mcpaegis and its forked child go on; teardown() need never be called,   *)
(* and the server owes nothing.                                            *)
SandboxFairness ==
  /\ WF_sandboxVars(LaunchStep) /\ WF_sandboxVars(ChildStep)
  /\ WF_sandboxVars(TeardownStep)

SandboxSafeSpec == SandboxInit /\ [][SandboxNext]_sandboxVars
SandboxSpec == SandboxSafeSpec /\ SandboxFairness

-----------------------------------------------------------------------------
(* Properties                                                              *)

SandboxTypeOK ==
  /\ line \in {"check", "stderr", "spawn", "exec", "probe", "verify", "serving",
             "kill", "wait", "killed", "close", "sweep", "move", "done"}
  /\ refused \in BOOLEAN /\ cgroup \in BOOLEAN /\ stderr \in BOOLEAN
  /\ reaped \in BOOLEAN /\ forced \in BOOLEAN
  /\ state \in [Procs -> {"unborn", "starting", "running", "dead"}]
  /\ inside \subseteq Procs /\ group \subseteq Procs /\ deaf \subseteq Procs
  /\ doomed \subseteq Procs /\ left \subseteq Procs
  /\ reaped => state[Leader] = "dead"

(* Until teardown moves them out, all processes that run server code are   *)
(* in the nested cgroup, from their first instruction: forks, sessions of  *)
(* their own and a failed launch() leave none outside the cgroup filter of *)
(* the eBPF programs.                                                      *)
Contained == line # "move" /\ line # "done" => Running \subseteq inside

(* When launch() has raised or teardown() has returned, the leader is not  *)
(* running and not a zombie, whether it exited before or on SIGTERM; it is *)
(* at worst one that was sent SIGKILL and had not died two seconds later.  *)
LeaderGone ==
  line = "done" =>
    \/ state[Leader] = "unborn"
    \/ state[Leader] = "dead" /\ reaped
    \/ forced /\ Leader \in doomed

(* Once SIGKILL was needed, no process of the leader's group runs server   *)
(* code any more when teardown() returns, nor can one be forked: some may  *)
(* have yet to die, since the code waits for the leader only.              *)
KillIsComplete ==
  line = "done" /\ forced => group \intersect Awake = {}

(* The code signals no group but the server's: not after it has collected  *)
(* the leader's status, when the number may belong to somebody else.       *)
NoSignalAfterReaping ==
  [][(line = "kill" /\ line' = "wait") \/ forced # forced' => ~reaped]_sandboxVars

(* launch() ends, and teardown() ends once called, however many processes  *)
(* the server forks and whatever they ignore.                              *)
Ends ==
  /\ line = "check" ~> line \in {"serving", "done"}
  /\ line = "kill" ~> line = "done"
=============================================================================
