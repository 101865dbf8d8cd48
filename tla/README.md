# MCPAegis: a TLA+ model of its audits

MCPAegis audits MCP servers. It reads a server's source (static analysis), runs
the server in a cgroup under eBPF and calls its tools (runtime analysis), and
merges what both have found. This directory holds TLA+ modules of the parts that
are hard to test: the JSON-RPC client, the static pipeline with its taint
attribution, the runtime pipeline with its event source, the behavior tree and
the verdicts on it, the sandbox, the run with its Lima VM and the pipes of its
commands, the wizard, and the merge. Each is checked with TLC on small instances,
and what matters most is proved with TLAPS for all values of the constants.

## 1. The system

| part | source | state | operations | interacts with |
|---|---|---|---|---|
| MCP client | `core/mcp_client.py` | `_next_id`, `_buf`, deadline | `request`, `notify`, `close`; `_read_message`, `_fill`, `_try_parse` | the server's pipes; called by discovery and the pipeline |
| Runtime pipeline | `dynamic/pipeline.py`, `pre_execution_auditor.py` | audits, trees, verifications, witnesses | `run`, `_dispatch_call` | sandbox, monitor, client, verifier, report |
| eBPF monitor | `dynamic/ebpf/monitor.py`, `bpf_programs.c` | `_running`, `_bpf`, `_buffer`; the kernel's perf ring | `start`, `drain`, `stop`, `_on_event` | events of the cgroup; polled by the pipeline |
| Process sandbox | `dynamic/sandbox/process_provider.py` | process group, nested cgroup, stderr log | `launch`, `teardown` | the server's processes |
| Run and VM | `lima/orchestrate.py`, `lima/vm.py`, `lima/stream.py`, `lima/guest.py` | `RunResult`, report files, the VM; `buf` of a command's output | `run_analysis`, `ensure_instance`, `shell`, `stop_instance`, `_run_pipes` | the guest; called by the wizard's worker |
| Wizard | `tui/app.py` | `_busy`, `_cancel`, `_ready`, the screens, what is typed | `start_run`, `_worker`, `_finish`, `action_again`, `action_quit`; `set_report`, `_type_report` | run_analysis in a daemon thread; the LLM's stream |
| Merger | `combine/merger.py` | grouped findings, `used_runtime` | `merge`, `_combine_group` | both reports |
| Static pipeline | `static/pipeline.py`, `discovery.py`, `advertisement.py`, `cross_check.py`, `report_builder.py`, ... | the tools, three lanes of findings, the profiles | `discover`, the lanes, the joins, `assemble`, `write_reports` | a server for its handshake; a thread pool; the LLM; its profiles go to the runtime pipeline |
| Taint analysis | `static/taint/*` | call graph, Semgrep results | `reverse_paths`, `run`, `_merge_facts` | Semgrep; lane B |
| Verification | `dynamic/post_execution_verifier.py`, `runtime_judge.py`, `report_builder.py` | decisions and findings | `verify_post`, `judge`, `derive_findings` | behavior tree, LLM |
| Behavior tree | `dynamic/behavior_tree.py`, `observed_capabilities` of `post_execution_verifier.py` | the nodes of one window | `assemble`, `observed_capabilities` | events of the monitor; pipeline, verifier |
| Canaries, sinks | `dynamic/canary.py`, `sink_inspector.py` | none | `match_text`, `inspect` | pipeline |
| Classifiers, LLM client, writers, CLI | `static/*`, `llm/*`, `output/*`, `cli.py` | none or configuration | text in, text out; the gate of `--fail-on` | everything |

The hard behaviour: the server is a hostile counterpart that answers late, in
pieces, out of order or never, acts between calls, forks, ignores signals and
exits; events reach user space only when somebody polls; five resources
(cgroup, process group, stderr log, BPF programs, VM) must be released whatever
raises; the wizard's worker is a daemon thread that quit abandons; report files
and the VM outlive the process that made them; a model may answer anything, late
or in pieces, and its answer replaces what the code has concluded; lanes run side
by side and any of them may raise.

What makes each part correct:

* client: a call ends with a message of its own number or as a failure, once, by its
  deadline;
* pipeline: the report covers the plan; the sandbox is torn down whatever raises;
* monitor: an event is counted once, and never under a call older than its cause;
* behavior tree: no event is out of the tree's reach, no process under a stranger;
* verdicts: what nobody explains is not silent, a leak is reported, and no answer
  of the model leaves a report that contradicts itself;
* static pipeline: a sink belongs to the tools that reach it, the profiles say so,
  and a run that fails leaves no lane running and no server that was not sent SIGKILL;
* sandbox: no server code runs outside the cgroup, and none in the leader's group
  once SIGKILL was needed; the leader is collected, or at worst dying;
* run: a report delivered is this run's; the VM is stopped after an error as well,
  if `limactl` does what it is asked;
* pipes: the lines of a command's output, whole and once; the loop ends;
* wizard: one worker at a time, on what was checked; the report shown is the last
  one, whole;
* merger: nothing lost, nothing twice, only an exercised sink is confirmed, and the
  gate sees what it would see in either report.

`PROJECT.json` lists every component under `components` and the hazards, each at
its line, with the properties that cover it, under `hazards`.

## 2. The modules

```
RpcPort      <== implemented by ==  McpClient   (MCMcpClient, McpClientProofs)
   ^                                            INSTANCE RpcPort WITH ...
   | INSTANCE
RuntimePipeline --INSTANCE--> Monitor      Sandbox    (RuntimePipelineProofs: both)
BehaviorTree (BehaviorTreeProofs)          Verdicts   (VerdictsProofs)
Attribution <--EXTENDS-- StaticPipeline    (MCStaticPipeline, StaticPipelineProofs)
RunAnalysis      RunPipes                  (RunProofs: both)
Wizard (MCWizard, WizardProofs)            Merger     (MergerProofs)
```

The modules follow one audit: StaticPipeline makes the profiles Verdicts judges by;
RuntimePipeline makes the calls and their windows of events, BehaviorTree makes a
tree of a window, Verdicts findings of the trees, Merger one report of both;
RunAnalysis strings the commands together, RunPipes is each command, Wizard is the
user's side. They are checked one by one: what one takes as any value of a type
(a profile, a set of capabilities, a report) covers what the other makes. Sandbox
and RunAnalysis put their own name before `Init`, `Next` and `Spec`, so that one
module of proofs can extend each of them together with another module.

**RpcPort** is the abstract specification of a request: numbered from 1, one
outstanding, ended once as a failure or because the server has sent a message of its
number: `named` has those numbers. There is no stream and no clock in it.

**McpClient** is `mcp_client.py`. The server's stdout is a sequence of tokens,
the pieces `_try_parse` can tell apart: both halves of a JSON object, a line end,
other text, a `Content-Length` header. `pc` says where `request()` stands: in the
write, before a parse, in `select`. `Parse` is the head of `_read_message`'s loop,
`Fill` a chunk of any length, `SelectTimeout` and `FillEof` its two last
attempts, `Deliver` the body of `request()`'s loop; `Expire` is the clock. The
`Server...` actions are outside the repository and owe nothing; a request of the
server's own may bear a number of the client's, and `claimed` remembers which do, for
`request()` takes it for the answer. One frame has a
body of two tokens, so a length is always right; a header that is not a number is
left out.

**Monitor** is the event source: `bpf` distinguishes programs that are loaded
without their ring, which is what a failed `open_perf_buffer` leaves. `Submit` is
a probe that fires; `EnterDrain`, `Poll`, `PollNothing` and `Take` are `drain()`.
**RuntimePipeline** is `run()`, one action per stage and one per way a stage
fails, over `Monitor` and `RpcPort`. Each event carries the request that caused
it, which the code does not know: that is what the attribution properties are
about. `captured`, `due`, `dismissed` and `cutShort` are history variables.

**BehaviorTree** is what `assemble()` makes of a window of events and what
`observed_capabilities()` reads off it, as functions of the window (`Nodes`, `Ppid`,
`Comm`, `ArgvIsPath`, `Walked`, `Observed`). The state is what makes windows: the
server's processes, with the parent the kernel tells of (`fill_common`), which an
exit changes, and the window, that an event enters anywhere or never. `lineage` is
a history variable. A name or an image is what `_looks_like_shell` tells apart, a
path what the filters do, and paths are absolute. The mutable nodes of
`_build_nodes` are read off the window's first event and last exec of a pid;
siblings are a set. Two details of `_parse` are kept: the path of a file opened for
writing is dropped, so no filter sees it, and the child of a `clone()` that failed is
a pid of its own, the error as a `u32`.

**Verdicts** takes the tree of a call as the set of capabilities it shows, and a
profile, and follows them through `verify_post` (`VerdictOf`, one operator per
branch), the judge (`Apply`: any list of verdicts the model may send, or none), the
canaries of the response (`Inspect`: a leaf of the response has a key and the form
in which it holds a canary, and `Length` is how long that form is), `derive_findings`
and the writers. The plan is in front of it: the static report that is found, the
tools merged, the ranking, the cut and the audit's denials. `leaked` is history.

**Attribution** is the taint search as operators over a source, which is a set of
functions with nesting, calls by name, and the place of the sink in each: its file,
the function's name and the line. A tool is declared at a place too, and the code
tells whose a function is by file and name, or by line (`Match`, `ToolsAt`), so that a
method or a nested function of the handler's name in its file counts as the tool.
`Hops` and `ReversePaths` are the search, `Nearest`, `Tainting` and `Direct` the
attribution without it, then `Merge`. `Reaches` is the definition the search is
compared with. `Searches` is every outcome in any source and for any handlers, which
TLC computes once. **StaticPipeline** is
`pipeline.run()`: the handshake with a process that may ignore SIGTERM and outlast
the wait after SIGKILL (`doomed`), the tools,
the lanes as processes of their own, the joins in their order, the profiles and the
files. What a pattern, a scanner or the model says of a text is free, a benign utility
included, which `cross_check` does not count. A capability
is that of a function's sink, a severity is kept where a check computes it.

**Sandbox** is `launch()` and `teardown()` line by line against the processes of
the server: the forked child before and after `exec`, forks, `setsid`, ignored
SIGTERM, exits. A signal dooms whom it reaches: they run nothing more and die each in
its own time, which the code waits for in the leader's case only, and not for ever. A
failed `launch()` goes through the same kill and sweep.

**RunAnalysis** is `run_analysis` on a Mac and on Linux with the VM's status,
the report files (which run wrote each) and the wizard's worker. `Abandoned` is
what quit does to a worker in any step: every log call from then on raises, in
the finally block too. `OrphanWrites` is its command in the guest, which goes on. A
command may hang (`Hangs`), for none has a timeout, and `limactl list` may fail, which
`list_instances` takes for an empty list: `unstopped` says that `limactl` failed to
list or to stop the VM.
The runs of a process share one output directory, as two runs of one server do.

**RunPipes** is the loop of `_run_pipes()` with `split_stream()`. A byte is its own
place in the output, or a CR or LF, so a line told twice or in two shows. The
command may close its stdout, ignore SIGTERM, or leave the pipe to a descendant, that
may be silent, write, end, or from some time on write without end (`endless`): such an
output is told apart from its first part only in that it never runs out, so its bytes
are line breaks and `written` does not count them.
`written`, `quiet` and `atExit` are history.

**Wizard** is the stack of screens with the fields they set, the worker with
`polish_report()` and the stream of the LLM, and the RunScreen's methods as
operators on its fields (`OpenReport`, `SetReport`, `FinishReport`, `TypeOn`). One
step is one handler on the event loop, or one chunk of the typing task. A text is a
sequence of chunks. Submitting a screen checks what the code checks (`LooksLike`,
`Loads`).

**Merger** is the grouping by tool and weakness and the three loops of
`_combine_group`. A finding is its key, its severity, its sink locations and its
status; `Severity` and `FailsOn` are what the combined report and `--fail-on` make
of a pair. The findings are those of one filter: the `runtime` command, which has no
option for it, reports and gates all categories.

Operators that stand just above a definition and whose comment begins with what
they get wrong (`MatchesAny`, `ParseForever`, `NeverKill`, ...) are plausible bugs
of that definition. `PROJECT.json` pairs each property with one: put in place of
the definition, it makes TLC find the property violated.

## 3. What the runs check

Passing runs:

| run | bounds | what it shows |
|---|---|---|
| `mcp_client` | 2 requests, 1 unread request in stdin, 6 unparsed tokens, both framings, blank lines, text, notifications, requests of the server's own under the number of the second | `OwnAnswer`, `WaitsOnlyBehindNoise`, `AnswerNotDropped`, `PortSafeSpec` (refinement of RpcPort), `EveryRequestEnds` |
| `runtime_pipeline` | plans of at most 2 calls, one event per cause, a ring of 2 | `NeverBeforeItsCause`, `CountedOnce`, `CapturedIsObserved`, `Complete`, `TornDown` |
| `behavior_tree` | 3 process and thread ids, windows of 2 events, the calls open and dns | `NothingHidden`, `TrueParent`, `ShellShown` |
| `verdicts` | 2 tools, 2 capabilities, 3 flags, 3 forms of a canary, answers of at most 2 items | `Accounted`, `Consistent`, `LeaksReported` |
| `static_pipeline` | 2 tools at 2 places or none, 4 functions (2 of one name, 1 nested), 3 calls, `MAX_HOPS` 2, 2 declarable capabilities, 2 category filters | `Attributed`, `ProfilesTrue`, `Settled`, `RunEnds` |
| `sandbox` | a leader and 2 descendants | `Contained`, `LeaderGone`, `KillIsComplete`, `NoSignalAfterReaping`, `Ends` |
| `run_analysis` | 2 runs, both hosts, all modes | `OwnReports`, `WizardMeansIdle`, `StoppedWhenDelivered`, `RunEnds` |
| `run_pipes` | 5 bytes of output before it runs on, reads of 2, a pipe of 3 | `WholeLines`, `TailShown`, `PipesEnd` |
| `wizard` | 2 runs, 2 servers, 2 scripts, streams of 2 deltas | `ReportShown`, `RunsWhatWasChecked`, `ReportEnds` |
| `merger` | 2 keys, 2 locations, 2 severities, 2 findings in each report | `NothingTwice`, `NothingLost`, `OnlyTheExercisedSink`, `NoPairLeft`, `GateAgrees` |

Why the bounds are enough: two requests let the late answer to one meet the
other; six tokens hold a whole frame, or a line of noise and an answer with a
torn line before it; one place in stdin is filled by the first request, so the
second can wait to be written. Two calls give an event a call before and after
its own, and a ring of two with one event per cause can overflow. Two events have a first and a last, which decide
parent, name and command line, and could hang two processes under each other; three
ids give an orphan a grandparent to go to; `open` and `dns` stand for the calls on a
path and on the network, as the node a call belongs to does not depend on which it
is (a longer window or all calls exceed the time of a run, and the proofs hold for
every size). Ids that wrap around are out of bounds. Two descendants
let one leave the group while the other stays. Two runs let a file, an orphan or a
VM of the first meet the second. Two findings on each side, with two locations,
let two static findings compete for one confirmed finding, let an earlier one
take what a later one needs, and let the sides differ in which of them names a
sink; two keys show that a group leaves nothing to the next, and one severity below
and one above those of a runtime finding let the merge raise either side of a pair.
In `verdicts` one privileged capability and one that is not, with the flags that
confirm them, reach every branch of `_classify_cap`; two items are the first two
verdicts on one weakness; the forms are one of 24 characters, one encoded and one too
short to be known. In `static_pipeline` four functions make a chain one longer than
the two hops allowed; one of them is nested and has the name of a handler of its file,
one has a tool's name in another file, and one stands on the line of a tool that is
registered by a pattern. One capability is that of a sink and one is the benign
utility; the two filters have weaknesses of lanes B and C and of the joins, and the
flags of lane A's texts, which no property but the filter's reads, are left out by both. Five bytes are a
line, both line breaks and a tail longer than one read; the pipe holds less than the
output, so the command can block. Two runs of the wizard, with a script that loads
next to one server only, let a choice of the first stay in force in the second.

Runs that TLC finds violated show where the code and a sentence of the repository
disagree:

* `runtime_pipeline_own_events`: README.md:57 says events "are attributed to the
  call that caused them". `start()` clears the buffer and not the ring, and no
  event's time is compared with the call's.
* `static_pipeline_llm`: `llm/client.py:37` says "Static analysis must never fail
  because of LLM". A reply whose `confidence` is no number raises in
  `_parse_poisoning`, outside the try statement around the request; lane A raises,
  and so does the run, with no report.

Other places where the text says more than the code does are visible in the models
and have no run of their own:

* `teardown()` says "Stop the server process group"; when the leader has exited,
  before or on SIGTERM, the others of the group go on (`Sandbox!Term`). After SIGKILL
  it waits for the leader alone, two seconds, and drops the exception when they are
  not enough (`Sandbox!WaitExpires`).
* `stop_instance` logs that the VM "is not present" when `limactl list` fails, and
  leaves it running (`RunAnalysis!StopUnlessDown`).
* A request of the server's own under the outstanding number ends a call with an
  empty result (`McpClient!Own`).
* README.md:343 says the VM is stopped after each runtime or full run; it is not
  after quit, nor when it is still booting as it is looked at (`RunAnalysis!Stop`).
  `StoppedWhenDelivered` is what does hold.
* README.md:340 calls `runtime_confirmed` the "same ID in static and the behavior
  tree or canary"; a common sink is asked for as well, and a runtime finding that
  `derive_findings` makes names none (`Merger!SameSink`).
* A line that is no message sends `_read_message` to `select` with the answer
  behind it already received; `WaitsOnlyBehindNoise` says that nothing else does.
* A forked worker that opens a file before anything else of it is read has that
  file's path as its `argv`, and may pass for a shell (`BehaviorTree!ArgvIsPath`).
* `reverse_paths` says it finds every tool that reaches a sink; it stops at a
  handler, so a tool that calls another tool's handler is not among them
  (`Attribution!Reaches` says which are). And a function of the handler's name in its
  file is taken for the handler, whether or not it is (`Attribution!Match`).
* `_stop_proc` signals the process that was started and not what that has started in
  turn, and drops the wait that expires after SIGKILL (`StaticPipeline!KillServer`):
  behind `npm start` a server may outlive the run.
* `_run_pipes` asks `poll()` only when `select` finds nothing, so a descendant that
  never stops writing keeps it from seeing that the command has exited, and a silent
  one holds up its last read (both exceptions of `PipesEnd`).
* `polish_report` is outside the worker's try statement; what it raises ends the
  thread with the wizard waiting (`Wizard!PolishRaises`, an exception of
  `ReportEnds`).

## 4. Fairness

`McpClient`: weak fairness of the client's steps and of the clock, since the
client's thread runs and time passes; none for the server. Hence
`EveryRequestEnds` allows for a write to a server that does not read: `request()`
computes its deadline after the write. `RuntimePipeline`: weak fairness of the
steps outside a request and of the end of a `drain()`, which its 200 ms justify;
a request need not end, for the same write, and `TornDown` says so. `Sandbox`:
weak fairness of mcpaegis, whose waits are all timed, and of its forked child; none
for the server, whose processes need not even die of a signal, and none for the call of
`teardown()`. `BehaviorTree` states no liveness and assumes no
fairness; it can always step. `RunAnalysis`: weak fairness of the worker while
no command hangs, and of the end of an interpreter told to exit. The commands have no
timeout in the code, so any may hang for ever, which `RunEnds` names as an exception;
none for the VM's boot, the user and the orphans. `StaticPipeline`: weak fairness of the
run and of each lane, as every request, scan and wait has a timeout and the pool a
thread for each (the handshake's write has none, but its few messages fit the server's
pipe); none for the server. `RunPipes`: weak fairness of the loop, whose
`select` and `wait` have timeouts; none for the command, which may ignore SIGTERM
and never exit, nor for its descendant, and `PipesEnd` says when that one can hold
the loop up. `Wizard`: weak fairness of the worker, unless `run_analysis` hangs, an
exception of `ReportEnds`, with the LLM's stream taken to end or to time out, and of the
typing task, which the event loop runs; none for the user.
`Verdicts` and `Merger` state no liveness. Deadlock checking is off in the runs whose
system may stop: the process or the run is over.

## 5. What is proved

All theorems hold for every value of the constants that the modules' assumptions
allow; those assumptions are number types and disjointness, and TLC evaluates
them.

* **McpClientProofs**: `TypeCorrect`, `OwnAnswerHolds` and `ImplementsPort`, whatever
  ids the server gives to its own requests. The inductive invariant `Inv`
  says where a message in the stream comes from: every answer in what the
  server is writing, in the pipe and in the buffer names a request the server has
  answered, every request in it one the server has made (`Genuine`), and it answers only
  what it has read. `OwnAnswer` alone is
  not inductive, because nothing in it says that a message in the buffer is
  genuine. The parse operators get a lemma each: a parse returns a message of the
  buffer's own and leaves a suffix. A request of the server's own with the outstanding
  id ends the call as well, and the port lets it (`named`), so that the pipeline, proved
  over the port, does not count on an answer.
  For `AnswerNotDroppedHolds` and `WaitsOnlyBehindNoiseHolds` the stream of newline framing is made of whole lines (`Lined`), and a request that is
  out has no outcome yet (`Fresh`); the parse operators then have lemmas that say which
  tokens a parse passes over, for buffers of any length.
* **RuntimePipelineProofs**: `TypeCorrect`, `CountedOnceHolds`,
  `CapturedIsObservedHolds`, `NeverBeforeItsCauseHolds`, `CompleteHolds`. `Place` ties the pipeline's
  position to the monitor's; `Kept` keeps trees, ring, buffer and dismissed events
  apart; `Located` says where each captured event is; `Causal` that no event is
  caused by a request not yet issued, hence none in a tree is. `Covering` says how far
  the report's lists go at each line: an audit, a deny and an allow each extend them by
  one (`AuditOne`, `DenyOne`, `AllowOne`). Two theorems join the parts: `UsesPort`,
  that the pipeline's requests are a behavior of `RpcPort`, the other half of
  `ImplementsPort`; and `OnlyWhileUpHolds`, that nothing is attached or open while the
  sandbox is not up, which is why the pipeline can do with one variable for it.
  About Sandbox, for any number of descendants: `BoxTypeCorrect`, `ContainedHolds`,
  `LeaderGoneHolds`, `KillIsCompleteHolds`, `NoSignalAfterReapingHolds`. `LeaderAt`
  says what each line may take for granted of the leader; `GroupDoomed` that a group hit
  by SIGKILL stays doomed, since nobody of it can fork and no process joins it.
* **BehaviorTreeProofs**: `TypeCorrect`, `NothingIsHidden`, `ParentsAreTrue`,
  `ShellsAreShown`, for any number of processes and windows of any length. `Descent`
  is the invariant: who a process descends from has a smaller id and no ancestor that
  is not the process's own; each event of the window, and each live process, names as
  parent one it descends from. So `Ppid` goes down in id, a set
  of nodes has a least one, whose parent is out of the set, and no set of nodes holds
  all its parents: the walk from the roots reaches every node.
* **StaticPipelineProofs**: `SearchIsExact`, `AttributedHolds`, `ProfilesTrueHolds`,
  `SettledHolds`, for any source, call graph, number of tools and `MAX_HOPS`.
  `SearchIsExact` says that `reverse_paths`, which visits a function once and stops at
  a tool's, finds for each sink the tools that reach it within the hops, no more and
  no fewer: had it missed a path, there would be a least place on it that it missed. It
  holds for any way of telling whose a function is, and so for that of `match_tool`.
  The inductive invariant carries this through the run: `Stages` says where the server
  and the lanes can be at each line, `Searched` that the search on record is an exact
  one, `Joins` what the findings are made of when the profiles are. That no tool is
  called `*` and no function `nowhere` is an assumption: the code takes a finding of a
  tool named `*` for one of the whole server.
* **RunProofs**: about RunPipes, `WholeLinesHolds` and `TailShownHolds`, for any output,
  any chunk and any pipe. One byte more takes the lines of what was read before to the
  lines of what has been read now (`FeedLined`), hence so does a chunk, as there is no
  least byte at which it does not (`ChunkLined`). `Known` says at each line of the loop
  what is in the pipe and who has it open, `LogIsTrue` what the log and `buf` hold,
  `AllLogged` what a loop that nobody has cancelled has read when it is left. About
  RunAnalysis, for any number of runs and orphans: `RunTypeCorrect`, `OwnReportsHolds`,
  `WizardMeansIdleHolds`, `StoppedWhenDeliveredHolds`. `Made` says for each line of the
  try statement what this run has made by then; the guard of `Load` is the exit code of
  the command before it, which is why an old report does not pass.
* **VerdictsProofs**: `AccountedHolds`, `ConsistentHolds`, `LeaksReportedHolds`, for
  any tools, plans, profiles and answers. The invariant says at each stage what the
  verdict has been made of; that a capability falls into one branch of
  `_classify_cap` gives the disjointness that `Consistent` needs, and that the
  verifications and witnesses of earlier calls stay what they are gives the rest.
* **MergerProofs**: `TypeCorrect`, `NothingTwiceHolds`, `OnlyTheExercisedSinkHolds`,
  `NothingLostHolds`, `NoPairLeftHolds`, `GateAgreesHolds`, for reports of any
  length. `Sound` says what an entry tells of its two findings, `Fresh` that what a
  loop has still to place is in no entry yet. `Covered` is the other half: of the
  groups reached so far each finding is in an entry or before a loop that will place
  it; and `FirstFit` that a static finding which stayed alone had only taken ones of
  its sink. The gate follows from nothing being lost.
* **WizardProofs**: `RunsWhatWasCheckedHolds`, `ReportShownHolds`, for any inputs,
  scripts, reports and answers. `Stacked` says that the screens lie in one order and
  that the run's is on top while a worker is at it; that is what makes the guards of
  the handlers enough. `Showing` relates the screen's fields to the worker: what is
  shown is what has been typed, an error is never typed, and `_done` is only set with
  the last text, by when nothing else can change it.

Every invariant and every action property of a passing run is proved. Only
model-checked are the liveness properties (`EveryRequestEnds`, `TornDown`, `Ends`,
`PipesEnd`, `ReportEnds` and both `RunEnds`): the prover reaches neither fairness nor
ENABLED. The library states induction over an operator, which no backend here can
instantiate; what the search of the call graph or `split_stream` returns for every
input is therefore shown by a least counterexample, from the well-foundedness of
`<` on the naturals. No module here declares a RECURSIVE operator: recursion is that of
functions, and that such a function exists is a lemma (`ReadExists`).

## 6. Plan

1. The atomic commands of RunAnalysis against RunPipes, and the atomic launch and
   teardown of RuntimePipeline against Sandbox, as refinements.
2. The steps that prepare the guest's virtualenv (`lima/guest.py`): a copy that
   breaks off and what the next run makes of the half.
3. `Merger` behind `Verdicts` and `StaticPipeline`, so that a sink can be followed
   from the source to the combined report.

## 7. Not modelled

Report writers are pure functions from a report to text; prompts are text. The
patterns of the classifiers and scanners, the search for a canary in a string,
the parsing of sources and Semgrep's rules decide what a text says, which the models
leave free or give as a constant: a model of them would be the patterns again. The
command line's options and the environment, the doctor's probes, the guest's
preparation step by step, and the wizard's layout and intros are left out. Semgrep,
Lima, the LLM service, Textual and the audited server are external; their outcomes
are choices of the modules that use them. Textual's own screens are left out, and
with them what `_finish` does when the RunScreen is not on top. A static report that
is found in the output directory may be of another server: `Verdicts` takes any
profile, and nothing in the repository relates the two. Event fields, descriptions
and paths are abstracted away wherever no property reads them.
