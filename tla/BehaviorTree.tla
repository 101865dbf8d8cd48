---------------------------- MODULE BehaviorTree ----------------------------
(***************************************************************************)
(* dynamic/behavior_tree.py and observed_capabilities() of                 *)
(* post_execution_verifier.py, over what bpf_programs.c tells of the       *)
(* server's processes: the tree of one call's events and what is read off  *)
(* it.                                                                     *)
(*                                                                         *)
(* The tree is built from one window of events, from one drain() to the    *)
(* next, with no memory of the windows before: a process may have been     *)
(* born, renamed or orphaned when nobody looked.  A window is in the order *)
(* it was read, one CPU's ring after another's, not the order it happened. *)
(***************************************************************************)
EXTENDS Integers, Sequences, SequencesExt

CONSTANTS
  Touches,    \* the calls tried: open, unlink, write, connect, dns
  Paths,      \* the paths tried: plain, secret, noise; all absolute
  Images,     \* the images tried: shell, interp, other
  MaxPid,     \* bound: process and thread ids given out
  MaxEvents   \* bound: events of one window

VARIABLES
  (* the server's processes *)
  lastPid,    \* ids are given out in order; a wrap-around is out of bounds
  alive,      \* processes in the cgroup
  parent,     \* real_parent, Outside when it is not in the cgroup
  comm,       \* the process's name
  lineage,    \* history: the processes a process descends from
  (* the pipeline *)
  seeded,     \* read_cgroup_procs() was called
  seeds,      \* seed_pids
  window      \* the events since the last drain()

vars == <<lastPid, alive, parent, comm, lineage, seeded, seeds, window>>
server == <<lastPid, alive, parent, comm, lineage>>

ASSUME BehaviorTreeAssumption ==
  /\ MaxPid \in Nat \ {0} /\ MaxEvents \in Nat
  /\ Touches \subseteq {"open", "unlink", "write", "connect", "dns"}
  /\ Paths \subseteq {"plain", "secret", "noise"}
  /\ Images \subseteq {"shell", "interp", "other"}

Outside == 0

(* child_pid after a clone() that failed, (u32)-EAGAIN: no pid is as high. *)
NoChild == MaxPid + 1

Pids == 1 .. MaxPid

(* Names and images by what _looks_like_shell tells apart: a shell, one of *)
(* _INTERPRETER_COMMS, any other.                                          *)
Names == {"shell", "interp", "other"}

(* What is in an event's details: the path, the image, the destination.    *)
Details ==
  [open |-> Paths, unlink |-> Paths, write |-> {"none"}, exec |-> Images,
   connect |-> {"remote", "database", "loopback"}, dns |-> {"remote", "loopback"},
   fork |-> {"none"}]

Kinds == DOMAIN Details

Events ==
  [kind : Kinds, pid : Pids, ppid : 0 .. MaxPid, comm : Names,
   what : UNION {Details[k] : k \in Kinds}, child : 0 .. NoChild]

-----------------------------------------------------------------------------
(* assemble(): the filter and the tree                                     *)

(* is_noise: a loader path or a loopback address.                          *)
Noise(e) == e.what \in {"noise", "loopback"}

Kept(w) == {i \in DOMAIN w : ~Noise(w[i])}

(* The pids ensure() is called with.                                       *)
Mentions(e) == IF e.kind = "fork" THEN {e.pid, e.child} ELSE {e.pid}

Seen(w, p) == {i \in Kept(w) : p \in Mentions(w[i])}
Execs(w, p) == {i \in Kept(w) : w[i].kind = "exec" /\ w[i].pid = p}

Earliest(S) == CHOOSE i \in S : \A j \in S : i <= j
Latest(S) == CHOOSE i \in S : \A j \in S : j <= i

Nodes(w) == seeds \union UNION {Mentions(w[i]) : i \in Kept(w)}

(* A fork that puts the parent under the child.                            *)
PpidSwapped(w, p) ==
  IF Seen(w, p) = {} THEN Outside
  ELSE LET e == w[Earliest(Seen(w, p))] IN
       IF p # e.pid THEN e.pid ELSE IF e.kind = "fork" THEN e.child ELSE e.ppid

(* An orphan hung under the last of the seeds.                             *)
PpidOrSeed(w, p) ==
  IF Seen(w, p) # {} /\ w[Earliest(Seen(w, p))].ppid \in Nodes(w) THEN w[Earliest(Seen(w, p))].ppid
  ELSE IF seeds = {} THEN Outside ELSE Latest(seeds)

(* A node keeps the first parent an event gives it.                        *)
Ppid(w, p) ==
  IF Seen(w, p) = {} THEN Outside
  ELSE LET e == w[Earliest(Seen(w, p))] IN IF p = e.pid THEN e.ppid ELSE e.pid

(* A name that execve() does not change.                                   *)
CommFirst(w, p) ==
  IF Seen(w, p) # {} THEN w[Earliest(Seen(w, p))].comm ELSE "none"

(* comm: the last image executed, or the first name an event gives.        *)
Comm(w, p) ==
  IF Execs(w, p) # {} THEN w[Latest(Execs(w, p))].what
  ELSE IF Seen(w, p) # {} THEN w[Earliest(Seen(w, p))].comm
  ELSE "none"

(* argv begins with a slash: the last image executed, or for a process     *)
(* that is not a seed the path in the first event that mentions it,        *)
(* whatever path that is.                                                  *)
ArgvIsPath(w, p) ==
  \/ Execs(w, p) # {}
  \/ /\ p \notin seeds /\ Seen(w, p) # {}
     /\ w[Earliest(Seen(w, p))].kind \in {"open", "unlink"}

(* The nodes _walk reaches from the roots: all but those on or under a     *)
(* cycle, whose parents are never a root.                                  *)
Walked(w) ==
  {p \in Nodes(w) :
     ~ \E S \in SUBSET Nodes(w) : p \in S /\ \A q \in S : Ppid(w, q) \in S \ {q}}

-----------------------------------------------------------------------------
(* observed_capabilities()                                                 *)

LooksLikeShell(w, p) ==
  \/ Comm(w, p) = "shell"
  \/ Comm(w, p) = "other" /\ ArgvIsPath(w, p)

CapsOf(e) ==
  CASE e.kind = "open" -> {"FS_READ"}
    [] e.kind \in {"write", "unlink"} -> {"FS_WRITE"}
    [] e.kind \in {"connect", "dns"} -> {"NET_OUTBOUND"}
    [] OTHER -> {}

MarkersOf(e) ==
  (IF e.kind \in {"open", "unlink"} /\ e.what = "secret" THEN {"CREDENTIAL_HANDLING"} ELSE {})
    \union (IF e.kind = "connect" /\ e.what = "database" THEN {"DB_ACCESS"} ELSE {})

TouchedCaps(w) ==
  UNION {CapsOf(w[i]) \union MarkersOf(w[i]) :
           i \in {j \in Kept(w) : w[j].kind = "dns" \/ w[j].pid \in Walked(w)}}

ShellCaps(w) == {c \in {"SHELL_EXEC"} : \E p \in Walked(w) : LooksLikeShell(w, p)}

Observed(w) == TouchedCaps(w) \union ShellCaps(w)

-----------------------------------------------------------------------------
Init ==
  /\ lastPid = 1 /\ alive = {1}
  /\ parent = [p \in alive |-> Outside]
  /\ comm \in [alive -> Names]
  /\ lineage = [p \in Pids |-> {}]
  /\ seeded = FALSE /\ seeds = {}
  /\ window = <<>>

(* An event enters the window anywhere, or is lost: no program was         *)
(* attached, start() cleared it, the ring was full.                        *)
Submit(e) ==
  \/ UNCHANGED window
  \/ /\ seeded /\ Len(window) < MaxEvents
     /\ \E i \in 1 .. Len(window) + 1 : window' = InsertAt(window, i, e)

Event(k, p, w, c) ==
  [kind |-> k, pid |-> p, ppid |-> parent[p], comm |-> comm[p], what |-> w, child |-> c]

(* A syscall that touches a file or the network.                           *)
Touch(p) ==
  /\ p \in alive
  /\ \E k \in Touches : \E w \in Details[k] : Submit(Event(k, p, w, 0))
  /\ UNCHANGED <<server, seeded, seeds>>

(* execve() is told when it begins, under the old name; it may fail.       *)
Exec(p) ==
  /\ p \in alive
  /\ \E w \in Details["exec"] :
       /\ Submit(Event("exec", p, w, 0))
       /\ comm' \in {comm, [comm EXCEPT ![p] = w]}
  /\ UNCHANGED <<lastPid, alive, parent, lineage, seeded, seeds>>

(* A fork, told when clone() returns in the parent: the child may have     *)
(* acted before.                                                           *)
Fork(p) ==
  /\ p \in alive /\ lastPid < MaxPid
  /\ lastPid' = lastPid + 1
  /\ alive' = alive \union {lastPid'}
  /\ parent' = [c \in alive' |-> IF c = lastPid' THEN p ELSE parent[c]]
  /\ comm' = [c \in alive' |-> IF c = lastPid' THEN comm[p] ELSE comm[c]]
  /\ lineage' = [lineage EXCEPT ![lastPid'] = lineage[p] \union {p}]
  /\ Submit(Event("fork", p, "none", lastPid'))
  /\ UNCHANGED <<seeded, seeds>>

(* A new thread, of which clone() tells the same; its own events carry the *)
(* pid of its process.                                                     *)
Thread(p) ==
  /\ p \in alive /\ lastPid < MaxPid
  /\ lastPid' = lastPid + 1
  /\ lineage' = [lineage EXCEPT ![lastPid'] = lineage[p] \union {p}]
  /\ Submit(Event("fork", p, "none", lastPid'))
  /\ UNCHANGED <<alive, parent, comm, seeded, seeds>>

ForkFails(p) ==
  /\ p \in alive
  /\ Submit(Event("fork", p, "none", NoChild))
  /\ UNCHANGED <<server, seeded, seeds>>

(* The orphans go to a subreaper among the ancestors, or out.              *)
Exit(p) ==
  /\ p \in alive
  /\ alive' = alive \ {p}
  /\ \E q \in (lineage[p] \intersect alive) \union {Outside} :
       parent' = [c \in alive' |-> IF parent[c] = p THEN q ELSE parent[c]]
  /\ comm' = [c \in alive' |-> comm[c]]
  /\ UNCHANGED <<lastPid, lineage, seeded, seeds, window>>

(* read_cgroup_procs(), before the programs are attached.                  *)
ReadSeeds ==
  /\ ~seeded
  /\ seeded' = TRUE /\ seeds' = alive
  /\ UNCHANGED <<server, window>>

(* drain(): the window becomes a tree, and the next one begins.            *)
Drain ==
  /\ seeded
  /\ window' = <<>>
  /\ UNCHANGED <<server, seeded, seeds>>

Next ==
  \/ \E p \in Pids : Touch(p) \/ Exec(p) \/ Fork(p) \/ Thread(p) \/ ForkFails(p) \/ Exit(p)
  \/ ReadSeeds \/ Drain

Spec == Init /\ [][Next]_vars

-----------------------------------------------------------------------------
(* Properties                                                              *)

TypeOK ==
  /\ lastPid \in Pids /\ alive \subseteq 1 .. lastPid
  /\ parent \in [alive -> 0 .. MaxPid]
  /\ comm \in [alive -> Names]
  /\ lineage \in [Pids -> SUBSET Pids]
  /\ seeded \in BOOLEAN /\ seeds \subseteq 1 .. lastPid
  /\ window \in Seq(Events) /\ Len(window) <= MaxEvents

(* A tree holds every event that is not noise, whatever was lost, orphaned *)
(* or read out of order: no two nodes are each other's ancestors, so the   *)
(* walk from the roots leaves no node out.                                 *)
NothingHidden == Nodes(window) \subseteq Walked(window)

(* A node is shown under a process it descends from, though processes are  *)
(* re-parented in between and the first event decides.                     *)
TrueParent ==
  \A p \in Nodes(window) \intersect Pids :
    Ppid(window, p) \in Nodes(window) => Ppid(window, p) \in lineage[p]

(* A process that executes a shell and no other image in a window is       *)
(* observed as SHELL_EXEC, whatever else it and the others do.             *)
ShellShown ==
  \A i \in DOMAIN window :
    /\ window[i].kind = "exec" /\ window[i].what = "shell"
    /\ \A j \in Execs(window, window[i].pid) : window[j].what = "shell"
    => "SHELL_EXEC" \in Observed(window)
=============================================================================
