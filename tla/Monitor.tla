------------------------------ MODULE Monitor ------------------------------
(***************************************************************************)
(* dynamic/ebpf/monitor.py and bpf_programs.c: the event source of the     *)
(* runtime pipeline.  The BPF programs put the events of the sandbox's     *)
(* cgroup into a perf ring; user code sees them only when it polls, and    *)
(* what it has seen waits in _buffer for drain().                          *)
(*                                                                         *)
(* One thread uses a Monitor: _on_event runs inside perf_buffer_poll, on   *)
(* the thread that called drain(), so _lock never has a second taker.      *)
(***************************************************************************)
EXTENDS Integers, FiniteSets

CONSTANTS
  Events,    \* what can happen in the sandbox, each event once
  RingSize   \* the events the perf ring holds; more are dropped

VARIABLES
  running,   \* _running
  bpf,       \* _bpf: "none", "loaded" without its ring, "open"
  ring,      \* events in the perf ring
  buffer,    \* _buffer
  drained,   \* what the last drain() returned
  mpc        \* inside drain(): "out", "in" before a poll, "polled" after one


TypeOK ==
  /\ running \in BOOLEAN
  /\ bpf \in {"none", "loaded", "open"}
  /\ ring \subseteq Events /\ buffer \subseteq Events /\ drained \subseteq Events
  /\ mpc \in {"out", "in", "polled"}

Init ==
  /\ running = FALSE /\ bpf = "none"
  /\ ring = {} /\ buffer = {} /\ drained = {}
  /\ mpc = "out"

(* A syscall or a probe in the cgroup fires: perf_submit.  Without         *)
(* programs nothing is seen, and a full ring drops the event.              *)
Submit(e) ==
  /\ ring' = IF bpf = "open" /\ Cardinality(ring) < RingSize THEN ring \union {e} ELSE ring
  /\ UNCHANGED <<running, bpf, buffer, drained, mpc>>

(* A start() that empties the ring too.                                    *)
StartFresh ==
  /\ mpc = "out"
  /\ bpf' = IF bpf = "none" THEN "open" ELSE bpf
  /\ running' = TRUE
  /\ buffer' = {} /\ ring' = {}
  /\ UNCHANGED <<drained, mpc>>

(* start() attaches unless it has, and clears the buffer, not the ring.    *)
(* _attach does nothing when _bpf is set, with or without its ring.        *)
Start ==
  /\ mpc = "out"
  /\ bpf' = IF bpf = "none" THEN "open" ELSE bpf
  /\ running' = TRUE
  /\ buffer' = {}
  /\ UNCHANGED <<ring, drained, mpc>>

(* _attach raises: no BCC or no privilege, or no perf buffer, which leaves *)
(* the programs loaded.                                                    *)
StartFails ==
  /\ mpc = "out" /\ ~running /\ bpf = "none"
  /\ bpf' \in {"none", "loaded"}
  /\ UNCHANGED <<running, ring, buffer, drained, mpc>>

EnterDrain ==
  /\ mpc = "out"
  /\ mpc' = "in"
  /\ UNCHANGED <<running, bpf, ring, buffer, drained>>

(* A poll that leaves what it has read in the ring.                        *)
PollKeepsRing ==
  /\ mpc # "out" /\ bpf = "open"
  /\ buffer' = IF running THEN buffer \union ring ELSE buffer
  /\ mpc' = "polled"
  /\ UNCHANGED <<running, bpf, ring, drained>>

(* One perf_buffer_poll: _on_event for every event in the ring.            *)
Poll ==
  /\ mpc # "out" /\ bpf = "open"
  /\ ring' = {}
  /\ buffer' = IF running THEN buffer \union ring ELSE buffer
  /\ mpc' = "polled"
  /\ UNCHANGED <<running, bpf, drained>>

(* _poll gives up before its first poll: the poll raised, or 200ms passed. *)
PollNothing ==
  /\ mpc = "in"
  /\ mpc' = "polled"
  /\ UNCHANGED <<running, bpf, ring, buffer, drained>>

Take ==
  /\ mpc = "polled"
  /\ drained' = buffer
  /\ buffer' = {}
  /\ mpc' = "out"
  /\ UNCHANGED <<running, bpf, ring>>

(* stop(), also on the way out of a drain() that raised: the ring goes     *)
(* with the programs.                                                      *)
Stop ==
  /\ running' = FALSE /\ bpf' = "none"
  /\ ring' = {}
  /\ mpc' = "out"
  /\ UNCHANGED <<buffer, drained>>

(* The process that holds the Monitor dies.                                *)
Lost ==
  /\ running' = FALSE /\ bpf' = "none"
  /\ ring' = {} /\ buffer' = {} /\ drained' = {}
  /\ mpc' = "out"
=============================================================================
