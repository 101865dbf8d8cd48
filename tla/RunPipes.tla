------------------------------ MODULE RunPipes ------------------------------
(***************************************************************************)
(* lima/vm.py: run_streaming() with _run_pipes(), the loop every long      *)
(* command of a run goes through (limactl, brew, the guest's shell, sudo), *)
(* and lima/stream.py: split_stream().                                     *)
(*                                                                         *)
(* One pipe holds what the command and its descendants write.  A byte is   *)
(* its own position in the output, or one of the two line breaks.  A       *)
(* descendant may keep the pipe open when the command has exited, and may  *)
(* write without end: line breaks, which add nothing to the log.  The half *)
(* second of select() is the moment it finds nothing, and heartbeats are   *)
(* left out.                                                               *)
(***************************************************************************)
EXTENDS Integers, SequencesExt

CONSTANTS
  Chunk,    \* what one os.read takes: 4096 in the code
  PipeSize, \* what the pipe holds: 65536 on Linux
  MaxBytes  \* bound: bytes of output

VARIABLES
  pc,       \* where the loop stands
  buf,      \* buf: bytes of a line that has not ended
  logged,   \* the lines given to log()
  cancel,   \* what cancel() says; the user has quit, and log() may raise
  failed,   \* an exception is on its way through the finally block
  pipe,
  child,    \* the command: "running", "closed" (its stdout), "exited"
  told,     \* SIGTERM has been delivered to it
  deaf,     \* it ignores SIGTERM, or runs as root and may not be signalled
  helper,   \* a descendant has the pipe open
  endless,  \* and writes line breaks from here on, for ever
  written,  \* history: the whole output, up to those
  quiet,    \* history: its length when select() last found nothing, or -1
  atExit    \* history: its length when the command exited

loop == <<pc, buf, logged, failed>>
command == <<child, told, deaf, helper, endless>>
history == <<written, quiet, atExit>>
vars == <<loop, cancel, pipe, command, history>>

ASSUME RunPipesAssumption ==
  /\ Chunk \in Nat \ {0} /\ PipeSize \in Nat \ {0} /\ MaxBytes \in Nat

LF == 0
CR == -1

Least(a, b) == IF a < b THEN a ELSE b

(* One byte: a line break ends the line that has begun, if one has.        *)
Feed(acc, b) ==
  IF b > 0 THEN [acc EXCEPT !.rest = Append(@, b)]
  ELSE [lines |-> IF acc.rest = <<>> THEN acc.lines ELSE Append(acc.lines, acc.rest),
        rest  |-> <<>>]

(* A split_stream that hands out the line that has not ended as well.      *)
SplitEagerly(bytes) ==
  LET read[n \in 0 .. Len(bytes)] ==
        IF n = 0 THEN [lines |-> <<>>, rest |-> <<>>] ELSE Feed(read[n - 1], bytes[n])
  IN  Feed(read[Len(bytes)], LF)

(* split_stream: the lines that have ended, empty ones dropped, and what   *)
(* is left.  CR is a line break, CRLF one break and an empty line.         *)
SplitStream(bytes) ==
  LET read[n \in 0 .. Len(bytes)] ==
        IF n = 0 THEN [lines |-> <<>>, rest |-> <<>>] ELSE Feed(read[n - 1], bytes[n])
  IN  read[Len(bytes)]

Exited == child = "exited"
Open == child = "running" \/ helper
Done == pc \in {"returned", "raised"}

Init ==
  /\ pc = "top" /\ buf = <<>> /\ logged = <<>> /\ failed = FALSE
  /\ cancel = FALSE /\ pipe = <<>>
  /\ child = "running" /\ told = FALSE /\ deaf \in BOOLEAN
  /\ helper = FALSE /\ endless = FALSE
  /\ written = <<>> /\ quiet = -1 /\ atExit = 0

-----------------------------------------------------------------------------
(* The loop                                                                *)

(* _kill_group: SIGTERM, which a process of another user does not get.     *)
KillGroup == told' = (told \/ ~deaf)

(* for line in lines: log(line).  Every log raises once the app is gone.   *)
LogThen(lines, next) ==
  \/ /\ logged' = logged \o lines
     /\ pc' = next
     /\ UNCHANGED failed
  \/ /\ cancel /\ lines # <<>>
     /\ \E n \in 0 .. Len(lines) - 1 : logged' = logged \o SubSeq(lines, 1, n)
     /\ pc' = "finally" /\ failed' = TRUE

(* The top of the loop: cancelled or on to select().                       *)
Top ==
  /\ pc = "top"
  /\ IF cancel
       THEN KillGroup /\ pc' = "finally" /\ failed' \in BOOLEAN
       ELSE pc' = "select" /\ UNCHANGED <<failed, told>>
  /\ UNCHANGED <<buf, logged, cancel, pipe, child, deaf, helper, endless, history>>

(* select: there is something to read, or nobody can write any more.       *)
Readable == pipe # <<>> \/ endless \/ ~Open

SelectReady ==
  /\ pc = "select"
  /\ Readable
  /\ pc' = "read" /\ quiet' = -1
  /\ UNCHANGED <<buf, logged, failed, cancel, pipe, command, written, atExit>>

SelectNothing ==
  /\ pc = "select"
  /\ ~Readable
  /\ pc' = "check" /\ quiet' = Len(written)
  /\ UNCHANGED <<buf, logged, failed, cancel, pipe, command, written, atExit>>

(* os.read takes what there is, at most Chunk bytes.                       *)
Taken == SubSeq(pipe, 1, Least(Len(pipe), Chunk))
Left == SubSeq(pipe, Least(Len(pipe), Chunk) + 1, Len(pipe))

Read ==
  /\ pc = "read" /\ (pipe # <<>> \/ ~endless)
  /\ IF pipe = <<>>
       THEN pc' = "eof" /\ UNCHANGED <<buf, logged, failed>>
       ELSE LET split == SplitStream(buf \o Taken)
            IN  buf' = split.rest /\ LogThen(split.lines, "top")
  /\ pipe' = Left
  /\ UNCHANGED <<cancel, command, history>>

(* One of the breaks that have no end.                                     *)
ReadBreak ==
  /\ pc = "read" /\ pipe = <<>> /\ endless
  /\ LET split == SplitStream(Append(buf, LF))
     IN  buf' = split.rest /\ LogThen(split.lines, "top")
  /\ UNCHANGED <<cancel, pipe, command, history>>

(* The last line, which no break has ended, and out of the loop.           *)
Flush(bytes) ==
  /\ LogThen(SplitStream(Append(bytes, LF)).lines, "finally")
  /\ buf' = bytes

(* End of file: over when the command has exited, else another turn.       *)
Eof ==
  /\ pc = "eof"
  /\ IF Exited THEN Flush(buf) ELSE pc' = "top" /\ UNCHANGED <<buf, logged, failed>>
  /\ UNCHANGED <<cancel, pipe, command, history>>

(* A loop that leaves at end of file alone.                                *)
CheckNothing ==
  /\ pc = "check"
  /\ pc' = "top"
  /\ UNCHANGED <<buf, logged, failed, cancel, pipe, command, history>>

(* Nothing to read: has the command exited?                                *)
Check ==
  /\ pc = "check"
  /\ pc' = IF Exited THEN "leftover" ELSE "top"
  /\ UNCHANGED <<buf, logged, failed, cancel, pipe, command, history>>

(* An end that forgets what is left in the pipe.                           *)
LeftoverForgotten ==
  /\ pc = "leftover"
  /\ Flush(buf)
  /\ UNCHANGED <<cancel, pipe, command, history>>

(* One last read, which waits for as long as the pipe is empty and open.   *)
Leftover ==
  /\ pc = "leftover"
  /\ Readable
  /\ Flush(buf \o Taken)
  /\ pipe' = Left
  /\ UNCHANGED <<cancel, command, history>>

(* finally: a command that is alive is told to end.                        *)
Finally ==
  /\ pc = "finally"
  /\ IF Exited
       THEN pc' = (IF failed THEN "raised" ELSE "returned") /\ UNCHANGED told
       ELSE pc' = "wait" /\ KillGroup
  /\ UNCHANGED <<buf, logged, failed, cancel, pipe, child, deaf, helper, endless, history>>

Waited ==
  /\ pc = "wait" /\ Exited
  /\ pc' = IF failed THEN "raised" ELSE "returned"
  /\ UNCHANGED <<buf, logged, failed, cancel, pipe, command, history>>

(* wait(timeout=8): TimeoutExpired takes the place of any result.          *)
WaitExpires ==
  /\ pc = "wait" /\ ~Exited
  /\ pc' = "raised" /\ failed' = TRUE
  /\ UNCHANGED <<buf, logged, cancel, pipe, command, history>>

-----------------------------------------------------------------------------
(* The user, the command and its descendants                               *)

(* action_quit.                                                            *)
Cancel ==
  /\ ~cancel /\ ~Done
  /\ cancel' = TRUE
  /\ UNCHANGED <<loop, pipe, command, history>>

(* One byte; a full pipe makes the writer wait.                            *)
Write ==
  /\ Open /\ ~endless /\ ~Done
  /\ Len(pipe) < PipeSize /\ Len(written) < MaxBytes
  /\ \E b \in {LF, CR, Len(written) + 1} :
       pipe' = Append(pipe, b) /\ written' = Append(written, b)
  /\ UNCHANGED <<loop, cancel, command, quiet, atExit>>

CloseStdout ==
  /\ child = "running" /\ ~Done
  /\ child' = "closed"
  /\ UNCHANGED <<loop, cancel, pipe, told, deaf, helper, endless, history>>

Exit ==
  /\ ~Exited /\ ~Done
  /\ child' = "exited" /\ atExit' = Len(written)
  /\ UNCHANGED <<loop, cancel, pipe, told, deaf, helper, endless, written, quiet>>

Fork ==
  /\ child = "running" /\ ~helper /\ ~Done
  /\ helper' = TRUE
  /\ UNCHANGED <<loop, cancel, pipe, child, told, deaf, endless, history>>

HelperEnds ==
  /\ helper /\ ~endless /\ ~Done
  /\ helper' = FALSE
  /\ UNCHANGED <<loop, cancel, pipe, child, told, deaf, endless, history>>

HelperRunsOn ==
  /\ helper /\ ~endless /\ ~Done
  /\ endless' = TRUE
  /\ UNCHANGED <<loop, cancel, pipe, child, told, deaf, helper, history>>

-----------------------------------------------------------------------------
Loop ==
  \/ Top \/ SelectReady \/ SelectNothing \/ Read \/ ReadBreak \/ Eof
  \/ Check \/ Leftover \/ Finally \/ Waited \/ WaitExpires

Outside == Cancel \/ Write \/ CloseStdout \/ Exit \/ Fork \/ HelperEnds \/ HelperRunsOn

Next == Loop \/ Outside

(* The loop runs on; the command owes nothing, not even to exit when told. *)
Fairness == WF_vars(Loop)

SafeSpec == Init /\ [][Next]_vars
Spec == SafeSpec /\ Fairness

-----------------------------------------------------------------------------
(* Properties                                                              *)

(* A line of the output, as a reader of the whole of it would say: a run   *)
(* of bytes from one line break to the next.  A byte is its own position.  *)
LineIn(l, s) ==
  /\ l # <<>> /\ {Head(l), Last(l)} \subseteq DOMAIN s
  /\ l = SubSeq(s, Head(l), Last(l))
  /\ \A i \in Head(l) .. Last(l) : s[i] > 0
  /\ Head(l) = 1 \/ s[Head(l) - 1] <= 0
  /\ Last(l) = Len(s) \/ s[Last(l) + 1] <= 0

(* All of its lines, first to last.                                        *)
LinesAre(ls, s) ==
  /\ \A n \in DOMAIN ls : LineIn(ls[n], s)
  /\ \A m, n \in DOMAIN ls : m < n => Last(ls[m]) < Head(ls[n])
  /\ \A i \in DOMAIN s :
       s[i] > 0 => \E n \in DOMAIN ls : i \in Head(ls[n]) .. Last(ls[n])

Consumed == SubSeq(written, 1, Len(written) - Len(pipe))
Pending == IF buf = <<>> THEN <<>> ELSE <<buf>>

(* Wherever os.read cuts the output, in a line or between CR and LF, the   *)
(* log holds its lines, whole, in order and once, and buf the rest.        *)
WholeLines ==
  pc \in {"top", "select", "read", "eof", "check", "leftover"}
    => LinesAre(logged \o Pending, Consumed)

(* A call that returns without having been cancelled has logged what the   *)
(* command wrote before it exited, its last line as well, unless more than *)
(* one read of it came between select() finding nothing and the exit.      *)
TailShown ==
  pc = "returned" /\ ~cancel =>
    /\ LinesAre(logged, Consumed)
    /\ Len(Consumed) >= IF quiet = -1 THEN atExit ELSE Least(atExit, quiet + Chunk)

(* The last read waits for a descendant that keeps the pipe open.          *)
HeldUp == pc = "leftover" /\ ~Readable

(* The call ends once the user has quit, even if the command ignores       *)
(* SIGTERM, and once the command has exited, though a descendant keeps the *)
(* pipe open; but the last read may wait for that descendant, and while    *)
(* one keeps writing, nobody asks whether the command has exited.          *)
PipesEnd ==
  /\ cancel ~> Done \/ HeldUp
  /\ Exited ~> Done \/ HeldUp \/ endless
=============================================================================
