----------------------------- MODULE McpClient -----------------------------
(***************************************************************************)
(* core/mcp_client.py: the JSON-RPC client that discovery and the runtime  *)
(* pipeline use to talk to the audited server over stdin and stdout.       *)
(*                                                                         *)
(* The server's stdout is a stream of tokens, the pieces _try_parse can    *)
(* tell apart: the first and the second part of a JSON object, a line end, *)
(* other text, and a Content-Length header.  A message is a line           *)
(* <<open, rest, eol>> or a frame <<header, eol, eol, open, rest>>.  The   *)
(* server may stall between any two tokens and os.read may return any      *)
(* prefix of what is in the pipe, so every chunk boundary occurs.          *)
(*                                                                         *)
(* The server (all actions named Server...) is outside the repository: it  *)
(* reads requests in order, answers each at most once, late, out of order  *)
(* or never, numbers requests of its own as it likes, also with the ids    *)
(* the client uses, and may exit at any moment.                            *)
(***************************************************************************)
EXTENDS Integers, Sequences

CONSTANTS
  MaxId,      \* bound: requests the client issues
  StdinRoom,  \* bound: requests the server's stdin pipe holds unread
  MaxUnread,  \* bound: tokens written by the server, not yet parsed
  Framings,   \* how servers frame messages: "ndjson", "framed"
  Chatter,    \* what else they write: "blank" lines, lines of "text"
  ServerIds,  \* the ids servers give to requests of their own
  NoMessage   \* no message

VARIABLES
  nextId,   \* _next_id
  cur,      \* msg_id of the request in progress, 0 outside request()
  pc,       \* where request() stands: idle, write, parse, select
  expired,  \* the deadline of the request in progress has passed
  buf,      \* _buf
  outcome,  \* how each request ended, and the message it ended with
  closed,   \* close() has been called
  framing,  \* the server's framing
  alive,    \* the server is running
  stdin,    \* requests written and not yet read by the server
  inbox,    \* requests the server has read
  sent,     \* requests the server has answered
  claimed,  \* ids the server has given to requests of its own
  sending,  \* the rest of what the server is writing
  pipe      \* tokens in the stdout pipe

clientVars == <<nextId, cur, pc, expired, buf, outcome, closed>>
serverVars == <<framing, alive, inbox, sent, claimed, sending>>
vars == <<clientVars, serverVars, stdin, pipe>>

Ids == 1 .. MaxId

Answers == [kind : {"result", "error"}, id : Ids]
ServerRequests == [kind : {"request"}, id : ServerIds]
Notification == [kind |-> "notification", id |-> 0]
Messages == Answers \union ServerRequests \union {Notification}

ASSUME McpClientAssumption ==
  /\ MaxId \in Nat
  /\ StdinRoom \in Nat \ {0}
  /\ MaxUnread \in Nat
  /\ Framings \subseteq {"ndjson", "framed"}
  /\ Chatter \subseteq {"blank", "text"}
  /\ NoMessage \notin Messages

Open(m) == [tok |-> "open", msg |-> m]
Rest(m) == [tok |-> "rest", msg |-> m]
Eol == [tok |-> "eol", msg |-> NoMessage]
Text == [tok |-> "text", msg |-> NoMessage]
Header == [tok |-> "header", msg |-> NoMessage]
Tokens == {Open(m) : m \in Messages} \union {Rest(m) : m \in Messages}
            \union {Eol, Text, Header}

Results ==
  {"none", "returned", "error", "timeout", "closed", "invalid", "unwritten"}

Unfinished == [res |-> "none", msg |-> NoMessage]

-----------------------------------------------------------------------------
(* _try_parse: what one call takes off the front of the buffer.            *)

Found(m, b) == [got |-> "message", msg |-> m, rest |-> b]
Nothing(b) == [got |-> "nothing", msg |-> NoMessage, rest |-> b]
Invalid(b) == [got |-> "invalid", msg |-> NoMessage, rest |-> b]

(* _loads_obj: a text is one JSON object or it is an error.                *)
Loads(text, b) ==
  IF Len(text) = 2 /\ text[1].tok = "open" /\ text[2] = Rest(text[1].msg)
  THEN Found(text[1].msg, b)
  ELSE Invalid(b)

(* The first k tokens gone.                                                *)
After(b, k) == SubSeq(b, k + 1, Len(b))

LineEnds(b) == {i \in 1 .. Len(b) : b[i] = Eol}
BlankLines(b) == {i \in LineEnds(b) : i + 1 \in LineEnds(b)}
First(S) == CHOOSE i \in S : \A j \in S : i <= j

(* The end of a Content-Length header: the first blank line, when a line   *)
(* before it starts with the header's name.                                *)
HasHeader(b) ==
  /\ BlankLines(b) # {}
  /\ \E i \in 1 .. First(BlankLines(b)) - 1 :
        b[i] = Header /\ (i = 1 \/ b[i - 1] = Eol)

ParseFrame(b) ==
  LET start == First(BlankLines(b)) + 1
  IN  IF Len(b) < start + 2
      THEN Nothing(b)
      ELSE Loads(SubSeq(b, start + 1, start + 2), After(b, start + 2))

(* One line, and all that was received after it.                           *)
ParseLineDropsRest(b, final) ==
  IF LineEnds(b) = {}
  THEN IF final /\ b # <<>> /\ b[1].tok = "open" THEN Loads(b, <<>>) ELSE Nothing(b)
  ELSE LET nl == First(LineEnds(b))
       IN  IF b[1].tok = "open"
           THEN Loads(SubSeq(b, 1, nl - 1), <<>>)
           ELSE Nothing(After(b, nl))

(* One line, whatever it holds, is consumed; without a line end the buffer *)
(* stays, unless this is the last attempt and it starts like an object.    *)
ParseLine(b, final) ==
  IF LineEnds(b) = {}
  THEN IF final /\ b # <<>> /\ b[1].tok = "open" THEN Loads(b, <<>>) ELSE Nothing(b)
  ELSE LET nl == First(LineEnds(b))
       IN  IF b[1].tok = "open"
           THEN Loads(SubSeq(b, 1, nl - 1), After(b, nl))
           ELSE Nothing(After(b, nl))

TryParse(b, final) ==
  IF HasHeader(b) THEN ParseFrame(b) ELSE ParseLine(b, final)

-----------------------------------------------------------------------------
(* request()                                                               *)

Init ==
  /\ nextId = 1 /\ cur = 0 /\ pc = "idle" /\ expired = FALSE
  /\ buf = <<>> /\ outcome = [i \in Ids |-> Unfinished] /\ closed = FALSE
  /\ framing \in Framings /\ alive = TRUE
  /\ stdin = <<>> /\ inbox = {} /\ sent = {} /\ claimed = {}
  /\ sending = <<>> /\ pipe = <<>>

End(res, m) ==
  /\ outcome' = [outcome EXCEPT ![cur] = [res |-> res, msg |-> m]]
  /\ cur' = 0
  /\ pc' = "idle"

(* A request under the id of the last one.                                 *)
RequestReusesId ==
  /\ pc = "idle" /\ ~closed /\ nextId <= MaxId
  /\ cur' = IF nextId = 1 THEN 1 ELSE nextId - 1
  /\ nextId' = IF nextId = 1 THEN 2 ELSE nextId
  /\ pc' = "write"
  /\ UNCHANGED <<expired, buf, outcome, closed, serverVars, stdin, pipe>>

Request ==
  /\ pc = "idle" /\ ~closed /\ nextId <= MaxId
  /\ cur' = nextId
  /\ nextId' = nextId + 1
  /\ pc' = "write"
  /\ UNCHANGED <<expired, buf, outcome, closed, serverVars, stdin, pipe>>

(* _write: fails when the server has gone, waits while its stdin is full;  *)
(* the deadline is computed after it.                                      *)
Write ==
  /\ pc = "write"
  /\ \/ /\ alive
        /\ Len(stdin) < StdinRoom
        /\ stdin' = Append(stdin, cur)
        /\ pc' = "parse"
        /\ UNCHANGED <<cur, outcome>>
     \/ /\ ~alive
        /\ End("unwritten", NoMessage)
        /\ UNCHANGED stdin
  /\ expired' = FALSE
  /\ UNCHANGED <<nextId, buf, closed, serverVars, pipe>>

(* Does the message end the request in progress?                           *)
MatchesAny(m) == m.kind # "notification"

Matches(m) ==
  /\ m.kind # "notification"
  /\ m.id = cur

(* A message that is not the answer sends request() back to its read.      *)
DeliverOrWait(m) ==
  IF Matches(m)
  THEN End(IF m.kind = "error" THEN "error" ELSE "returned", m)
  ELSE pc' = "select" /\ UNCHANGED <<cur, outcome>>

(* request()'s loop body on a message.                                     *)
Deliver(m) ==
  IF Matches(m)
  THEN End(IF m.kind = "error" THEN "error" ELSE "returned", m)
  ELSE pc' = "parse" /\ UNCHANGED <<cur, outcome>>

(* What follows a parse; with nothing parsed, otherwise.                   *)
Act(p, otherwise) ==
  \/ p.got = "message" /\ Deliver(p.msg)
  \/ p.got = "invalid" /\ End("invalid", NoMessage)
  \/ p.got = "nothing" /\ otherwise

(* The loops of request() and _read_message() up to the next select.       *)
ParseForever ==
  /\ pc = "parse"
  /\ LET p == TryParse(buf, FALSE)
     IN  /\ buf' = p.rest
         /\ Act(p, pc' = "select" /\ UNCHANGED <<cur, outcome>>)
  /\ UNCHANGED <<nextId, expired, closed, serverVars, stdin, pipe>>

Parse ==
  /\ pc = "parse"
  /\ IF expired
     THEN End("timeout", NoMessage) /\ UNCHANGED buf
     ELSE LET p == TryParse(buf, FALSE)
          IN  /\ buf' = p.rest
              /\ Act(p, pc' = "select" /\ UNCHANGED <<cur, outcome>>)
  /\ UNCHANGED <<nextId, expired, closed, serverVars, stdin, pipe>>

(* _fill: a chunk is ready.                                                *)
Fill ==
  /\ pc = "select" /\ pipe # <<>>
  /\ \E n \in 1 .. Len(pipe) :
        /\ buf' = buf \o SubSeq(pipe, 1, n)
        /\ pipe' = After(pipe, n)
  /\ pc' = "parse"
  /\ UNCHANGED <<nextId, cur, expired, outcome, closed, serverVars, stdin>>

(* The last attempt of _read_message, after a select that ran out of time  *)
(* or a read that found the end of the stream.                             *)
LastAttempt(failure) ==
  LET p == TryParse(buf, TRUE)
  IN  /\ buf' = p.rest
      /\ Act(p, End(failure, NoMessage))

SelectTimeout ==
  /\ pc = "select" /\ pipe = <<>> /\ alive
  /\ expired' = TRUE
  /\ LastAttempt("timeout")
  /\ UNCHANGED <<nextId, closed, serverVars, stdin, pipe>>

FillEof ==
  /\ pc = "select" /\ pipe = <<>> /\ ~alive
  /\ LastAttempt("closed")
  /\ UNCHANGED <<nextId, expired, closed, serverVars, stdin, pipe>>

(* The clock passes the deadline.                                          *)
Expire ==
  /\ pc \in {"parse", "select"} /\ ~expired
  /\ expired' = TRUE
  /\ UNCHANGED <<nextId, cur, pc, buf, outcome, closed, serverVars, stdin, pipe>>

Close ==
  /\ pc = "idle" /\ ~closed
  /\ closed' = TRUE
  /\ UNCHANGED <<nextId, cur, pc, expired, buf, outcome, serverVars, stdin, pipe>>

-----------------------------------------------------------------------------
(* The server                                                              *)

ServerRead ==
  /\ alive /\ stdin # <<>>
  /\ inbox' = inbox \union {Head(stdin)}
  /\ stdin' = Tail(stdin)
  /\ UNCHANGED <<clientVars, framing, alive, sent, claimed, sending, pipe>>

Encode(m) ==
  IF framing = "framed"
  THEN <<Header, Eol, Eol, Open(m), Rest(m)>>
  ELSE <<Open(m), Rest(m), Eol>>

StartsWriting(tokens) ==
  /\ alive /\ sending = <<>>
  /\ Len(buf) + Len(pipe) + Len(tokens) <= MaxUnread
  /\ sending' = tokens
  /\ UNCHANGED <<clientVars, framing, alive, inbox, stdin, pipe>>

ServerAnswer(i) ==
  /\ i \in inbox \ sent
  /\ sent' = sent \union {i}
  /\ UNCHANGED claimed
  /\ \E kind \in {"result", "error"} : StartsWriting(Encode([kind |-> kind, id |-> i]))

ServerNotify == StartsWriting(Encode(Notification)) /\ UNCHANGED <<sent, claimed>>

ServerRequest(i) ==
  /\ claimed' = claimed \union {i}
  /\ StartsWriting(Encode([kind |-> "request", id |-> i]))
  /\ UNCHANGED sent

ServerBlank ==
  "blank" \in Chatter /\ StartsWriting(<<Eol>>) /\ UNCHANGED <<sent, claimed>>

ServerText ==
  "text" \in Chatter /\ StartsWriting(<<Text, Eol>>) /\ UNCHANGED <<sent, claimed>>

ServerFlush ==
  /\ alive
  /\ \E n \in 1 .. Len(sending) :
        /\ pipe' = pipe \o SubSeq(sending, 1, n)
        /\ sending' = After(sending, n)
  /\ UNCHANGED <<clientVars, framing, alive, inbox, sent, claimed, stdin>>

(* What was not flushed is lost; what is in the pipe can still be read.    *)
ServerExit ==
  /\ alive
  /\ alive' = FALSE
  /\ sending' = <<>>
  /\ UNCHANGED <<clientVars, framing, inbox, sent, claimed, stdin, pipe>>

-----------------------------------------------------------------------------
ClientStep == Write \/ Parse \/ Fill \/ SelectTimeout \/ FillEof

ServerStep ==
  \/ ServerRead
  \/ \E i \in Ids : ServerAnswer(i)
  \/ ServerNotify
  \/ \E i \in ServerIds : ServerRequest(i)
  \/ ServerBlank
  \/ ServerText
  \/ ServerFlush
  \/ ServerExit

Next == Request \/ Close \/ ClientStep \/ Expire \/ ServerStep

(* The client runs and time passes; the server owes nothing.               *)
Fairness == WF_vars(ClientStep) /\ WF_vars(Expire)

SafeSpec == Init /\ [][Next]_vars
Spec == SafeSpec /\ Fairness

-----------------------------------------------------------------------------
(* Properties                                                              *)

TypeOK ==
  /\ nextId \in 1 .. MaxId + 1
  /\ cur \in 0 .. MaxId
  /\ pc \in {"idle", "write", "parse", "select"}
  /\ expired \in BOOLEAN
  /\ buf \in Seq(Tokens)
  /\ outcome \in [Ids -> [res : Results, msg : Messages \union {NoMessage}]]
  /\ closed \in BOOLEAN
  /\ framing \in Framings
  /\ alive \in BOOLEAN
  /\ stdin \in Seq(Ids)
  /\ inbox \subseteq Ids
  /\ sent \subseteq inbox
  /\ claimed \subseteq ServerIds
  /\ sending \in Seq(Tokens)
  /\ pipe \in Seq(Tokens)

(* request() ends with a message only if it bears the request's own id:    *)
(* the server's answer to it, or a request of the server's own under the   *)
(* same number, which request() takes for a result, for it does not look   *)
(* at what kind of message it reads.  The late answer to a request that    *)
(* was given up and a notification never pass for an answer, and an error  *)
(* is always the server's answer.                                          *)
Own(i, end) ==
  /\ end.msg.id = i
  /\ \/ end.msg \in Answers /\ i \in sent
     \/ end.msg \in ServerRequests /\ i \in claimed /\ end.res = "returned"

OwnAnswer ==
  \A i \in Ids :
    outcome[i].res \in {"returned", "error"} => Own(i, outcome[i])

(* The inductive invariant behind OwnAnswer and the port: every answer in  *)
(* the stream is one the server gave, to a request the client issued, and  *)
(* every request in it is one the server made.                             *)
Genuine(S, C) ==
  {t \in Tokens : /\ t.msg \in Answers => t.msg.id \in S
                  /\ t.msg \in ServerRequests => t.msg.id \in C}

Inv ==
  /\ TypeOK
  /\ OwnAnswer
  /\ \A s \in {sending, pipe, buf} : s \in Seq(Genuine(sent, claimed))
  /\ pc = "idle" <=> cur = 0
  /\ cur < nextId
  /\ inbox \subseteq 1 .. nextId - 1
  /\ stdin \in Seq(1 .. nextId - 1)

Ends(i, res) == outcome[i].res = "none" /\ outcome'[i].res = res

(* The line that answers request i is in the buffer, complete.             *)
AnswerAt(b, i) ==
  \E k \in 1 .. Len(b) - 2 :
    /\ b[k].tok = "open" /\ b[k].msg \in Answers /\ b[k].msg.id = i
    /\ b[k + 1] = Rest(b[k].msg)
    /\ b[k + 2] = Eol

(* _try_parse never throws away the complete line a request is waiting     *)
(* for, whatever other lines and torn lines surround it: it leaves the     *)
(* buffer only as the outcome of its request.                              *)
AnswerNotDropped ==
  [][\A i \in Ids :
       framing = "ndjson" /\ cur = i /\ AnswerAt(buf, i) /\ ~AnswerAt(buf', i)
         => Ends(i, "returned") \/ Ends(i, "error")]_vars

(* request() ends at its deadline at the latest, also when the server      *)
(* keeps the stream busy with lines that are not its answer, unless it     *)
(* waits to write to a server that does not read: the deadline starts      *)
(* after the write.                                                        *)
StdinFull == pc = "write" /\ alive /\ Len(stdin) = StdinRoom
EveryRequestEnds == cur # 0 ~> cur = 0 \/ StdinFull

(* request() goes back to select() with its answer complete in the buffer  *)
(* only behind a line that is no message: a notification, a request of the *)
(* server's own or a late answer never makes it wait for more input.       *)
WaitsOnlyBehindNoise ==
  [][pc = "parse" /\ pc' = "select" /\ framing = "ndjson" /\ AnswerAt(buf', cur)
       => buf[1].tok # "open"]_vars

(* The client implements the port: requests issued one at a time, each     *)
(* ended once, by a message that bears its number or by a failure.         *)
Verdict(r) ==
  CASE r = "none" -> "none"
    [] r \in {"returned", "error"} -> "answer"
    [] OTHER -> "failure"

Port == INSTANCE RpcPort WITH
  issued <- nextId - 1, pending <- cur, named <- sent \union (claimed \cap Ids),
  verdict <- [i \in Ids |-> Verdict(outcome[i].res)]

PortSafeSpec == Port!SafeSpec
=============================================================================
