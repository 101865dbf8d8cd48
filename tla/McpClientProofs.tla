-------------------------- MODULE McpClientProofs --------------------------
(***************************************************************************)
(* Proofs about the MCP client, for every value of the constants: types,   *)
(* no answer passes for another request's, the implementation of the port; *)
(* and, in the section on lines, what becomes of an answer that has been   *)
(* received: it is not dropped, and waits behind nothing but noise.        *)
(***************************************************************************)
EXTENDS McpClient, SequenceTheorems, WellFoundedInduction, TLAPS

(* First picks the least of a set of positions.                            *)
LEMMA FirstIsLeast ==
  ASSUME NEW S \in SUBSET Nat, S # {}
  PROVE  First(S) \in S /\ \A j \in S : First(S) <= j
<1>1. \A x, y \in Nat : y < x => <<y, x>> \in OpToRel(<, Nat)
  BY DEF OpToRel
<1>2. PICK x \in S : \A y \in S : <<y, x>> \notin OpToRel(<, Nat)
  BY NatLessThanWellFounded, WFMin
<1>3. ASSUME NEW y \in S PROVE x <= y
  <2>1. x \in Nat /\ y \in Nat
    OBVIOUS
  <2>2. ~ (y < x)
    BY <1>1, <1>2, <2>1
  <2> QED
    BY <2>1, <2>2
<1> QED
  BY <1>3 DEF First

(* Consuming a prefix of a stream leaves a stream of the same tokens.      *)
LEMMA AfterType ==
  ASSUME NEW T, NEW b \in Seq(T), NEW k \in Nat
  PROVE  After(b, k) \in Seq(T)
<1>1. Len(b) \in Nat /\ \A i \in k + 1 .. Len(b) : b[i] \in T
  BY LenProperties, ElementOfSeq
<1> QED
  BY <1>1, SubSeqProperties DEF After

LEMMA LineEndsType ==
  ASSUME NEW T, NEW b \in Seq(T)
  PROVE  /\ LineEnds(b) \subseteq 1 .. Len(b)
         /\ BlankLines(b) \subseteq 1 .. Len(b)
         /\ Len(b) \in Nat
BY LenProperties DEF LineEnds, BlankLines

(* What a parse of a text returns: the message it found is one of the      *)
(* text's own, and the rest is the rest it was given.                      *)
LEMMA LoadsType ==
  ASSUME NEW T, T \subseteq Tokens,
         NEW text \in Seq(T), NEW b \in Seq(T), NEW p, p = Loads(text, b)
  PROVE  /\ p.got \in {"message", "invalid"}
         /\ p.rest \in Seq(T)
         /\ p.got = "message" => \E t \in T : t.msg = p.msg /\ t.tok = "open"
<1>1. Len(text) = 2 => text[1] \in T
  OBVIOUS
<1> QED
  BY <1>1 DEF Loads, Found, Invalid

LEMMA TryParseType ==
  ASSUME NEW T, T \subseteq Tokens,
         NEW b \in Seq(T), NEW final \in BOOLEAN, NEW p, p = TryParse(b, final)
  PROVE  /\ p.got \in {"message", "invalid", "nothing"}
         /\ p.rest \in Seq(T)
         /\ p.got = "message" => \E t \in T : t.msg = p.msg /\ t.tok = "open"
<1>1. CASE HasHeader(b)
  <2> DEFINE start == First(BlankLines(b)) + 1
  <2>1. start \in Nat /\ Len(b) \in Nat
    <3>1. BlankLines(b) \in SUBSET Nat /\ BlankLines(b) # {}
      BY <1>1, LineEndsType DEF HasHeader
    <3> QED
      BY <3>1, LineEndsType, FirstIsLeast
  <2>2. CASE Len(b) < start + 2
    BY <1>1, <2>2 DEF TryParse, ParseFrame, Nothing
  <2>3. CASE ~ (Len(b) < start + 2)
    <3> DEFINE body == SubSeq(b, start + 1, start + 2)
    <3>1. body \in Seq(T)
      <4>1. \A i \in start + 1 .. start + 2 : b[i] \in T
        BY <2>1, <2>3, ElementOfSeq
      <4> QED
        BY <2>1, <4>1, SubSeqProperties
    <3>2. After(b, start + 2) \in Seq(T)
      BY <2>1, AfterType
    <3>3. p = Loads(body, After(b, start + 2))
      BY <1>1, <2>3 DEF TryParse, ParseFrame
    <3> DEFINE left == After(b, start + 2)
    <3>4. left \in Seq(T) /\ p = Loads(body, left)
      BY <3>2, <3>3
    <3> HIDE DEF body, left
    <3> QED
      BY <3>1, <3>4, LoadsType
  <2> QED
    BY <2>2, <2>3
<1>2. CASE ~HasHeader(b)
  <2>0. p = ParseLine(b, final)
    BY <1>2 DEF TryParse
  <2>1. CASE LineEnds(b) = {}
    <3> DEFINE left == <<>>
    <3>1. left \in Seq(T)
      BY EmptySeq
    <3>2. p = Loads(b, left) \/ p = Nothing(b)
      BY <2>0, <2>1 DEF ParseLine
    <3> HIDE DEF left
    <3>3. CASE p = Loads(b, left)
      BY <3>1, <3>3, LoadsType
    <3>4. CASE p = Nothing(b)
      BY <3>4 DEF Nothing
    <3> QED
      BY <3>2, <3>3, <3>4
  <2>2. CASE LineEnds(b) # {}
    <3> DEFINE nl == First(LineEnds(b))
               line == SubSeq(b, 1, nl - 1)
    <3>1. nl \in 1 .. Len(b)
      <4>1. LineEnds(b) \in SUBSET Nat
        BY LineEndsType
      <4> QED
        BY <2>2, <4>1, LineEndsType, FirstIsLeast
    <3>2. line \in Seq(T)
      <4>1. \A i \in 1 .. nl - 1 : b[i] \in T
        BY <3>1, ElementOfSeq
      <4> QED
        BY <3>1, <4>1, SubSeqProperties
    <3>3. After(b, nl) \in Seq(T)
      BY <3>1, AfterType
    <3>4. p = Loads(line, After(b, nl)) \/ p = Nothing(After(b, nl))
      BY <2>0, <2>2 DEF ParseLine
    <3> HIDE DEF nl, line
    <3>5. CASE p = Loads(line, After(b, nl))
      BY <3>2, <3>3, <3>5, LoadsType
    <3>6. CASE p = Nothing(After(b, nl))
      BY <3>3, <3>6 DEF Nothing
    <3> QED
      BY <3>4, <3>5, <3>6
  <2> QED
    BY <2>1, <2>2
<1> QED
  BY <1>1, <1>2

-----------------------------------------------------------------------------
(* The variables of request() that its end, or its next loop, assigns.     *)
(* The request written is one that was issued: the types are inductive     *)
(* only together with cur's agreement with pc.                             *)
RequestTypeOK ==
  /\ cur \in 0 .. MaxId
  /\ pc = "idle" <=> cur = 0
  /\ pc \in {"idle", "write", "parse", "select"}
  /\ outcome \in [Ids -> [res : Results, msg : Messages \union {NoMessage}]]

LEMMA EndType ==
  ASSUME RequestTypeOK,
         NEW res \in Results, NEW m \in Messages \union {NoMessage}, End(res, m)
  PROVE  RequestTypeOK'
<1> USE McpClientAssumption
<1>1. [res |-> res, msg |-> m] \in [res : Results, msg : Messages \union {NoMessage}]
  OBVIOUS
<1>2. outcome' \in [Ids -> [res : Results, msg : Messages \union {NoMessage}]]
  BY <1>1 DEF End, RequestTypeOK
<1>3. cur' = 0 /\ pc' = "idle" /\ 0 \in 0 .. MaxId
  BY DEF End
<1> QED
  BY <1>2, <1>3 DEF RequestTypeOK

LEMMA DeliverType ==
  ASSUME RequestTypeOK, cur # 0, NEW m \in Messages, Deliver(m)
  PROVE  RequestTypeOK'
<1>1. CASE Matches(m)
  <2>1. PICK res \in Results : End(res, m)
    BY <1>1 DEF Deliver, Results
  <2> QED
    BY <2>1, EndType
<1>2. CASE ~Matches(m)
  BY <1>2, McpClientAssumption DEF Deliver, RequestTypeOK
<1> QED
  BY <1>1, <1>2

(* The message of a token is a message of the protocol.                    *)
LEMMA TokenMessage ==
  ASSUME NEW t \in Tokens, t.tok = "open"
  PROVE  t.msg \in Messages
BY DEF Tokens, Open, Rest, Eol, Text, Header

(* A step that parses the buffer and acts on what it found.                *)
LEMMA ParseStepType ==
  ASSUME RequestTypeOK, cur # 0, buf \in Seq(Tokens), NEW final \in BOOLEAN,
         NEW p, p = TryParse(buf, final),
         p.got = "nothing" => RequestTypeOK',
         \/ p.got = "message" /\ Deliver(p.msg)
         \/ p.got = "invalid" /\ End("invalid", NoMessage)
         \/ p.got = "nothing"
  PROVE  RequestTypeOK' /\ p.rest \in Seq(Tokens)
<1>1. /\ p.rest \in Seq(Tokens)
      /\ p.got = "message" => p.msg \in Messages
  BY TryParseType, TokenMessage
<1>2. CASE p.got = "message" /\ Deliver(p.msg)
  BY <1>1, <1>2, DeliverType
<1>3. CASE p.got = "invalid" /\ End("invalid", NoMessage)
  BY <1>1, <1>3, EndType DEF Results
<1> QED
  BY <1>1, <1>2, <1>3

LEMMA EncodeType ==
  ASSUME NEW m \in Messages
  PROVE  Encode(m) \in Seq(Tokens)
<1>1. {Open(m), Rest(m), Eol, Header} \subseteq Tokens
  BY DEF Tokens
<1> QED
  BY <1>1 DEF Encode

-----------------------------------------------------------------------------
TypeInv == TypeOK /\ RequestTypeOK

LEMMA InitType == Init => TypeInv
<1> SUFFICES ASSUME Init PROVE TypeInv
  OBVIOUS
<1>1. <<>> \in Seq(Tokens) /\ <<>> \in Seq(Ids)
  BY EmptySeq
<1>2. outcome \in [Ids -> [res : Results, msg : Messages \union {NoMessage}]]
  BY DEF Init, Unfinished, Results
<1>3. RequestTypeOK
  BY <1>2, McpClientAssumption DEF Init, RequestTypeOK
<1>4. sent \subseteq inbox /\ inbox \subseteq Ids /\ claimed \subseteq ServerIds
  BY DEF Init
<1>5. nextId \in 1 .. MaxId + 1
  BY McpClientAssumption DEF Init
<1> QED
  BY <1>1, <1>2, <1>3, <1>4, <1>5 DEF Init, TypeOK, TypeInv, RequestTypeOK

(* Every step preserves the type invariant.                                *)
LEMMA NextType == TypeInv /\ [Next]_vars => TypeInv'
<1> SUFFICES ASSUME TypeInv, [Next]_vars
             PROVE  TypeInv'
  OBVIOUS
<1> USE McpClientAssumption DEF TypeInv
<1>0. buf \in Seq(Tokens) /\ pipe \in Seq(Tokens) /\ sending \in Seq(Tokens)
  BY DEF TypeOK
<1>1. CASE Request
  BY <1>1 DEF TypeOK, RequestTypeOK, Request, serverVars
<1>2. CASE Close
  BY <1>2 DEF TypeOK, RequestTypeOK, Close, serverVars
<1>3. CASE Write
  <2>1. CASE alive /\ stdin' = Append(stdin, cur) /\ pc' = "parse" /\ UNCHANGED <<cur, outcome>>
    <3>1. cur \in Ids
      BY <1>3 DEF RequestTypeOK, Write, Ids
    <3>2. stdin' \in Seq(Ids)
      BY <2>1, <3>1, AppendProperties DEF TypeOK
    <3> QED
      BY <1>3, <2>1, <3>1, <3>2 DEF TypeOK, RequestTypeOK, Write, serverVars
  <2>2. CASE End("unwritten", NoMessage) /\ UNCHANGED stdin
    <3>1. RequestTypeOK'
      BY <2>2, EndType DEF Results
    <3> QED
      BY <1>3, <2>2, <3>1 DEF TypeOK, RequestTypeOK, Write, serverVars
  <2> QED
    BY <1>3, <2>1, <2>2 DEF Write
<1>4. CASE Parse
  <2>1. CASE expired
    <3>1. RequestTypeOK'
      BY <1>4, <2>1, EndType DEF Parse, Results
    <3> QED
      BY <1>4, <2>1, <3>1 DEF TypeOK, RequestTypeOK, Parse, serverVars
  <2>2. CASE ~expired
    <3> DEFINE p == TryParse(buf, FALSE)
    <3>1. buf' = p.rest /\ Act(p, pc' = "select" /\ UNCHANGED <<cur, outcome>>)
      BY <1>4, <2>2 DEF Parse
    <3> HIDE DEF p
    <3>2. cur # 0
      BY <1>4 DEF Parse, RequestTypeOK
    <3>3. p.got = "nothing" => RequestTypeOK'
      BY <3>1, <3>2 DEF Act, RequestTypeOK
    <3>4. RequestTypeOK' /\ p.rest \in Seq(Tokens)
      BY <1>0, <3>1, <3>2, <3>3, ParseStepType DEF Act, p
    <3> QED
      BY <1>4, <3>1, <3>4 DEF TypeOK, RequestTypeOK, Parse, serverVars
  <2> QED
    BY <2>1, <2>2
<1>5. CASE Fill
  <2>1. PICK n \in 1 .. Len(pipe) : buf' = buf \o SubSeq(pipe, 1, n) /\ pipe' = After(pipe, n)
    BY <1>5 DEF Fill
  <2>2. SubSeq(pipe, 1, n) \in Seq(Tokens) /\ n \in Nat
    <3>1. \A i \in 1 .. n : pipe[i] \in Tokens
      BY <1>0, LenProperties, ElementOfSeq
    <3> QED
      BY <1>0, <3>1, LenProperties, SubSeqProperties
  <2>3. buf' \in Seq(Tokens) /\ pipe' \in Seq(Tokens)
    BY <1>0, <2>1, <2>2, ConcatProperties, AfterType
  <2> QED
    BY <1>5, <2>3 DEF TypeOK, RequestTypeOK, Fill, serverVars
<1>6. CASE SelectTimeout \/ FillEof
  <2> DEFINE p == TryParse(buf, TRUE)
  <2>1. PICK failure \in {"timeout", "closed"} : buf' = p.rest /\ Act(p, End(failure, NoMessage))
    BY <1>6 DEF SelectTimeout, FillEof, LastAttempt
  <2> HIDE DEF p
  <2>2. cur # 0
    BY <1>6 DEF SelectTimeout, FillEof, RequestTypeOK
  <2>3. End(failure, NoMessage) => RequestTypeOK'
    BY EndType DEF Results
  <2>4. p.got = "nothing" => RequestTypeOK'
    BY <2>1, <2>3 DEF Act
  <2>5. RequestTypeOK' /\ p.rest \in Seq(Tokens)
    BY <1>0, <2>1, <2>2, <2>4, ParseStepType DEF Act, p
  <2> QED
    BY <1>6, <2>1, <2>5
    DEF TypeOK, RequestTypeOK, SelectTimeout, FillEof, serverVars
<1>7. CASE Expire
  BY <1>7 DEF TypeOK, RequestTypeOK, Expire, serverVars
<1>8. CASE ServerRead
  <2>1. Head(stdin) \in Ids /\ Tail(stdin) \in Seq(Ids)
    BY <1>8, HeadTailProperties DEF TypeOK, ServerRead
  <2> QED
    BY <1>8, <2>1 DEF TypeOK, RequestTypeOK, ServerRead, clientVars
<1>9. ASSUME NEW tokens \in Seq(Tokens), StartsWriting(tokens), sent' \subseteq inbox,
             claimed' \subseteq ServerIds
      PROVE  TypeInv'
  BY <1>9 DEF TypeOK, RequestTypeOK, StartsWriting, clientVars
<1>10. ASSUME NEW i \in Ids, ServerAnswer(i)
       PROVE  TypeInv'
  <2>1. PICK kind \in {"result", "error"} : StartsWriting(Encode([kind |-> kind, id |-> i]))
    BY <1>10 DEF ServerAnswer
  <2>2. [kind |-> kind, id |-> i] \in Messages
    BY DEF Messages, Answers
  <2>3. Encode([kind |-> kind, id |-> i]) \in Seq(Tokens)
    BY <2>2, EncodeType
  <2>4. sent' \subseteq inbox /\ claimed' \subseteq ServerIds
    BY <1>10 DEF ServerAnswer, TypeOK
  <2> QED
    BY <1>9, <2>1, <2>3, <2>4
<1>11. ASSUME ServerNotify \/ ServerBlank \/ ServerText
       PROVE  TypeInv'
  <2>1. Notification \in Messages /\ {Eol, Text} \subseteq Tokens
    BY DEF Messages, Tokens
  <2>2. Encode(Notification) \in Seq(Tokens) /\ <<Eol>> \in Seq(Tokens) /\ <<Text, Eol>> \in Seq(Tokens)
    BY <2>1, EncodeType
  <2>3. sent' \subseteq inbox /\ claimed' \subseteq ServerIds
    BY <1>11 DEF ServerNotify, ServerBlank, ServerText, TypeOK
  <2> QED
    BY <1>9, <1>11, <2>2, <2>3 DEF ServerNotify, ServerBlank, ServerText
<1>12. ASSUME NEW i \in ServerIds, ServerRequest(i)
       PROVE  TypeInv'
  <2>1. [kind |-> "request", id |-> i] \in Messages
    BY DEF Messages, ServerRequests
  <2>2. sent' \subseteq inbox /\ claimed' \subseteq ServerIds
    BY <1>12 DEF ServerRequest, TypeOK
  <2> QED
    BY <1>9, <1>12, <2>1, <2>2, EncodeType DEF ServerRequest
<1>13. CASE ServerFlush
  <2>1. PICK n \in 1 .. Len(sending) :
           pipe' = pipe \o SubSeq(sending, 1, n) /\ sending' = After(sending, n)
    BY <1>13 DEF ServerFlush
  <2>2. SubSeq(sending, 1, n) \in Seq(Tokens) /\ n \in Nat
    <3>1. \A i \in 1 .. n : sending[i] \in Tokens
      BY <1>0, LenProperties, ElementOfSeq
    <3> QED
      BY <1>0, <3>1, LenProperties, SubSeqProperties
  <2>3. pipe' \in Seq(Tokens) /\ sending' \in Seq(Tokens)
    BY <1>0, <2>1, <2>2, ConcatProperties, AfterType
  <2> QED
    BY <1>13, <2>3 DEF TypeOK, RequestTypeOK, ServerFlush, clientVars
<1>14. CASE ServerExit
  <2>1. <<>> \in Seq(Tokens)
    BY EmptySeq
  <2> QED
    BY <1>14, <2>1 DEF TypeOK, RequestTypeOK, ServerExit, clientVars
<1>15. CASE UNCHANGED vars
  BY <1>15 DEF TypeOK, RequestTypeOK, vars, clientVars, serverVars
<1> QED
  BY <1>1, <1>2, <1>3, <1>4, <1>5, <1>6, <1>7, <1>8, <1>10, <1>11, <1>12,
     <1>13, <1>14, <1>15
  DEF Next, ClientStep, ServerStep

(* Every variable of the client and of its stream keeps its type, whatever *)
(* the server writes and wherever its writes are cut.                      *)
THEOREM TypeCorrect == Spec => []TypeOK
<1>1. TypeInv => TypeOK
  BY DEF TypeInv
<1> QED
  BY <1>1, InitType, NextType, PTL DEF Spec, SafeSpec

-----------------------------------------------------------------------------
(* Answers to other requests and notifications do not match; what matches  *)
(* is a message with the request's id, which the server gave it.           *)
LEMMA MatchIsOwn ==
  ASSUME cur \in Ids, NEW S, NEW C,
         NEW t \in Genuine(S, C), t.tok = "open", Matches(t.msg)
  PROVE  /\ t.msg.id = cur
         /\ \/ t.msg \in Answers /\ cur \in S
            \/ t.msg \in ServerRequests /\ cur \in C /\ t.msg.kind = "request"
<1>1. t.msg \in Messages
  BY TokenMessage DEF Genuine
<1>2. t.msg # Notification
  BY DEF Matches, Notification
<1>3. CASE t.msg \in Answers
  BY <1>3 DEF Genuine, Matches
<1>4. CASE t.msg \in ServerRequests
  BY <1>4 DEF Genuine, Matches, ServerRequests
<1> QED
  BY <1>1, <1>2, <1>3, <1>4 DEF Messages

(* Ending a request as a failure, or with a message of its own, keeps      *)
(* every outcome an outcome of its own request.                            *)
LEMMA EndOwn ==
  ASSUME TypeOK, OwnAnswer, cur \in Ids, sent' = sent, claimed' = claimed,
         NEW res, NEW m, End(res, m),
         res \in {"returned", "error"} => Own(cur, [res |-> res, msg |-> m])
  PROVE  OwnAnswer'
BY DEF End, OwnAnswer, Own, TypeOK

(* A step that parses the buffer and acts on what it found.                *)
LEMMA ParseStepOwn ==
  ASSUME Inv, cur # 0, NEW final \in BOOLEAN, NEW p,
         p = TryParse(buf, final), sent' = sent, claimed' = claimed, buf' = p.rest,
         p.got = "nothing" => OwnAnswer',
         \/ p.got = "message" /\ Deliver(p.msg)
         \/ p.got = "invalid" /\ End("invalid", NoMessage)
         \/ p.got = "nothing"
  PROVE  OwnAnswer' /\ buf' \in Seq(Genuine(sent, claimed))
<1>0. cur \in Ids /\ TypeOK /\ OwnAnswer
  BY DEF Inv, TypeOK, Ids
<1>1. /\ buf' \in Seq(Genuine(sent, claimed))
      /\ p.got = "message" => \E t \in Genuine(sent, claimed) : t.msg = p.msg /\ t.tok = "open"
  <2>1. Genuine(sent, claimed) \subseteq Tokens /\ buf \in Seq(Genuine(sent, claimed))
    BY DEF Genuine, Inv
  <2> QED
    BY <2>1, TryParseType
<1>2. CASE p.got = "message" /\ Deliver(p.msg)
  <2>1. CASE Matches(p.msg)
    <3>1. PICK t \in Genuine(sent, claimed) : t.msg = p.msg /\ t.tok = "open"
      BY <1>1, <1>2
    <3>2. PICK res \in {"returned", "error"} :
             End(res, p.msg) /\ (p.msg.kind # "error" => res = "returned")
      BY <1>2, <2>1 DEF Deliver
    <3>3. Own(cur, [res |-> res, msg |-> p.msg])
      BY <1>0, <2>1, <3>1, <3>2, MatchIsOwn DEF Own
    <3> QED
      BY <1>0, <1>1, <3>2, <3>3, EndOwn
  <2>2. CASE ~Matches(p.msg)
    BY <1>0, <1>1, <1>2, <2>2 DEF Deliver, OwnAnswer, Own
  <2> QED
    BY <2>1, <2>2
<1>3. CASE p.got = "invalid" /\ End("invalid", NoMessage)
  BY <1>0, <1>1, <1>3, EndOwn
<1> QED
  BY <1>1, <1>2, <1>3

(* What the server starts to write is genuine.                             *)
LEMMA EncodeGenuine ==
  ASSUME NEW S, NEW C, NEW m \in Messages, m \in Answers => m.id \in S,
         m \in ServerRequests => m.id \in C
  PROVE  Encode(m) \in Seq(Genuine(S, C))
<1>1. {Open(m), Rest(m), Eol, Header} \subseteq Genuine(S, C)
  BY McpClientAssumption DEF Tokens, Genuine, Open, Rest, Eol, Header, Messages
<1> QED
  BY <1>1 DEF Encode

(* Only the ids that were issued are ever written, read and answered.      *)
InvRest ==
  /\ OwnAnswer
  /\ \A s \in {sending, pipe, buf} : s \in Seq(Genuine(sent, claimed))
  /\ cur < nextId
  /\ inbox \subseteq 1 .. nextId - 1
  /\ stdin \in Seq(1 .. nextId - 1)

LEMMA InitInv == Init => Inv
<1> SUFFICES ASSUME Init PROVE Inv
  OBVIOUS
<1>1. TypeOK
  BY InitType DEF TypeInv
<1>2. <<>> \in Seq(Genuine(sent, claimed)) /\ <<>> \in Seq(1 .. nextId - 1)
  BY EmptySeq
<1>3. OwnAnswer
  BY DEF Init, OwnAnswer, Unfinished
<1> QED
  BY <1>1, <1>2, <1>3 DEF Init, Inv

LEMMA NextInv == Inv /\ [Next]_vars => Inv'
<1> SUFFICES ASSUME Inv, [Next]_vars
             PROVE  Inv'
  OBVIOUS
<1> USE McpClientAssumption
<1>0. TypeOK /\ TypeInv /\ InvRest
  BY DEF Inv, InvRest, TypeInv, TypeOK, RequestTypeOK
<1>t. TypeInv'
  BY <1>0, NextType
<1>s. InvRest' => Inv'
  BY <1>t DEF Inv, InvRest, TypeInv, RequestTypeOK
<1>n. nextId \in Nat /\ cur \in Nat /\ (pc # "idle" => cur \in Ids /\ cur # 0)
  BY <1>0 DEF TypeInv, TypeOK, RequestTypeOK, Ids
<1>g. /\ sending \in Seq(Genuine(sent, claimed))
      /\ pipe \in Seq(Genuine(sent, claimed)) /\ buf \in Seq(Genuine(sent, claimed))
  BY DEF Inv
<1>1. CASE Request
  <2>1. stdin \in Seq(1 .. nextId' - 1)
    <3>1. 1 .. nextId - 1 \subseteq 1 .. nextId' - 1
      BY <1>1, <1>n DEF Request
    <3> QED
      BY <1>0, <3>1, SeqMonotonic DEF InvRest
  <2>2. inbox \subseteq 1 .. nextId' - 1
    BY <1>0, <1>1, <1>n DEF InvRest, Request
  <2> QED
    BY <1>0, <1>1, <1>n, <1>s, <2>1, <2>2 DEF Request, InvRest, OwnAnswer, Own, serverVars
<1>2. CASE Close
  BY <1>0, <1>2, <1>s DEF Close, InvRest, OwnAnswer, Own, serverVars
<1>3. CASE Write
  <2>1. CASE stdin' = Append(stdin, cur) /\ UNCHANGED <<cur, outcome>>
    <3>1. cur \in 1 .. nextId - 1
      BY <1>0, <1>3, <1>n DEF Write, InvRest, Ids
    <3>2. stdin' \in Seq(1 .. nextId - 1)
      BY <1>0, <2>1, <3>1, AppendProperties DEF InvRest
    <3> QED
      BY <1>0, <1>3, <1>s, <2>1, <3>2 DEF Write, InvRest, OwnAnswer, Own, serverVars
  <2>2. CASE End("unwritten", NoMessage) /\ UNCHANGED stdin
    <3>1. OwnAnswer'
      BY <1>0, <1>3, <1>n, <2>2, EndOwn DEF InvRest, Write, serverVars
    <3>2. cur' < nextId
      BY <1>0, <2>2, <1>n DEF End, TypeOK
    <3> QED
      BY <1>0, <1>3, <1>s, <2>2, <3>1, <3>2 DEF Write, InvRest, serverVars
  <2> QED
    BY <1>3, <2>1, <2>2 DEF Write
<1>4. CASE Parse
  <2>0. sent' = sent /\ claimed' = claimed /\ cur \in Ids /\ cur # 0
    BY <1>4, <1>n DEF Parse, serverVars
  <2>1. OwnAnswer' /\ buf' \in Seq(Genuine(sent, claimed))
    <3>1. CASE expired
      BY <1>0, <1>4, <1>g, <2>0, <3>1, EndOwn DEF Parse, InvRest
    <3>2. CASE ~expired
      <4> DEFINE p == TryParse(buf, FALSE)
      <4>1. buf' = p.rest /\ Act(p, pc' = "select" /\ UNCHANGED <<cur, outcome>>)
        BY <1>4, <3>2 DEF Parse
      <4> HIDE DEF p
      <4>2. p.got = "nothing" => OwnAnswer'
        BY <1>0, <2>0, <4>1 DEF Act, InvRest, OwnAnswer, Own
      <4> QED
        BY <2>0, <4>1, <4>2, ParseStepOwn DEF Act, p
    <3> QED
      BY <3>1, <3>2
  <2>2. cur' = cur \/ cur' = 0
    BY <1>4 DEF Parse, Act, Deliver, End
  <2>3. cur' < nextId
    BY <1>0, <1>n, <2>2 DEF InvRest, TypeOK
  <2> QED
    BY <1>0, <1>4, <1>s, <2>1, <2>3 DEF Parse, InvRest, serverVars
<1>5. CASE Fill
  <2>1. PICK n \in 1 .. Len(pipe) : buf' = buf \o SubSeq(pipe, 1, n) /\ pipe' = After(pipe, n)
    BY <1>5 DEF Fill
  <2>2. SubSeq(pipe, 1, n) \in Seq(Genuine(sent, claimed)) /\ n \in Nat
    <3>1. \A i \in 1 .. n : pipe[i] \in Genuine(sent, claimed)
      BY <1>g, LenProperties, ElementOfSeq
    <3> QED
      BY <1>g, <3>1, LenProperties, SubSeqProperties
  <2>3. buf' \in Seq(Genuine(sent, claimed)) /\ pipe' \in Seq(Genuine(sent, claimed))
    BY <1>g, <2>1, <2>2, ConcatProperties, AfterType
  <2> QED
    BY <1>0, <1>5, <1>s, <2>3 DEF Fill, InvRest, OwnAnswer, Own, serverVars
<1>6. CASE SelectTimeout \/ FillEof
  <2> DEFINE p == TryParse(buf, TRUE)
  <2>0. sent' = sent /\ claimed' = claimed /\ cur \in Ids /\ cur # 0
    BY <1>6, <1>n DEF SelectTimeout, FillEof, serverVars
  <2>1. PICK failure \in {"timeout", "closed"} : buf' = p.rest /\ Act(p, End(failure, NoMessage))
    BY <1>6 DEF SelectTimeout, FillEof, LastAttempt
  <2> HIDE DEF p
  <2>2. p.got = "nothing" => OwnAnswer'
    BY <1>0, <2>0, <2>1, EndOwn DEF Act, InvRest
  <2>3. OwnAnswer' /\ buf' \in Seq(Genuine(sent, claimed))
    BY <2>0, <2>1, <2>2, ParseStepOwn DEF Act, p
  <2>4. cur' = cur \/ cur' = 0
    BY <2>1 DEF Act, Deliver, End
  <2>5. cur' < nextId
    BY <1>0, <1>n, <2>4 DEF InvRest, TypeOK
  <2> QED
    BY <1>0, <1>6, <1>s, <2>3, <2>5 DEF SelectTimeout, FillEof, InvRest, serverVars
<1>7. CASE Expire
  BY <1>0, <1>7, <1>s DEF Expire, InvRest, OwnAnswer, Own, serverVars
<1>8. CASE ServerRead
  <2>1. Head(stdin) \in 1 .. nextId - 1 /\ Tail(stdin) \in Seq(1 .. nextId - 1)
    BY <1>0, <1>8, HeadTailProperties DEF InvRest, ServerRead
  <2> QED
    BY <1>0, <1>8, <1>s, <2>1 DEF ServerRead, InvRest, OwnAnswer, Own, clientVars
<1>9. ASSUME NEW tokens, StartsWriting(tokens), sent \subseteq sent', claimed \subseteq claimed',
             tokens \in Seq(Genuine(sent', claimed'))
      PROVE  Inv'
  <2>1. Genuine(sent, claimed) \subseteq Genuine(sent', claimed')
    BY <1>9 DEF Genuine
  <2>2. pipe \in Seq(Genuine(sent', claimed')) /\ buf \in Seq(Genuine(sent', claimed'))
    BY <1>g, <2>1, SeqMonotonic
  <2>3. OwnAnswer'
    BY <1>0, <1>9 DEF InvRest, OwnAnswer, Own, StartsWriting, clientVars
  <2> QED
    BY <1>0, <1>9, <1>s, <2>2, <2>3 DEF StartsWriting, InvRest, clientVars
<1>10. ASSUME NEW i \in Ids, ServerAnswer(i)
       PROVE  Inv'
  <2>1. PICK kind \in {"result", "error"} : StartsWriting(Encode([kind |-> kind, id |-> i]))
    BY <1>10 DEF ServerAnswer
  <2>2. /\ [kind |-> kind, id |-> i] \in Messages /\ [kind |-> kind, id |-> i] \notin ServerRequests
        /\ i \in sent' /\ sent \subseteq sent' /\ claimed' = claimed
    BY <1>10 DEF Messages, Answers, ServerRequests, ServerAnswer
  <2>3. Encode([kind |-> kind, id |-> i]) \in Seq(Genuine(sent', claimed'))
    BY <2>2, EncodeGenuine
  <2> QED
    BY <1>9, <2>1, <2>2, <2>3
<1>11. ASSUME ServerNotify \/ ServerBlank \/ ServerText
       PROVE  Inv'
  <2>1. sent' = sent /\ claimed' = claimed
    BY <1>11 DEF ServerNotify, ServerBlank, ServerText
  <2>2. /\ Notification \in Messages
        /\ Notification \notin Answers /\ Notification \notin ServerRequests
    BY DEF Messages, Notification, Answers, ServerRequests
  <2>3. {Eol, Text} \subseteq Genuine(sent', claimed')
    BY DEF Tokens, Genuine, Eol, Text, Messages
  <2>4. Encode(Notification) \in Seq(Genuine(sent', claimed'))
    BY <2>2, EncodeGenuine
  <2>5. <<Eol>> \in Seq(Genuine(sent', claimed')) /\ <<Text, Eol>> \in Seq(Genuine(sent', claimed'))
    BY <2>3
  <2> QED
    BY <1>9, <1>11, <2>1, <2>4, <2>5 DEF ServerNotify, ServerBlank, ServerText
<1>12. ASSUME NEW i \in ServerIds, ServerRequest(i)
       PROVE  Inv'
  <2> DEFINE m == [kind |-> "request", id |-> i]
  <2>1. m \in Messages /\ m \notin Answers
    BY DEF Messages, ServerRequests, Answers
  <2>2. /\ sent' = sent /\ claimed \subseteq claimed' /\ m.id \in claimed'
        /\ StartsWriting(Encode(m))
    BY <1>12 DEF ServerRequest
  <2> HIDE DEF m
  <2>3. Encode(m) \in Seq(Genuine(sent', claimed'))
    BY <2>1, <2>2, EncodeGenuine
  <2> QED
    BY <1>9, <2>2, <2>3
<1>13. CASE ServerFlush
  <2>1. PICK n \in 1 .. Len(sending) :
           pipe' = pipe \o SubSeq(sending, 1, n) /\ sending' = After(sending, n)
    BY <1>13 DEF ServerFlush
  <2>2. SubSeq(sending, 1, n) \in Seq(Genuine(sent, claimed)) /\ n \in Nat
    <3>1. \A i \in 1 .. n : sending[i] \in Genuine(sent, claimed)
      BY <1>g, LenProperties, ElementOfSeq
    <3> QED
      BY <1>g, <3>1, LenProperties, SubSeqProperties
  <2>3. pipe' \in Seq(Genuine(sent, claimed)) /\ sending' \in Seq(Genuine(sent, claimed))
    BY <1>g, <2>1, <2>2, ConcatProperties, AfterType
  <2> QED
    BY <1>0, <1>13, <1>s, <2>3 DEF ServerFlush, InvRest, OwnAnswer, Own, clientVars
<1>14. CASE ServerExit
  <2>1. <<>> \in Seq(Genuine(sent, claimed))
    BY EmptySeq
  <2> QED
    BY <1>0, <1>14, <1>s, <2>1 DEF ServerExit, InvRest, OwnAnswer, Own, clientVars
<1>15. CASE UNCHANGED vars
  BY <1>0, <1>15, <1>s DEF InvRest, OwnAnswer, Own, vars, clientVars, serverVars
<1> QED
  BY <1>1, <1>2, <1>3, <1>4, <1>5, <1>6, <1>7, <1>8, <1>10, <1>11, <1>12,
     <1>13, <1>14, <1>15
  DEF Next, ClientStep, ServerStep

(* Whatever the server writes, in whatever pieces and however late, a      *)
(* request ends with a message only if that message bears its id: the      *)
(* server's answer to it, or, for request() does not tell them apart, a    *)
(* request the server made under that id.                                  *)
THEOREM OwnAnswerHolds == Spec => []OwnAnswer
<1>1. Inv => OwnAnswer
  BY DEF Inv
<1>2. Inv /\ [Next]_vars => Inv'
  BY NextInv
<1> QED
  BY <1>1, <1>2, InitInv, PTL DEF Spec, SafeSpec

-----------------------------------------------------------------------------
(* The implementation of the port, step by step.                           *)

(* The end of a request maps to the end of the pending request.            *)
LEMMA EndIsPortEnd ==
  ASSUME TypeOK, cur \in Ids, UNCHANGED <<nextId, sent, claimed>>, NEW res, NEW m, End(res, m)
  PROVE  /\ res \in {"returned", "error"} /\ cur \in sent \union claimed => Port!Return
         /\ res \in {"timeout", "closed", "invalid", "unwritten"} => Port!Fail
<1>1. [i \in Ids |-> Verdict(outcome'[i].res)] =
        [[i \in Ids |-> Verdict(outcome[i].res)] EXCEPT ![cur] = Verdict(res)]
  BY DEF End, TypeOK
<1>2. cur' = 0 /\ cur # 0
  BY DEF End, Ids
<1>3. res \in {"returned", "error"} => Verdict(res) = "answer"
  BY DEF Verdict
<1>4. res \in {"timeout", "closed", "invalid", "unwritten"} => Verdict(res) = "failure"
  BY DEF Verdict
<1> QED
  BY <1>1, <1>2, <1>3, <1>4 DEF Port!Return, Port!Fail

LEMMA InitPort == Init => Port!Init
BY McpClientAssumption DEF Init, Port!Init, Port!Ids, Ids, Verdict, Unfinished

(* A parse leaves the port as it was or ends the pending request.          *)
LEMMA ParseStepPort ==
  ASSUME Inv, cur # 0, NEW final \in BOOLEAN, NEW p,
         p = TryParse(buf, final), UNCHANGED <<nextId, sent, claimed>>,
         p.got = "nothing" => [Port!Next]_Port!portVars,
         \/ p.got = "message" /\ Deliver(p.msg)
         \/ p.got = "invalid" /\ End("invalid", NoMessage)
         \/ p.got = "nothing"
  PROVE  [Port!Next]_Port!portVars
<1>0. cur \in Ids /\ TypeOK
  BY DEF Inv, TypeOK, Ids
<1>1. CASE p.got = "message" /\ Deliver(p.msg)
  <2>1. CASE Matches(p.msg)
    <3>1. PICK t \in Genuine(sent, claimed) : t.msg = p.msg /\ t.tok = "open"
      <4>1. Genuine(sent, claimed) \subseteq Tokens /\ buf \in Seq(Genuine(sent, claimed))
        BY DEF Genuine, Inv
      <4> QED
        BY <1>1, <4>1, TryParseType
    <3>2. cur \in sent \union claimed
      BY <1>0, <2>1, <3>1, MatchIsOwn
    <3>3. PICK res \in {"returned", "error"} : End(res, p.msg)
      BY <1>1, <2>1 DEF Deliver
    <3> QED
      BY <1>0, <3>2, <3>3, EndIsPortEnd DEF Port!Next
  <2>2. CASE ~Matches(p.msg)
    BY <1>1, <2>2 DEF Deliver, Port!portVars
  <2> QED
    BY <2>1, <2>2
<1>2. CASE p.got = "invalid" /\ End("invalid", NoMessage)
  BY <1>0, <1>2, EndIsPortEnd DEF Port!Next
<1> QED
  BY <1>1, <1>2

(* An answer, or a request of the server's own, serves the number it       *)
(* bears, once.                                                            *)
LEMMA SentIsServed ==
  ASSUME UNCHANGED <<nextId, cur, outcome>>, NEW i \in Ids,
         sent' \union (claimed' \cap Ids) = (sent \union (claimed \cap Ids)) \union {i}
  PROVE  [Port!Next]_Port!portVars
<1>1. CASE i \in sent \union (claimed \cap Ids)
  <2>1. sent' \union (claimed' \cap Ids) = sent \union (claimed \cap Ids)
    BY <1>1
  <2> QED
    BY <2>1 DEF Port!portVars
<1>2. CASE i \notin sent \union (claimed \cap Ids)
  <2>1. Port!Serve(i)
    BY <1>2 DEF Port!Serve, Port!Ids, Ids
  <2> QED
    BY <2>1 DEF Port!Next, Port!Ids, Ids
<1> QED
  BY <1>1, <1>2

LEMMA NextPort == Inv /\ [Next]_vars => [Port!Next]_Port!portVars
<1> SUFFICES ASSUME Inv, [Next]_vars
             PROVE  [Port!Next]_Port!portVars
  OBVIOUS
<1>0. TypeOK /\ (pc # "idle" => cur \in Ids /\ cur # 0)
  BY DEF Inv, TypeOK, Ids
<1>1. CASE Request
  <2>1. Port!Issue
    BY <1>0, <1>1, McpClientAssumption
    DEF Inv, TypeOK, Request, Port!Issue, serverVars
  <2> QED
    BY <2>1 DEF Port!Next
<1>2. CASE Write
  <2>1. CASE UNCHANGED <<cur, outcome>>
    BY <1>2, <2>1 DEF Write, serverVars, Port!portVars
  <2>2. CASE End("unwritten", NoMessage)
    BY <1>0, <1>2, <2>2, EndIsPortEnd DEF Write, serverVars, Port!Next
  <2> QED
    BY <1>2, <2>1, <2>2 DEF Write
<1>3. CASE Parse
  <2>0. UNCHANGED <<nextId, sent, claimed>> /\ cur \in Ids /\ cur # 0
    BY <1>0, <1>3 DEF Parse, serverVars
  <2>1. CASE expired
    BY <1>0, <1>3, <2>0, <2>1, EndIsPortEnd DEF Parse, Port!Next
  <2>2. CASE ~expired
    <3> DEFINE p == TryParse(buf, FALSE)
    <3>1. Act(p, pc' = "select" /\ UNCHANGED <<cur, outcome>>)
      BY <1>3, <2>2 DEF Parse
    <3> HIDE DEF p
    <3>2. p.got = "nothing" => [Port!Next]_Port!portVars
      BY <2>0, <3>1 DEF Act, Port!portVars
    <3> QED
      BY <2>0, <3>1, <3>2, ParseStepPort DEF Act, p
  <2> QED
    BY <2>1, <2>2
<1>4. CASE SelectTimeout \/ FillEof
  <2> DEFINE p == TryParse(buf, TRUE)
  <2>0. UNCHANGED <<nextId, sent, claimed>> /\ cur \in Ids /\ cur # 0
    BY <1>0, <1>4 DEF SelectTimeout, FillEof, serverVars
  <2>1. PICK failure \in {"timeout", "closed"} : Act(p, End(failure, NoMessage))
    BY <1>4 DEF SelectTimeout, FillEof, LastAttempt
  <2> HIDE DEF p
  <2>2. p.got = "nothing" => [Port!Next]_Port!portVars
    BY <1>0, <2>0, <2>1, EndIsPortEnd DEF Act, Port!Next
  <2> QED
    BY <2>0, <2>1, <2>2, ParseStepPort DEF Act, p
<1>5. ASSUME NEW i \in Ids, ServerAnswer(i)
      PROVE  [Port!Next]_Port!portVars
  <2>1. UNCHANGED <<nextId, cur, outcome>> /\ sent' = sent \union {i} /\ claimed' = claimed
    BY <1>5 DEF ServerAnswer, StartsWriting, clientVars
  <2> QED
    BY <2>1, SentIsServed
<1>6. ASSUME NEW i \in ServerIds, ServerRequest(i)
      PROVE  [Port!Next]_Port!portVars
  <2>1. UNCHANGED <<nextId, cur, outcome>> /\ claimed' = claimed \union {i} /\ sent' = sent
    BY <1>6 DEF ServerRequest, StartsWriting, clientVars
  <2>2. CASE i \in Ids
    BY <2>1, <2>2, SentIsServed
  <2>3. CASE i \notin Ids
    BY <2>1, <2>3 DEF Port!portVars
  <2> QED
    BY <2>2, <2>3
<1>7. CASE \/ Close \/ Fill \/ Expire \/ ServerRead \/ ServerNotify \/ ServerBlank
          \/ ServerText \/ ServerFlush \/ ServerExit \/ UNCHANGED vars
  <2>1. UNCHANGED <<nextId, cur, sent, claimed, outcome>>
    BY <1>7 DEF Close, Fill, Expire, ServerRead, ServerNotify, ServerBlank, ServerText,
                ServerFlush, ServerExit, StartsWriting, vars, clientVars, serverVars
  <2> QED
    BY <2>1 DEF Port!portVars
<1> QED
  BY <1>1, <1>2, <1>3, <1>4, <1>5, <1>6, <1>7 DEF Next, ClientStep, ServerStep

(* The client implements the port: however its stream is cut and whatever  *)
(* it carries, its callers see requests issued one at a time, each ended   *)
(* once, by a message that bears its number or as a failure.               *)
THEOREM ImplementsPort == Spec => PortSafeSpec
<1>1. Inv /\ [Next]_vars => Inv'
  BY NextInv
<1>2. Inv /\ [Next]_vars => [Port!Next]_Port!portVars
  BY NextPort
<1> QED
  BY <1>1, <1>2, InitInv, InitPort, PTL DEF Spec, SafeSpec, PortSafeSpec, Port!SafeSpec

-----------------------------------------------------------------------------
(* Lines: what _try_parse sees of a server that ends every line it writes. *)

(* An object starts a line, and there is no header.                        *)
WellLined(s) ==
  /\ \A k \in 1 .. Len(s) : s[k].tok # "header"
  /\ \A k \in 2 .. Len(s) : s[k].tok = "open" => s[k - 1] = Eol

WholeLast(s) == s = <<>> \/ s[Len(s)] = Eol

Stream == (buf \o pipe) \o sending

(* Only a server that has exited leaves its last line torn.                *)
Lined == framing = "ndjson" => WellLined(Stream) /\ (alive => WholeLast(Stream))

Fresh ==
  /\ cur < nextId
  /\ \A i \in Ids : i >= nextId \/ i = cur => outcome[i].res = "none"

LineInv == TypeInv /\ Lined /\ Fresh

LEMMA AfterIs ==
  ASSUME NEW T, NEW s \in Seq(T), NEW k \in 0 .. Len(s)
  PROVE  /\ After(s, k) \in Seq(T) /\ Len(After(s, k)) = Len(s) - k
         /\ \A i \in 1 .. Len(s) - k : After(s, k)[i] = s[k + i]
<1>1. Len(s) \in Nat /\ \A i \in k + 1 .. Len(s) : s[i] \in T
  BY LenProperties, ElementOfSeq
<1>2. /\ After(s, k) \in Seq(T)
      /\ Len(After(s, k)) = IF k + 1 <= Len(s) THEN Len(s) - (k + 1) + 1 ELSE 0
      /\ \A i \in 1 .. Len(s) - (k + 1) + 1 : After(s, k)[i] = s[k + 1 + i - 1]
  BY <1>1, SubSeqProperties DEF After
<1>3. \A i \in 1 .. Len(s) - k : k + 1 + i - 1 = k + i /\ i \in 1 .. Len(s) - (k + 1) + 1
  BY <1>1
<1> QED  BY <1>1, <1>2, <1>3

LEMMA AfterOfConcat ==
  ASSUME NEW T, NEW a \in Seq(T), NEW b \in Seq(T), NEW k \in 0 .. Len(a)
  PROVE  After(a, k) \o b = After(a \o b, k)
<1> DEFINE x == After(a, k)
           c == a \o b
           y == After(c, k)
           z == x \o b
<1>0. Len(a) \in Nat /\ Len(b) \in Nat
  BY LenProperties
<1>1. x \in Seq(T) /\ Len(x) = Len(a) - k /\ \A i \in 1 .. Len(a) - k : x[i] = a[k + i]
  BY AfterIs
<1>2. /\ c \in Seq(T) /\ Len(c) = Len(a) + Len(b)
      /\ \A i \in 1 .. Len(a) + Len(b) : c[i] = IF i <= Len(a) THEN a[i] ELSE b[i - Len(a)]
  BY ConcatProperties
<1>3. k \in 0 .. Len(c)
  BY <1>0, <1>2
<1> HIDE DEF c, x
<1>4. y \in Seq(T) /\ Len(y) = Len(c) - k /\ \A i \in 1 .. Len(c) - k : y[i] = c[k + i]
  BY <1>2, <1>3, AfterIs
<1>5. /\ z \in Seq(T) /\ Len(z) = Len(x) + Len(b)
      /\ \A i \in 1 .. Len(x) + Len(b) : z[i] = IF i <= Len(x) THEN x[i] ELSE b[i - Len(x)]
  BY <1>1, ConcatProperties
<1> HIDE DEF y, z
<1>6. Len(y) = Len(z)
  BY <1>0, <1>1, <1>2, <1>4, <1>5
<1>7. ASSUME NEW i \in 1 .. Len(z) PROVE z[i] = y[i]
  <2>1. i \in 1 .. Len(x) + Len(b) /\ i \in 1 .. Len(c) - k /\ k + i \in 1 .. Len(a) + Len(b)
    BY <1>0, <1>1, <1>2, <1>5
  <2>2. y[i] = c[k + i]
    BY <2>1, <1>4
  <2>3. CASE i <= Len(a) - k
    <3>1. z[i] = x[i] /\ x[i] = a[k + i]
      BY <1>0, <1>1, <1>5, <2>1, <2>3
    <3>2. c[k + i] = a[k + i]
      BY <1>0, <1>2, <2>1, <2>3
    <3> QED  BY <2>2, <3>1, <3>2
  <2>4. CASE ~ (i <= Len(a) - k)
    <3>1. z[i] = b[i - Len(x)] /\ i - Len(x) = k + i - Len(a)
      BY <1>0, <1>1, <1>5, <2>1, <2>4
    <3>2. c[k + i] = b[k + i - Len(a)]
      BY <1>0, <1>2, <2>1, <2>4
    <3> QED  BY <2>2, <3>1, <3>2
  <2> QED  BY <2>3, <2>4
<1>8. z = y
  BY <1>4, <1>5, <1>6, <1>7, SeqEqual
<1> QED  BY <1>8 DEF z, y, x, c

(* What is left of a stream, and the first part of one, is well lined.     *)
LEMMA SuffixLined ==
  ASSUME NEW s \in Seq(Tokens), NEW k \in 0 .. Len(s), WellLined(s)
  PROVE  WellLined(After(s, k)) /\ (WholeLast(s) => WholeLast(After(s, k)))
<1> DEFINE x == After(s, k)
<1>1. /\ x \in Seq(Tokens) /\ Len(x) = Len(s) - k /\ Len(s) \in Nat
      /\ \A i \in 1 .. Len(s) - k : x[i] = s[k + i]
  BY AfterIs, LenProperties
<1> HIDE DEF x
<1>2. ASSUME NEW i \in 1 .. Len(x) PROVE x[i].tok # "header"
  BY <1>1 DEF WellLined
<1>3. ASSUME NEW i \in 2 .. Len(x), x[i].tok = "open" PROVE x[i - 1] = Eol
  <2>1. x[i] = s[k + i] /\ x[i - 1] = s[k + i - 1] /\ k + i \in 2 .. Len(s)
    <3>1. /\ k + (i - 1) = k + i - 1 /\ k + i \in 2 .. Len(s)
          /\ i - 1 \in 1 .. Len(s) - k /\ i \in 1 .. Len(s) - k
      BY <1>1
    <3>2. x[i - 1] = s[k + (i - 1)] /\ x[i] = s[k + i]
      BY <1>1, <3>1
    <3> QED  BY <3>1, <3>2
  <2> QED  BY <1>3, <2>1 DEF WellLined
<1>4. ASSUME WholeLast(s), x # <<>> PROVE x[Len(x)] = Eol
  <2>1. Len(x) # 0
    BY <1>1, <1>4, EmptySeq, SeqEqual
  <2>2. x[Len(x)] = s[Len(s)] /\ Len(s) # 0
    <3>1. Len(x) \in 1 .. Len(s) - k /\ k + Len(x) = Len(s)
      BY <1>1, <2>1
    <3> QED  BY <1>1, <3>1
  <2> QED  BY <1>4, <2>2 DEF WholeLast
<1> QED  BY <1>2, <1>3, <1>4 DEF WellLined, WholeLast, x

LEMMA PrefixLined ==
  ASSUME NEW a \in Seq(Tokens), NEW b \in Seq(Tokens), WellLined(a \o b)
  PROVE  WellLined(a)
<1>1. /\ Len(a \o b) = Len(a) + Len(b) /\ Len(a) \in Nat /\ Len(b) \in Nat
      /\ \A i \in 1 .. Len(a) + Len(b) : (a \o b)[i] = IF i <= Len(a) THEN a[i] ELSE b[i - Len(a)]
  BY ConcatProperties, LenProperties
<1> DEFINE c == a \o b
<1>2. \A i \in 1 .. Len(a) : c[i] = a[i] /\ i \in 1 .. Len(c)
  BY <1>1
<1> HIDE DEF c
<1>3. \A i \in 2 .. Len(a) : i \in 1 .. Len(a) /\ i - 1 \in 1 .. Len(a) /\ i \in 2 .. Len(c)
  BY <1>1 DEF c
<1> QED  BY <1>2, <1>3 DEF WellLined, c

(* Whole lines at the end of whole lines.                                  *)
LEMMA ConcatLined ==
  ASSUME NEW a \in Seq(Tokens), NEW b \in Seq(Tokens),
         WellLined(a), WholeLast(a), WellLined(b), b # <<>>, WholeLast(b)
  PROVE  WellLined(a \o b) /\ WholeLast(a \o b)
<1> DEFINE c == a \o b
<1>1. /\ c \in Seq(Tokens) /\ Len(c) = Len(a) + Len(b) /\ Len(a) \in Nat /\ Len(b) \in Nat
      /\ \A i \in 1 .. Len(a) + Len(b) : c[i] = IF i <= Len(a) THEN a[i] ELSE b[i - Len(a)]
  BY ConcatProperties, LenProperties
<1>2. Len(b) # 0 /\ (Len(a) # 0 => a # <<>>)
  BY <1>1, EmptySeq, SeqEqual
<1> HIDE DEF c
<1>3. ASSUME NEW i \in 1 .. Len(c) PROVE c[i].tok # "header"
  <2>1. CASE i <= Len(a)
    BY <1>1, <2>1 DEF WellLined
  <2>2. CASE ~ (i <= Len(a))
    <3>1. c[i] = b[i - Len(a)] /\ i - Len(a) \in 1 .. Len(b)
      BY <1>1, <2>2
    <3> QED  BY <3>1 DEF WellLined
  <2> QED  BY <2>1, <2>2
<1>4. ASSUME NEW i \in 2 .. Len(c), c[i].tok = "open" PROVE c[i - 1] = Eol
  <2>0. i \in 1 .. Len(c) /\ i - 1 \in 1 .. Len(c)
    BY <1>1
  <2>1. CASE i <= Len(a)
    <3>1. c[i] = a[i] /\ c[i - 1] = a[i - 1] /\ i \in 2 .. Len(a)
      BY <1>1, <2>0, <2>1
    <3> QED  BY <1>4, <3>1 DEF WellLined
  <2>2. CASE i = Len(a) + 1
    <3>1. c[i - 1] = a[Len(a)] /\ Len(a) # 0
      BY <1>1, <2>0, <2>2
    <3> QED  BY <1>2, <3>1 DEF WholeLast
  <2>3. CASE i > Len(a) + 1
    <3> DEFINE j == i - Len(a)
    <3>1. c[i] = b[j] /\ c[i - 1] = b[j - 1] /\ j \in 2 .. Len(b)
      BY <1>1, <2>0, <2>3
    <3> QED  BY <1>4, <3>1 DEF WellLined
  <2> QED  BY <1>1, <2>0, <2>1, <2>2, <2>3
<1>5. c[Len(c)] = Eol
  <2>1. c[Len(c)] = b[Len(b)]
    BY <1>1, <1>2
  <2> QED  BY <1>2, <2>1 DEF WholeLast
<1> QED  BY <1>3, <1>4, <1>5 DEF WellLined, WholeLast, c

LEMMA EncodeLined ==
  ASSUME framing = "ndjson", NEW m \in Messages
  PROVE  /\ Encode(m) \in Seq(Tokens) /\ Encode(m) # <<>>
         /\ WellLined(Encode(m)) /\ WholeLast(Encode(m))
<1> DEFINE s == <<Open(m), Rest(m), Eol>>
<1>1. Encode(m) = s
  BY DEF Encode
<1>2. Len(s) = 3 /\ s[1] = Open(m) /\ s[2] = Rest(m) /\ s[3] = Eol
  OBVIOUS
<1> HIDE DEF s
<1>3. s # <<>>
  BY <1>2
<1>4. \A i \in 1 .. 3 : i = 1 \/ i = 2 \/ i = 3
  OBVIOUS
<1>5. WellLined(s) /\ WholeLast(s)
  BY <1>2, <1>4 DEF WellLined, WholeLast, Open, Rest, Eol
<1> QED  BY <1>1, <1>3, <1>5, EncodeType

LEMMA NoiseLined ==
  /\ <<Eol>> \in Seq(Tokens) /\ <<Eol>> # <<>> /\ WellLined(<<Eol>>) /\ WholeLast(<<Eol>>)
  /\ <<Text, Eol>> \in Seq(Tokens) /\ <<Text, Eol>> # <<>>
  /\ WellLined(<<Text, Eol>>) /\ WholeLast(<<Text, Eol>>)
<1>1. Text \in Tokens /\ Eol \in Tokens
  BY DEF Tokens
<1>2. \A i \in 1 .. 2 : i = 1 \/ i = 2
  OBVIOUS
<1> QED  BY <1>1, <1>2 DEF WellLined, WholeLast, Text, Eol

(* A parse of lines takes a prefix off the buffer; and when it takes the   *)
(* answer to i, it has found that answer.                                  *)
LEMMA LineParsed ==
  ASSUME NEW b \in Seq(Tokens), WellLined(b), NEW final \in BOOLEAN,
         NEW p, p = TryParse(b, final)
  PROVE  /\ \E k \in 0 .. Len(b) : p.rest = After(b, k)
         /\ p.got = "nothing" /\ b # <<>> /\ b[1].tok = "open" => LineEnds(p.rest) = {}
         /\ \A i \in Ids : AnswerAt(b, i) =>
              \/ AnswerAt(p.rest, i)
              \/ p.got = "message" /\ p.msg \in Answers /\ p.msg.id = i
<1>0. Len(b) \in Nat /\ LineEnds(b) \subseteq 1 .. Len(b)
  BY LenProperties, LineEndsType
<1>1. p = ParseLine(b, final)
  <2>1. ~HasHeader(b)
    <3> SUFFICES ASSUME HasHeader(b) PROVE FALSE
      OBVIOUS
    <3>1. First(BlankLines(b)) \in 1 .. Len(b)
      <4>1. BlankLines(b) \in SUBSET Nat /\ BlankLines(b) # {}
        BY <1>0, LineEndsType DEF HasHeader
      <4> QED  BY <4>1, FirstIsLeast, LineEndsType
    <3>2. PICK i \in 1 .. First(BlankLines(b)) - 1 : b[i] = Header
      BY DEF HasHeader
    <3>3. i \in 1 .. Len(b)
      BY <1>0, <3>1
    <3> QED  BY <3>2, <3>3 DEF WellLined, Header
  <2> QED  BY <2>1 DEF TryParse
<1>2. CASE LineEnds(b) = {}
  <2>1. \A i \in Ids : ~AnswerAt(b, i)
    <3> SUFFICES ASSUME NEW i \in Ids, NEW k \in 1 .. Len(b) - 2, b[k + 2] = Eol PROVE FALSE
      BY DEF AnswerAt
    <3>1. k + 2 \in 1 .. Len(b)
      BY <1>0
    <3> QED  BY <1>2, <3>1 DEF LineEnds
  <2>2. After(b, 0) = b /\ After(b, Len(b)) = <<>> /\ 0 \in 0 .. Len(b) /\ Len(b) \in 0 .. Len(b)
    <3>1. SubSeq(b, 1, Len(b)) = b
      BY SubSeqFull
    <3>2. SubSeq(b, Len(b) + 1, Len(b)) = <<>>
      BY <1>0, SubSeqEmpty
    <3> QED  BY <1>0, <3>1, <3>2 DEF After
  <2>3. p.rest \in {b, <<>>} /\ (p.got = "nothing" => p.rest = b)
    BY <1>1, <1>2 DEF ParseLine, Loads, Found, Invalid, Nothing
  <2> QED  BY <1>2, <2>1, <2>2, <2>3
<1>3. CASE LineEnds(b) # {}
  <2> DEFINE nl == First(LineEnds(b))
             line == SubSeq(b, 1, nl - 1)
             left == After(b, nl)
  <2>1. nl \in LineEnds(b) /\ \A j \in LineEnds(b) : nl <= j
    <3>1. LineEnds(b) \in SUBSET Nat
      BY <1>0
    <3> QED  BY <1>3, <3>1, FirstIsLeast
  <2>2. nl \in 1 .. Len(b)
    BY <1>0, <2>1
  <2>3. /\ left \in Seq(Tokens) /\ Len(left) = Len(b) - nl
        /\ \A j \in 1 .. Len(b) - nl : left[j] = b[nl + j]
    <3>1. nl \in 0 .. Len(b)
      BY <1>0, <2>2
    <3> HIDE DEF nl
    <3> QED  BY <3>1, AfterIs
  <2>4. p = IF b[1].tok = "open" THEN Loads(line, left) ELSE Nothing(left)
    BY <1>1, <1>3 DEF ParseLine
  <2>5. line \in Seq(Tokens) /\ Len(line) = nl - 1 /\ \A j \in 1 .. nl - 1 : line[j] = b[j]
    <3>1. \A j \in 1 .. nl - 1 : b[j] \in Tokens
      BY <1>0, <2>2, ElementOfSeq
    <3>2. /\ SubSeq(b, 1, nl - 1) \in Seq(Tokens)
          /\ Len(SubSeq(b, 1, nl - 1)) = IF 1 <= nl - 1 THEN nl - 1 - 1 + 1 ELSE 0
          /\ \A j \in 1 .. nl - 1 - 1 + 1 : SubSeq(b, 1, nl - 1)[j] = b[1 + j - 1]
      BY <2>2, <3>1, SubSeqProperties
    <3>3. \A j \in 1 .. nl - 1 : j \in 1 .. nl - 1 - 1 + 1 /\ 1 + j - 1 = j
      BY <2>2
    <3> QED  BY <2>2, <3>2, <3>3
  <2> HIDE DEF nl, line, left
  <2>6. p.rest = left /\ (b[1].tok = "open" => p.got # "nothing")
    BY <2>4 DEF Loads, Found, Invalid, Nothing
  <2>7. ASSUME NEW i \in Ids, AnswerAt(b, i)
        PROVE  AnswerAt(left, i) \/ (p.got = "message" /\ p.msg \in Answers /\ p.msg.id = i)
    <3>1. PICK k \in 1 .. Len(b) - 2 :
            /\ b[k].tok = "open" /\ b[k].msg \in Answers /\ b[k].msg.id = i
            /\ b[k + 1] = Rest(b[k].msg) /\ b[k + 2] = Eol
      BY <2>7 DEF AnswerAt
    <3>2. k \in 1 .. Len(b) /\ k + 1 \in 1 .. Len(b) /\ k + 2 \in LineEnds(b)
      BY <1>0, <3>1 DEF LineEnds
    <3>3. nl <= k + 2 /\ nl # k /\ nl # k + 1
      <4>1. b[nl] = Eol
        BY <2>1 DEF LineEnds
      <4> QED  BY <2>1, <3>1, <3>2, <4>1 DEF Rest, Eol
    <3>4. CASE nl < k
      <4> DEFINE j == k - nl
      <4>1. /\ j \in 1 .. Len(left) - 2 /\ j \in 1 .. Len(b) - nl
            /\ j + 1 \in 1 .. Len(b) - nl /\ j + 2 \in 1 .. Len(b) - nl
        BY <1>0, <2>2, <2>3, <3>4
      <4>2. nl + j = k /\ nl + (j + 1) = k + 1 /\ nl + (j + 2) = k + 2
        BY <2>2
      <4> HIDE DEF j
      <4>3. left[j] = b[k] /\ left[j + 1] = b[k + 1] /\ left[j + 2] = b[k + 2]
        BY <2>3, <4>1, <4>2
      <4> QED  BY <3>1, <4>1, <4>3 DEF AnswerAt
    <3>5. CASE nl = k + 2
      <4>1. k = 1
        <5> SUFFICES ASSUME k # 1 PROVE FALSE
          OBVIOUS
        <5>1. k \in 2 .. Len(b) /\ k - 1 \in 1 .. Len(b)
          BY <1>0
        <5>2. b[k - 1] = Eol
          BY <3>1, <5>1 DEF WellLined
        <5>3. k - 1 \in LineEnds(b)
          BY <5>1, <5>2 DEF LineEnds
        <5> QED  BY <2>1, <3>5, <5>3
      <4>2. Len(line) = 2 /\ line[1] = b[1] /\ line[2] = b[2]
        BY <2>5, <3>5, <4>1
      <4>3. Loads(line, left) = Found(b[1].msg, left)
        BY <3>1, <4>1, <4>2 DEF Loads
      <4>4. p = Found(b[1].msg, left)
        BY <2>4, <3>1, <4>1, <4>3
      <4> QED  BY <3>1, <4>1, <4>4 DEF Found
    <3> QED  BY <2>2, <3>3, <3>4, <3>5
  <2>8. nl \in 0 .. Len(b)
    BY <2>2
  <2> QED  BY <2>6, <2>7, <2>8 DEF left
<1> QED  BY <1>2, <1>3

(* A stream read in two pieces.                                            *)
LEMMA CutInTwo ==
  ASSUME NEW s \in Seq(Tokens), NEW n \in 1 .. Len(s)
  PROVE  /\ SubSeq(s, 1, n) \o After(s, n) = s
         /\ SubSeq(s, 1, n) \in Seq(Tokens) /\ After(s, n) \in Seq(Tokens)
<1>1. Len(s) \in Nat /\ \A i \in 1 .. n : s[i] \in Tokens
  BY LenProperties, ElementOfSeq
<1>2. SubSeq(s, 1, n) \o SubSeq(s, n + 1, Len(s)) = SubSeq(s, 1, Len(s))
  <2>1. 1 \in 1 .. Len(s) + 1 /\ n \in 1 - 1 .. Len(s) /\ Len(s) \in n .. Len(s)
    BY <1>1
  <2> QED  BY <2>1, ConcatAdjacentSubSeq
<1>3. SubSeq(s, 1, Len(s)) = s
  BY SubSeqFull
<1>4. SubSeq(s, 1, n) \in Seq(Tokens)
  BY <1>1, SubSeqProperties
<1>5. n \in 0 .. Len(s)
  BY <1>1
<1> QED  BY <1>2, <1>3, <1>4, <1>5, AfterIs DEF After

-----------------------------------------------------------------------------
(* The steps.                                                              *)

(* A message parsed, an invalid line, or nothing: the outcomes that change *)
(* are of the request in progress.                                         *)
LEMMA EndFresh ==
  ASSUME TypeInv, Fresh, cur # 0, nextId' = nextId, NEW res, NEW m, End(res, m)
  PROVE  Fresh'
<1>1. /\ cur' = 0 /\ cur \in Nat /\ nextId \in Nat /\ cur < nextId /\ 0 \notin Ids
      /\ outcome \in [Ids -> [res : Results, msg : Messages \union {NoMessage}]]
      /\ outcome' = [outcome EXCEPT ![cur] = [res |-> res, msg |-> m]]
  BY McpClientAssumption DEF End, TypeInv, RequestTypeOK, TypeOK, Fresh, Ids
<1>2. ASSUME NEW i \in Ids, i >= nextId' \/ i = cur' PROVE outcome'[i].res = "none"
  <2>1. i # cur /\ i >= nextId
    BY <1>1, <1>2 DEF Ids
  <2> QED  BY <1>1, <2>1 DEF Fresh
<1>3. cur' < nextId'
  BY <1>1
<1> QED  BY <1>2, <1>3 DEF Fresh

LEMMA NextFresh == LineInv /\ [Next]_vars => Fresh'
<1> SUFFICES ASSUME LineInv, [Next]_vars PROVE Fresh'
  OBVIOUS
<1>0. /\ TypeInv /\ Fresh /\ cur \in Nat /\ nextId \in Nat
      /\ pc # "idle" => cur # 0
  BY DEF LineInv, TypeInv, TypeOK, RequestTypeOK
<1>1. CASE UNCHANGED <<nextId, cur, outcome>>
  BY <1>0, <1>1 DEF Fresh
<1>2. CASE Request
  <2>1. cur' = nextId /\ nextId' = nextId + 1 /\ outcome' = outcome
    BY <1>2 DEF Request
  <2>2. \A i \in Ids : i >= nextId' \/ i = cur' => i >= nextId
    BY <1>0, <2>1 DEF Ids
  <2> QED  BY <1>0, <2>1, <2>2 DEF Fresh
<1>3. ASSUME NEW res, NEW m, End(res, m), pc # "idle", nextId' = nextId PROVE Fresh'
  BY <1>0, <1>3, EndFresh
<1>4. CASE Write
  BY <1>1, <1>3, <1>4 DEF Write
<1>5. CASE Parse
  BY <1>1, <1>3, <1>5 DEF Parse, Act, Deliver
<1>6. CASE SelectTimeout \/ FillEof
  BY <1>1, <1>3, <1>6 DEF SelectTimeout, FillEof, LastAttempt, Act, Deliver
<1>7. CASE Close \/ Fill \/ Expire
  BY <1>1, <1>7 DEF Close, Fill, Expire
<1>8. CASE ServerStep
  BY <1>1, <1>8 DEF ServerStep, ServerRead, ServerAnswer, ServerNotify, ServerRequest, ServerBlank,
                    ServerText, ServerFlush, ServerExit, StartsWriting, clientVars
<1>9. CASE UNCHANGED vars
  BY <1>1, <1>9 DEF vars, clientVars
<1> QED  BY <1>2, <1>4, <1>5, <1>6, <1>7, <1>8, <1>9 DEF Next, ClientStep

(* The client takes a prefix off the stream.                               *)
LEMMA ParseLined ==
  ASSUME TypeInv, Lined, NEW final \in BOOLEAN, buf' = TryParse(buf, final).rest,
         UNCHANGED <<framing, alive, pipe, sending>>
  PROVE  Lined'
<1> SUFFICES ASSUME framing = "ndjson" PROVE WellLined(Stream') /\ (alive => WholeLast(Stream'))
  BY DEF Lined
<1>0. buf \in Seq(Tokens) /\ pipe \in Seq(Tokens) /\ sending \in Seq(Tokens)
  BY DEF TypeInv, TypeOK
<1> DEFINE rest == pipe \o sending
<1>1. rest \in Seq(Tokens) /\ Stream = buf \o rest /\ Stream \in Seq(Tokens)
  BY <1>0, ConcatAssociative, ConcatProperties DEF Stream
<1> HIDE DEF rest
<1>2. WellLined(buf)
  BY <1>0, <1>1, PrefixLined DEF Lined
<1>3. PICK k \in 0 .. Len(buf) : buf' = After(buf, k)
  <2> DEFINE p == TryParse(buf, final)
  <2> HIDE DEF p
  <2>1. \E k \in 0 .. Len(buf) : p.rest = After(buf, k)
    BY <1>0, <1>2, LineParsed DEF p
  <2> QED  BY <2>1 DEF p
<1>4. Stream' = After(Stream, k)
  <2>1. buf' \in Seq(Tokens)
    BY <1>0, <1>3, AfterIs
  <2>2. (buf' \o pipe) \o sending = buf' \o rest
    <3> DEFINE x == After(buf, k)
    <3> HIDE DEF x
    <3>1. x \in Seq(Tokens)
      BY <1>3, <2>1 DEF x
    <3>2. (x \o pipe) \o sending = x \o (pipe \o sending)
      BY <1>0, <3>1
    <3> QED  BY <1>3, <3>2 DEF x, rest
  <2>3. Stream' = buf' \o rest
    BY <2>2 DEF Stream
  <2> QED  BY <1>0, <1>1, <1>3, <2>3, AfterOfConcat
<1>5. k \in 0 .. Len(Stream)
  BY <1>0, <1>1, ConcatProperties, LenProperties
<1> QED  BY <1>1, <1>4, <1>5, SuffixLined DEF Lined

(* The server adds whole lines, until it exits.                            *)
LEMMA WriteLined ==
  ASSUME TypeInv, Lined, NEW tokens \in Seq(Tokens), tokens # <<>>,
         framing = "ndjson" => WellLined(tokens) /\ WholeLast(tokens), StartsWriting(tokens)
  PROVE  Lined'
<1>0. /\ buf \in Seq(Tokens) /\ pipe \in Seq(Tokens) /\ sending = <<>> /\ alive
      /\ UNCHANGED <<framing, alive, buf, pipe>> /\ sending' = tokens
  BY DEF TypeInv, TypeOK, StartsWriting, clientVars
<1>1. buf \o pipe \in Seq(Tokens) /\ Stream = buf \o pipe /\ Stream' = (buf \o pipe) \o tokens
  BY <1>0, ConcatProperties, ConcatEmptySeq DEF Stream
<1> QED  BY <1>0, <1>1, ConcatLined DEF Lined

LEMMA NextLined == LineInv /\ [Next]_vars => Lined'
<1> SUFFICES ASSUME LineInv, [Next]_vars PROVE Lined'
  OBVIOUS
<1>0. /\ TypeInv /\ Lined
      /\ buf \in Seq(Tokens) /\ pipe \in Seq(Tokens) /\ sending \in Seq(Tokens)
  BY DEF LineInv, TypeInv, TypeOK
<1>1. CASE UNCHANGED <<framing, alive, buf, pipe, sending>>
  BY <1>0, <1>1 DEF Lined, Stream
<1>2. CASE Request \/ Close \/ Write \/ Expire
  BY <1>1, <1>2 DEF Request, Close, Write, Expire, serverVars
<1>3. CASE Parse
  <2>1. CASE expired
    BY <1>1, <1>3, <2>1 DEF Parse, serverVars
  <2>2. CASE ~expired
    BY <1>0, <1>3, <2>2, ParseLined DEF Parse, serverVars
  <2> QED  BY <2>1, <2>2
<1>4. CASE Fill
  <2>1. PICK n \in 1 .. Len(pipe) : buf' = buf \o SubSeq(pipe, 1, n) /\ pipe' = After(pipe, n)
    BY <1>4 DEF Fill
  <2>2. UNCHANGED <<framing, alive, sending>>
    BY <1>4 DEF Fill, serverVars
  <2>3. SubSeq(pipe, 1, n) \o After(pipe, n) = pipe
    BY <1>0, <2>1, CutInTwo
  <2>4. SubSeq(pipe, 1, n) \in Seq(Tokens) /\ After(pipe, n) \in Seq(Tokens)
    BY <1>0, CutInTwo
  <2>5. buf' \o pipe' = buf \o pipe
    <3> DEFINE x == SubSeq(pipe, 1, n)
               y == After(pipe, n)
    <3> HIDE DEF x, y
    <3>1. (buf \o x) \o y = buf \o (x \o y)
      BY <1>0, <2>4 DEF x, y
    <3> QED  BY <2>1, <2>3, <3>1 DEF x, y
  <2> QED  BY <1>0, <2>2, <2>5 DEF Lined, Stream
<1>5. CASE SelectTimeout \/ FillEof
  BY <1>0, <1>5, ParseLined DEF SelectTimeout, FillEof, LastAttempt, serverVars
<1>6. CASE ServerRead
  BY <1>1, <1>6 DEF ServerRead, clientVars
<1>7. ASSUME NEW m \in Messages, StartsWriting(Encode(m)) PROVE Lined'
  <2>1. Encode(m) \in Seq(Tokens) /\ Encode(m) # <<>>
    BY EncodeType DEF Encode
  <2> QED  BY <1>0, <1>7, <2>1, EncodeLined, WriteLined
<1>8. ASSUME NEW i \in Ids, ServerAnswer(i) PROVE Lined'
  <2>1. PICK kind \in {"result", "error"} : StartsWriting(Encode([kind |-> kind, id |-> i]))
    BY <1>8 DEF ServerAnswer
  <2>2. [kind |-> kind, id |-> i] \in Messages
    BY DEF Messages, Answers
  <2> QED  BY <1>7, <2>1, <2>2
<1>9. ASSUME NEW i \in ServerIds, ServerRequest(i) PROVE Lined'
  <2> DEFINE m == [kind |-> "request", id |-> i]
  <2>1. m \in Messages /\ StartsWriting(Encode(m))
    BY <1>9 DEF Messages, ServerRequests, ServerRequest
  <2> HIDE DEF m
  <2> QED  BY <1>7, <2>1
<1>10. CASE ServerNotify
  <2>1. Notification \in Messages /\ StartsWriting(Encode(Notification))
    BY <1>10 DEF Messages, ServerNotify
  <2> QED  BY <1>7, <2>1
<1>11. CASE ServerBlank \/ ServerText
  BY <1>0, <1>11, NoiseLined, WriteLined DEF ServerBlank, ServerText
<1>12. CASE ServerFlush
  <2>1. PICK n \in 1 .. Len(sending) :
           pipe' = pipe \o SubSeq(sending, 1, n) /\ sending' = After(sending, n)
    BY <1>12 DEF ServerFlush
  <2>2. UNCHANGED <<framing, alive, buf>>
    BY <1>12 DEF ServerFlush, clientVars
  <2>3. SubSeq(sending, 1, n) \o After(sending, n) = sending
    BY <1>0, <2>1, CutInTwo
  <2>4. SubSeq(sending, 1, n) \in Seq(Tokens) /\ After(sending, n) \in Seq(Tokens)
    BY <1>0, CutInTwo
  <2> DEFINE x == SubSeq(sending, 1, n)
             y == After(sending, n)
  <2> HIDE DEF x, y
  <2>9. x \in Seq(Tokens) /\ y \in Seq(Tokens)
    BY <2>4 DEF x, y
  <2>5. x \o y = sending
    BY <2>3 DEF x, y
  <2>6. (buf \o (pipe \o x)) \o y = buf \o (pipe \o (x \o y))
    <3> DEFINE z == pipe \o x
    <3>1. z \in Seq(Tokens)
      BY <1>0, <2>9, ConcatProperties
    <3>2. z \o y = pipe \o (x \o y)
      BY <1>0, <2>9
    <3> HIDE DEF z
    <3>3. (buf \o z) \o y = buf \o (z \o y)
      BY <1>0, <2>9, <3>1
    <3> QED  BY <3>2, <3>3 DEF z
  <2>7. Stream = buf \o (pipe \o sending)
    BY <1>0 DEF Stream
  <2>8. Stream' = Stream
    BY <2>1, <2>2, <2>5, <2>6, <2>7 DEF Stream, x, y
  <2> QED  BY <1>0, <2>2, <2>8 DEF Lined
<1>13. CASE ServerExit
  <2>1. ~alive' /\ UNCHANGED <<framing, buf, pipe>> /\ sending' = <<>>
    BY <1>13 DEF ServerExit, clientVars
  <2>2. Stream' = buf \o pipe /\ buf \o pipe \in Seq(Tokens)
    BY <1>0, <2>1, ConcatProperties, ConcatEmptySeq DEF Stream
  <2>3. framing = "ndjson" => WellLined(buf \o pipe)
    BY <1>0, <2>2, PrefixLined DEF Lined, Stream
  <2> QED  BY <2>1, <2>2, <2>3 DEF Lined
<1>14. CASE UNCHANGED vars
  BY <1>1, <1>14 DEF vars, clientVars, serverVars
<1> QED
  BY <1>2, <1>3, <1>4, <1>5, <1>6, <1>8, <1>9, <1>10, <1>11, <1>12, <1>13, <1>14
  DEF Next, ClientStep, ServerStep

LEMMA InitLine == Init => LineInv
<1> SUFFICES ASSUME Init PROVE LineInv
  OBVIOUS
<1>1. Stream = <<>>
  <2>1. <<>> \o <<>> = <<>>
    OBVIOUS
  <2> QED  BY <2>1 DEF Init, Stream
<1>2. Lined
  BY <1>1 DEF Lined, WellLined, WholeLast
<1>3. Fresh
  BY DEF Init, Fresh, Unfinished, Ids
<1> QED  BY <1>2, <1>3, InitType DEF LineInv

LEMMA LineInductive == Spec => []LineInv
<1>1. LineInv /\ [Next]_vars => LineInv'
  BY NextType, NextLined, NextFresh DEF LineInv
<1> QED  BY InitLine, <1>1, PTL DEF Spec, SafeSpec

(* What is added behind an answer leaves it in the buffer.                 *)
LEMMA AnswerStays ==
  ASSUME NEW b \in Seq(Tokens), NEW x \in Seq(Tokens), NEW i \in Ids, AnswerAt(b, i)
  PROVE  AnswerAt(b \o x, i)
<1>1. PICK k \in 1 .. Len(b) - 2 :
        /\ b[k].tok = "open" /\ b[k].msg \in Answers /\ b[k].msg.id = i
        /\ b[k + 1] = Rest(b[k].msg) /\ b[k + 2] = Eol
  BY DEF AnswerAt
<1> DEFINE c == b \o x
<1>2. /\ Len(c) = Len(b) + Len(x) /\ Len(b) \in Nat /\ Len(x) \in Nat
      /\ \A j \in 1 .. Len(b) + Len(x) : c[j] = IF j <= Len(b) THEN b[j] ELSE x[j - Len(b)]
  BY ConcatProperties, LenProperties
<1> HIDE DEF c
<1>3. /\ k \in 1 .. Len(c) - 2 /\ k \in 1 .. Len(b) + Len(x) /\ k <= Len(b)
      /\ k + 1 \in 1 .. Len(b) + Len(x) /\ k + 1 <= Len(b)
      /\ k + 2 \in 1 .. Len(b) + Len(x) /\ k + 2 <= Len(b)
  BY <1>2
<1>4. c[k] = b[k] /\ c[k + 1] = b[k + 1] /\ c[k + 2] = b[k + 2]
  BY <1>2, <1>3
<1> QED  BY <1>1, <1>3, <1>4 DEF AnswerAt, c

(* The answer to the request in progress, once parsed, ends it.            *)
LEMMA ParsedAnswerEnds ==
  ASSUME TypeInv, Fresh, cur \in Ids, NEW m \in Answers, m.id = cur, Deliver(m)
  PROVE  Ends(cur, "returned") \/ Ends(cur, "error")
<1>1. Matches(m)
  BY DEF Matches, Answers
<1>2. PICK res \in {"returned", "error"} : End(res, m)
  BY <1>1 DEF Deliver
<1>3. outcome'[cur].res = res /\ outcome[cur].res = "none"
  BY <1>2 DEF End, TypeInv, RequestTypeOK, Fresh
<1> QED  BY <1>2, <1>3 DEF Ends

(* _try_parse never throws away the complete line a request waits for:     *)
(* every object the server writes starts a line, so a line that is taken   *)
(* off before the answer's own is not the answer's, and the answer's own   *)
(* line is parsed as the answer.  The ids of the server's requests are     *)
(* not restricted here.                                                    *)
THEOREM AnswerNotDroppedHolds == Spec => AnswerNotDropped
<1> DEFINE Kept ==
      \A i \in Ids :
        framing = "ndjson" /\ cur = i /\ AnswerAt(buf, i) /\ ~AnswerAt(buf', i)
          => Ends(i, "returned") \/ Ends(i, "error")
<1>1. LineInv /\ [Next]_vars => [Kept]_vars
  <2> SUFFICES ASSUME LineInv, Next, NEW i \in Ids,
                      framing = "ndjson", cur = i, AnswerAt(buf, i), ~AnswerAt(buf', i)
               PROVE  Ends(i, "returned") \/ Ends(i, "error")
    OBVIOUS
  <2>0. /\ TypeInv /\ Fresh /\ WellLined(buf) /\ cur \in Ids
        /\ buf \in Seq(Tokens) /\ pipe \in Seq(Tokens) /\ sending \in Seq(Tokens)
    <3>1. TypeInv /\ Fresh /\ WellLined(Stream)
      BY DEF LineInv, Lined
    <3>2. buf \in Seq(Tokens) /\ pipe \in Seq(Tokens) /\ sending \in Seq(Tokens)
      BY DEF LineInv, TypeInv, TypeOK
    <3>3. buf \o pipe \in Seq(Tokens)
      BY <3>2, ConcatProperties
    <3>4. WellLined(buf \o pipe)
      BY <3>1, <3>2, <3>3, PrefixLined DEF Stream
    <3> QED  BY <3>1, <3>2, <3>4, PrefixLined
  <2>1. ASSUME NEW final \in BOOLEAN, buf' = TryParse(buf, final).rest,
               NEW otherwise, Act(TryParse(buf, final), otherwise)
        PROVE  Ends(i, "returned") \/ Ends(i, "error")
    <3> DEFINE p == TryParse(buf, final)
    <3> HIDE DEF p
    <3>1. p.got = "message" /\ p.msg \in Answers /\ p.msg.id = i
      <4>1. AnswerAt(p.rest, i) \/ (p.got = "message" /\ p.msg \in Answers /\ p.msg.id = i)
        BY <2>0, LineParsed DEF p
      <4> QED  BY <2>1, <4>1 DEF p
    <3>2. Deliver(p.msg)
      BY <2>1, <3>1 DEF Act, p
    <3> QED  BY <2>0, <3>1, <3>2, ParsedAnswerEnds
  <2>2. buf' # buf
    OBVIOUS
  <2>3. CASE Parse
    <3>1. ~expired
      BY <2>2, <2>3 DEF Parse
    <3> QED  BY <2>1, <2>3, <3>1 DEF Parse
  <2>4. CASE SelectTimeout \/ FillEof
    BY <2>1, <2>4 DEF SelectTimeout, FillEof, LastAttempt
  <2>5. CASE Fill
    <3>1. PICK n \in 1 .. Len(pipe) : buf' = buf \o SubSeq(pipe, 1, n)
      BY <2>5 DEF Fill
    <3>2. SubSeq(pipe, 1, n) \in Seq(Tokens)
      BY <2>0, CutInTwo
    <3> QED  BY <2>0, <3>1, <3>2, AnswerStays
  <2>6. CASE Request \/ Close \/ Write \/ Expire \/ ServerStep
    BY <2>2, <2>6 DEF Request, Close, Write, Expire, ServerStep, ServerRead, ServerAnswer,
                      ServerNotify, ServerRequest, ServerBlank, ServerText, ServerFlush,
                      ServerExit, StartsWriting, clientVars
  <2> QED  BY <2>3, <2>4, <2>5, <2>6 DEF Next, ClientStep
<1> QED  BY <1>1, LineInductive, PTL DEF Spec, SafeSpec, AnswerNotDropped

(* request() goes back to select() with its answer in the buffer only when *)
(* what it has just taken off is no object: after an object it parses      *)
(* again.                                                                  *)
THEOREM WaitsOnlyBehindNoiseHolds == Spec => WaitsOnlyBehindNoise
<1> DEFINE Behind ==
      pc = "parse" /\ pc' = "select" /\ framing = "ndjson" /\ AnswerAt(buf', cur)
        => buf[1].tok # "open"
<1>1. LineInv /\ [Next]_vars => [Behind]_vars
  <2> SUFFICES ASSUME LineInv, Next, pc = "parse", pc' = "select", framing = "ndjson",
                      AnswerAt(buf', cur), buf[1].tok = "open"
               PROVE  FALSE
    OBVIOUS
  <2>0. /\ WellLined(buf) /\ buf \in Seq(Tokens)
    <3>1. WellLined(Stream)
      BY DEF LineInv, Lined
    <3>2. buf \in Seq(Tokens) /\ pipe \in Seq(Tokens) /\ sending \in Seq(Tokens)
      BY DEF LineInv, TypeInv, TypeOK
    <3>3. buf \o pipe \in Seq(Tokens)
      BY <3>2, ConcatProperties
    <3>4. WellLined(buf \o pipe)
      BY <3>1, <3>2, <3>3, PrefixLined DEF Stream
    <3> QED  BY <3>1, <3>2, <3>4, PrefixLined
  <2>1. Parse
    BY DEF Next, Request, Close, ClientStep, Write, Fill, SelectTimeout, FillEof, Expire, End,
           ServerStep, ServerRead, ServerAnswer, ServerNotify, ServerRequest, ServerBlank,
           ServerText, ServerFlush, ServerExit, StartsWriting, clientVars
  <2> DEFINE p == TryParse(buf, FALSE)
  <2>2. /\ buf' = p.rest /\ p.got = "nothing"
    <3>1. ~expired /\ buf' = p.rest /\ Act(p, pc' = "select" /\ UNCHANGED <<cur, outcome>>)
      BY <2>1 DEF Parse, End
    <3> HIDE DEF p
    <3> QED  BY <3>1 DEF Act, Deliver, End
  <2>3. PICK k \in 1 .. Len(buf') - 2 : buf'[k + 2] = Eol
    BY DEF AnswerAt
  <2>4. k + 2 \in LineEnds(buf')
    <3>1. /\ \E j \in 0 .. Len(buf) : buf' = After(buf, j)
      <4> HIDE DEF p
      <4> QED  BY <2>0, <2>2, LineParsed DEF p
    <3>2. Len(buf') \in Nat
      BY <2>0, <3>1, AfterIs, LenProperties
    <3> QED  BY <2>3, <3>2 DEF LineEnds
  <2>5. buf # <<>>
    <3> SUFFICES ASSUME buf = <<>> PROVE FALSE
      OBVIOUS
    <3>1. ~HasHeader(buf) /\ LineEnds(buf) = {}
      BY DEF HasHeader, BlankLines, LineEnds
    <3>2. buf' = buf
      BY <2>2, <3>1 DEF TryParse, ParseLine, Nothing
    <3> QED  BY <2>4, <3>1, <3>2
  <2> HIDE DEF p
  <2>6. LineEnds(p.rest) = {}
    BY <2>0, <2>2, <2>5, LineParsed DEF p
  <2> QED  BY <2>2, <2>4, <2>6
<1> QED  BY <1>1, LineInductive, PTL DEF Spec, SafeSpec, WaitsOnlyBehindNoise
=============================================================================
