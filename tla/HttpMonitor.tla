----------------------------- MODULE HttpMonitor -----------------------------
(***************************************************************************)
(* HttpMonitor for one connection: the payload of its packets, in the      *)
(* order TcpMonitor passes them up, makes, feeds and ends run sessions.    *)
(* (TcpMonitor.tla has the table of sessions, shared with the timer.)      *)
(*                                                                         *)
(* The two ends are the environment: exchange after exchange, a request    *)
(* and its response, cut into packets anywhere.  An exchange may break off *)
(* anywhere, and a packet may come twice: TcpConnReorder passes on what    *)
(* was transmitted again.                                                  *)
(***************************************************************************)
EXTENDS HttpRunSession

CONSTANTS
  Exchanges,   \* see Exchange
  NoSession,
  NoRecord

(* A request and a response; head: how long their headers are, bodies not  *)
(* counted.  good: they are as the code expects messages to be, and then   *)
(* the request's size, unless it has a body, and the size of the response. *)
Exchange ==
  [request : Seq(STRING), response : Seq(STRING), head : Nat, chunked : [{"request", "response"} -> BOOLEAN],
   good : BOOLEAN, size : Nat]

ASSUME HttpAssumption == Exchanges \subseteq Exchange

ASSUME NoneAssumption == NoSession \notin RunSession /\ NoRecord \notin [req : Nat, resp : Nat]

VARIABLES
  session,   \* run_sessions_, at the connection
  record,    \* what the observers were told last in this exchange: sizes
  wire       \* the exchange, its side, how much was sent of that side, where
             \* the last packet began (while that matters), and whether it was
             \* sent badly: with a packet twice, or see Torn

vars == <<session, record, wire>>

Fresh(ex) == [ex |-> ex, side |-> "request", sent |-> 0, last |-> 0, torn |-> FALSE]

Init ==
  /\ session = NoSession /\ record = NoRecord
  /\ \E ex \in Exchanges : wire = Fresh(ex)

-----------------------------------------------------------------------------
(* Mutant: a completed session is not removed. *)
ToldCompleted(s) ==
  /\ session' = IF s.out = "failed" THEN NoSession ELSE [s EXCEPT !.out = "none"]
  /\ record' = IF s.out = "completed" THEN [req |-> s.reqSize, resp |-> s.respSize] ELSE record

(* What the session has told the monitor: SessionCompleted tells the       *)
(* observers; RemoveRunSession in either case.                             *)
Told(s) ==
  /\ session' = IF s.out = "none" THEN s ELSE NoSession
  /\ record' = IF s.out = "completed" THEN [req |-> s.reqSize, resp |-> s.respSize] ELSE record

(* Mutant: an unfinished session is kept for the request. *)
ProcessHttpRequestKept(data) ==
  /\ IsHttpRequest(data)
  /\ Told(ProcessPacket(IF session = NoSession THEN NewRunSession ELSE session, data))

(* NewHttpRunSession erases what there is. *)
ProcessHttpRequest(data) ==
  /\ IsHttpRequest(data)
  /\ Told(ProcessPacket(NewRunSession, data))

TryProcHttpRunSession(data) ==
  /\ ~ IsHttpRequest(data) /\ session # NoSession
  /\ Told(ProcessPacket(session, data))

(* PI_NOT_PROCESSED: left to other processors. *)
NotHttp(data) ==
  /\ ~ IsHttpRequest(data) /\ session = NoSession
  /\ UNCHANGED <<session, record>>

PktMsgProc(data) == ProcessHttpRequest(data) \/ TryProcHttpRunSession(data) \/ NotHttp(data)

-----------------------------------------------------------------------------
(* The environment. *)

Message == wire.ex[wire.side]
Whole   == wire.side = "response" /\ wire.sent = Len(Message)

(* Cuts that the code is not made for: the last CR and LF of a chunked     *)
(* message apart, a request's header apart from its body, "GET" where the  *)
(* data of a packet begins.  There is one more that Packet excludes: within*)
(* the first four bytes of a message.                                      *)
Torn(from, to) ==
  \/ wire.ex.chunked[wire.side] /\ to = Len(Message) - 1
  \/ wire.side = "request" /\ to = wire.ex.head /\ to < Len(Message)
  \/ (wire.side = "response" \/ from > 0) /\ IsHttpRequest(SubSeq(Message, from + 1, to))

(* Bound: the first four bytes of a message come together, as "GET" and    *)
(* "SP" or as "HTTP".                                                      *)
Packet(n) ==
  LET to == wire.sent + n IN
  /\ to <= Len(Message)
  /\ wire.side = "request" /\ wire.sent = 0 => n >= 2
  /\ wire' = [wire EXCEPT !.sent = to, !.torn = @ \/ Torn(wire.sent, to),
                           !.last = IF wire.torn \/ Torn(wire.sent, to) THEN to ELSE wire.sent]
  /\ PktMsgProc(SubSeq(Message, wire.sent + 1, to))

Respond ==
  /\ wire.side = "request" /\ wire.sent = Len(Message)
  /\ wire' = [wire EXCEPT !.side = "response", !.sent = 0, !.last = 0]
  /\ UNCHANGED <<session, record>>

(* Bound: not after another fault in the same exchange. *)
Repeat ==
  /\ wire.sent > wire.last /\ ~ wire.torn
  /\ wire' = [wire EXCEPT !.torn = TRUE, !.last = wire.sent]
  /\ PktMsgProc(SubSeq(Message, wire.last + 1, wire.sent))

(* The next exchange begins, whether this one has ended or not.  Bound: an *)
(* exchange that was sent badly goes on to its end.                        *)
Begin(ex) ==
  /\ wire.torn => Whole
  /\ wire' = Fresh(ex)
  /\ record' = NoRecord
  /\ UNCHANGED session

(* MSG_TCP_CONN_CLOSED; what comes next is another connection. *)
ConnClosedProc(ex) ==
  /\ session' = NoSession
  /\ record' = NoRecord
  /\ wire' = Fresh(ex)

(* AssertFail of TMAS_ASSERT ends the process. *)
Halted == session # NoSession /\ session.st = "assert"

Next ==
  /\ ~ Halted
  /\ \/ \E n \in 1 .. Len(Message) : Packet(n)
     \/ Respond
     \/ Repeat
     \/ \E ex \in Exchanges : Begin(ex) \/ ConnClosedProc(ex)

Spec == Init /\ [][Next]_vars

-----------------------------------------------------------------------------
(* Properties. *)

(* What peers may keep to: a request begins as IsHttpRequest expects it to,*)
(* and an exchange has one of the two transfer fields at most, which       *)
(* SetTransferType asserts of each message.                                *)
Words(ex) == ToSet(ex.request) \cup ToSet(ex.response)

BeginsWell(ex) == IsHttpRequest(ex.request)
OneField(ex)   == ~ {"te", "cl"} \subseteq Words(ex)

(* The header of a message ends after h symbols, and the parsers take all  *)
(* of it and find nothing else; line is what they make of its first line.  *)
HeadEnds(message, h) ==
  /\ h \in 1 .. Len(message)
  /\ HasCompleteHttpHeader(SubSeq(message, 1, h))
  /\ \A n \in 1 .. h - 1 : ~ HasCompleteHttpHeader(SubSeq(message, 1, n))

IsHead(line, data) ==
  LET rest == From(data, line.len)
      head == ParseHttpHeader(rest)
      tail == From(rest, head.len)
      sep  == ParseHttpBody(tail)
  IN /\ line.st = "stop" /\ rest # <<>> /\ head.st = "stop"
     /\ tail # <<>> /\ sep.st = "stop" /\ sep.len = Len(tail)

(* A body ends where the recombinder that its fields ask for says so if it *)
(* is given the body at once, and is not whole before, but for the LF that *)
(* a chunked one ends with.                                                *)
Ready(fields) == SetTransferType(NewRecombinder, fields)

BodyEnds(fields, body, chunked) ==
  /\ ~ {<<"te">>, <<"cl">>} \subseteq DOMAIN fields
  /\ AppendData(Ready(fields), body).call.result = "true"
  /\ \A n \in 0 .. Len(body) - 1 :
       AppendData(Ready(fields), SubSeq(body, 1, n)).call = NoCall \/ (chunked /\ n = Len(body) - 1)

RequestEnds(ex) ==
  LET head == SubSeq(ex.request, 1, ex.head) IN
  /\ BeginsWell(ex)
  /\ HeadEnds(ex.request, ex.head) /\ IsHead(ParseHttpRequestLine(head), head)
  /\ \A n \in 1 .. Len(ex.request) - 1 :
       n # ex.head => ~ IsCompleteHttpRequest(SubSeq(ex.request, 1, n))
  /\ IF ex.head = Len(ex.request) THEN IsCompleteHttpRequest(ex.request)
     ELSE BodyEnds(ParseHttpRequest(head).fields, From(ex.request, ex.head), ex.chunked["request"])

(* h: where the header of the response ends.  Only one of the two bodies   *)
(* has a content-length: appended_size_ is not reset in between.           *)
ResponseEndsAt(ex, h) ==
  LET head   == SubSeq(ex.response, 1, h)
      fields == ParseHttpResponse(head).fields
      body   == From(ex.response, h)
  IN /\ IsHttpResponse(ex.response)
     /\ HeadEnds(ex.response, h) /\ IsHead(ParseHttpStatusLine(head), head)
     /\ BodyEnds(fields, body, ex.chunked["response"])
     /\ AppendData(Ready(fields), body).call.len = ex.size
     /\ Ready(fields).type = "length" /\ ex.head < Len(ex.request) =>
          Ready(ParseHttpRequest(SubSeq(ex.request, 1, ex.head)).fields).type # "length"

(* An exchange in which either message ends where it should. *)
Ends(ex) == RequestEnds(ex) /\ \E h \in 1 .. Len(ex.response) : ResponseEndsAt(ex, h)

TypeOK ==
  /\ session = NoSession \/
       /\ session.st \in States /\ session.out = "none"
       /\ session.recomb.type \in {"unknown", "length", "chunked"}
       /\ session.recomb.chunk.size \in Nat /\ Len(session.recomb.chunk.hex) <= MaxHexSize
       /\ session.reqSize \in Nat /\ session.respSize = 0
  /\ record = NoRecord \/ record \in [req : Nat, resp : Nat]
  /\ wire.ex \in Exchanges /\ wire.side \in {"request", "response"}
  /\ 0 <= wire.last /\ wire.last <= wire.sent /\ wire.sent <= Len(Message)

Promised == wire.ex.good /\ ~ wire.torn

(* No TMAS_ASSERT of HttpRunSession fails, and a session whose response is *)
(* complete has left the table, on one of two conditions: the exchange has *)
(* one of the two transfer fields at most, in both messages, and then it   *)
(* may be cut, repeated and broken off anyhow; or its messages are as the  *)
(* code expects them and were not sent badly.  Without a condition it is   *)
(* not so: a message with both fields fails the assertion of               *)
(* SetTransferType, and so may two parses of a request with one each.      *)
AssertsHold ==
  (BeginsWell(wire.ex) /\ OneField(wire.ex)) \/ Promised =>
    (session # NoSession => session.st \notin {"assert", "recved_response"})

(* However an exchange is cut, and whatever was left of the one before, it *)
(* is recorded with its sizes when its last packet has come.               *)
Recorded ==
  Promised /\ Whole =>
    /\ session = NoSession /\ record # NoRecord
    /\ record.resp = wire.ex.size
    /\ wire.ex.head = Len(wire.ex.request) => record.req = wire.ex.head

(* And not before: until then there is a session of it. *)
NotEarly ==
  Promised /\ ~ Whole =>
    /\ record = NoRecord
    /\ wire.sent > 0 \/ wire.side = "response" => session # NoSession

=============================================================================
