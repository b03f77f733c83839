--------------------------- MODULE HttpRunSession ---------------------------
(***************************************************************************)
(* HttpRunSession: one request and its response, as operators from session *)
(* to session; data is the payload of the packet it is given.  out is what *)
(* HttpMonitor is told: nothing, SessionCompleted or SessionFailed.  The   *)
(* state "assert" stands for a TMAS_ASSERT that does not hold.  left is    *)
(* what request_info.header, which a request is parsed into, has of before.*)
(* Times and the recorded texts are left out.                              *)
(***************************************************************************)
EXTENDS HttpRecombinder

NoFields == [key \in {} |-> <<>>]

NewRunSession ==
  [st |-> "init", request |-> <<>>, response |-> <<>>, left |-> NoFields, recomb |-> NewRecombinder,
   reqSize |-> 0, respSize |-> 0, out |-> "none"]

States == {"init", "recving_request_header", "recving_request_data", "recved_request",
           "recving_response_header", "recving_response_data", "recved_response", "assert"}

(* Those that have no fields left: TLC can tell what is no member of it.   *)
RunSession ==
  [st : States, request : Seq(STRING), response : Seq(STRING), left : {NoFields}, recomb : Recombinder,
   reqSize : Nat, respSize : Nat, out : {"none", "failed", "completed"}]

SessionFailed(s) == [s EXCEPT !.out = "failed"]
AssertFailed(s)  == [s EXCEPT !.st = "assert"]

(* RecvedCompleteRequestData and RecvedCompleteResponseData included. *)
RecombindCallback(s) ==
  LET whole == s.recomb.call.result = "true" IN
  CASE s.recomb.call = NoCall -> s
    [] s.recomb.call = Failed -> SessionFailed(s)
    [] whole /\ s.st = "recving_request_data" ->
         [s EXCEPT !.st = "recved_request", !.reqSize = s.recomb.call.len]
    [] whole /\ s.st = "recving_response_data" ->
         [s EXCEPT !.st = "recved_response", !.respSize = s.recomb.call.len, !.out = "completed"]
    [] whole /\ s.st \notin {"recving_request_data", "recving_response_data"} -> AssertFailed(s)

Append2Recombinder(s, data) == RecombindCallback([s EXCEPT !.recomb = AppendData(@, data)])

(* SetTransferType asserts that there is at most one of the two fields. *)
TakeFields(s, fields, st) ==
  IF {<<"te">>, <<"cl">>} \subseteq DOMAIN fields THEN AssertFailed(s)
  ELSE [s EXCEPT !.st = st, !.recomb = SetTransferType(@, fields)]

(* A parse inserts what it finds into what there is. *)
InsertFields(fields, more) ==
  [k \in DOMAIN fields \cup DOMAIN more |-> IF k \in DOMAIN fields THEN fields[k] ELSE more[k]]

(* When GetHttpHeader fails, the session stays as it is, but for the fields*)
(* that were inserted.                                                     *)
RecvedCompleteHttpRequest(s, data) ==
  CASE ~ ParseHttpRequest(data).ok -> SessionFailed(s)
    [] ParseHttpRequest(data).ok /\ ~ GetHttpHeader(data) ->
         [s EXCEPT !.left = InsertFields(@, ParseHttpRequest(data).fields)]
    [] ParseHttpRequest(data).ok /\ GetHttpHeader(data) ->
         [s EXCEPT !.request = <<>>, !.reqSize = Len(data), !.st = "recved_request"]

(* parsed: what the parser made of the data. *)
RequestParsed(s, parsed) ==
  LET taken == TakeFields([s EXCEPT !.request = <<>>], InsertFields(s.left, parsed.fields),
                          "recving_request_data")
  IN IF ~ parsed.ok THEN SessionFailed(s)
     ELSE IF parsed.body = <<>> \/ taken.st = "assert" THEN taken
     ELSE Append2Recombinder(taken, parsed.body)

RecvedCompleteRequestHeader(s, data) == RequestParsed(s, ParseHttpRequest(data))

(* An empty body is appended too: it may be all there is. *)
ResponseParsed(s, parsed) ==
  LET taken == TakeFields(s, parsed.fields, "recving_response_data")
  IN IF ~ parsed.ok THEN SessionFailed(s)
     ELSE IF taken.st = "assert" THEN taken
     ELSE Append2Recombinder(taken, parsed.body)

RecvedCompleteResponseHeader(s, data) == ResponseParsed(s, ParseHttpResponse(data))

(* data: what there is of the request so far. *)
ReceiveRequest(s, data) ==
  IF IsCompleteHttpRequest(data) THEN RecvedCompleteHttpRequest(s, data)
  ELSE IF HasCompleteHttpHeader(data) THEN RecvedCompleteRequestHeader(s, data)
  ELSE [s EXCEPT !.st = "recving_request_header", !.request = data]

ReceiveResponse(s, data) ==
  IF HasCompleteHttpHeader(data) THEN RecvedCompleteResponseHeader(s, data)
  ELSE [s EXCEPT !.st = "recving_response_header", !.response = data]

SessionInitProc(s, data) == ReceiveRequest(s, data)

RecvingRequestHeaderProc(s, data) ==
  LET q == [s EXCEPT !.request = @ \o data] IN
  IF s.request = <<>> THEN AssertFailed(s) ELSE ReceiveRequest(q, q.request)

RecvingRequestDataProc(s, data) == Append2Recombinder(s, data)

(* Mutant: what was gathered of the header so far is forgotten. *)
RecvingResponseHeaderProcLast(s, data) == ReceiveResponse(s, data)

RecvingResponseHeaderProc(s, data) ==
  LET q == [s EXCEPT !.response = @ \o data] IN
  IF s.response = <<>> THEN AssertFailed(s) ELSE ReceiveResponse(q, q.response)

RecvedRequestProc(s, data) ==
  IF IsHttpResponse(data) THEN ReceiveResponse(s, data) ELSE SessionFailed(s)

RecvingResponseDataProc(s, data) == Append2Recombinder(s, data)

RecvedResponseProc(s, data) == AssertFailed(s)

ProcessPacket(s, data) ==
  CASE s.st = "init"                    -> SessionInitProc(s, data)
    [] s.st = "recving_request_header"  -> RecvingRequestHeaderProc(s, data)
    [] s.st = "recving_request_data"    -> RecvingRequestDataProc(s, data)
    [] s.st = "recved_request"          -> RecvedRequestProc(s, data)
    [] s.st = "recving_response_header" -> RecvingResponseHeaderProc(s, data)
    [] s.st = "recving_response_data"   -> RecvingResponseDataProc(s, data)
    [] s.st = "recved_response"         -> RecvedResponseProc(s, data)

=============================================================================
