----------------------------- MODULE HttpParser -----------------------------
(***************************************************************************)
(* The parsers of namespace HPN that HttpRunSession uses, as operators on  *)
(* sequences of symbols.  A symbol is what the parsers tell apart: a       *)
(* delimiter, a digit, a letter, any other byte; and the words they search *)
(* for, which are one symbol each: "GET" and "HTTP", the keys "cl"         *)
(* (content-length) and "te" (transfer-encoding).  Letter case, which the  *)
(* code folds in place, is left out.                                       *)
(*                                                                         *)
(* Each parser is a loop over a state that looks at one character and      *)
(* either consumes it or changes state and looks again.  A step here is    *)
(* what one character makes of a state, the looks again included.          *)
(***************************************************************************)
EXTENDS Naturals, Sequences, SequencesExt

CONSTANTS
  MaxUint16,   \* the largest value of a uint16 and of a uint32
  MaxUint32

ASSUME UintAssumption == MaxUint16 \in Nat /\ MaxUint32 \in Nat

Eol     == {"CR", "LF"}
Digits  == {"0", "1", "2", "3"}
Letters == {"GET", "HTTP", "x", "a", "cl", "te"}
IsChar(c)  == c \in Letters
IsDigit(c) == c \in Digits
DigitVal   == [c \in Digits \cup {"a"} |->
  CASE c = "0" -> 0 [] c = "1" -> 1 [] c = "2" -> 2 [] c = "3" -> 3 [] c = "a" -> 10]

Number(base, digits) == FoldLeft(LAMBDA n, d : base * n + DigitVal[d], 0, digits)

(* lexical_cast<uint32>, and the 0 that SetTransferType makes of a failure.*)
DecimalOrZero(s) ==
  IF s # <<>> /\ ToSet(s) \subseteq Digits /\ Number(10, s) <= MaxUint32 THEN Number(10, s) ELSE 0

(* The state a loop stops in, and how much it has consumed by then. *)
Loop(Step(_, _), data) ==
  FoldLeft(LAMBDA l, c : IF l.st \in {"stop", "fail"} THEN l
                         ELSE [st |-> Step(l.st, c), len |-> l.len + 1],
           [st |-> "init", len |-> 0], data)

(* The state after the end of a line has been seen: wait for LF. *)
PostLf(c) == IF c = "LF" THEN "stop" ELSE "post_lf"

RequestLineStep(st, c) ==
  CASE st = "init" /\ c = "SP"                  -> "init"
    [] st \in {"init", "method"} /\ c # "SP"    -> IF IsChar(c) THEN "method" ELSE "fail"
    [] st \in {"method", "method_post_space"} /\ c = "SP" -> "method_post_space"
    [] st \in {"method_post_space", "uri"} /\ c # "SP"    -> "uri"
    [] st \in {"uri", "uri_post_space"} /\ c = "SP"       -> "uri_post_space"
    [] (st = "uri_post_space" /\ c # "SP") \/ st = "version" ->
         IF c \in Eol THEN PostLf(c) ELSE "version"
    [] st = "post_lf" -> PostLf(c)

StatusLineStep(st, c) ==
  CASE st = "init" /\ c = "SP"                  -> "init"
    [] st \in {"init", "version"} /\ c # "SP"   -> "version"
    [] st \in {"version", "version_post_space"} /\ c = "SP" -> "version_post_space"
    [] st \in {"version_post_space", "code"} /\ c # "SP"    -> IF IsDigit(c) THEN "code" ELSE "fail"
    [] st \in {"code", "code_post_space"} /\ c = "SP"       -> "code_post_space"
    [] (st = "code_post_space" /\ c # "SP") \/ st = "reason" ->
         IF c \in Eol THEN PostLf(c) ELSE "reason"
    [] st = "post_lf" -> PostLf(c)

ParseHttpRequestLine(data) == Loop(RequestLineStep, data)

(* lexical_cast<uint16> of the digits that were passed as the status code. *)
CodeFits(line) ==
  LET code == {i \in DOMAIN line : Loop(StatusLineStep, SubSeq(line, 1, i)).st = "code"}
  IN Number(10, SubSeq(line, Min(code), Max(code))) <= MaxUint16

(* The code that does not fit fails where it ends.  It has ended in any    *)
(* line that has.                                                          *)
ParseHttpStatusLine(data) ==
  LET l == Loop(StatusLineStep, data)
  IN IF l.st = "stop" /\ ~ CodeFits(SubSeq(data, 1, l.len)) THEN [l EXCEPT !.st = "fail"] ELSE l

(* http_header.insert: the first field of a name is the one that stays.    *)
(* The loops that are to trim trailing spaces start at the delimiter and   *)
(* trim nothing.                                                           *)
Insert(h) ==
  [h EXCEPT !.fields = [k \in {h.key} \cup DOMAIN h.fields |->
                          IF k \in DOMAIN h.fields THEN h.fields[k] ELSE h.val]]

(* INIT stops in front of the empty line. *)
HeaderStep(h, c) ==
  LET took == [h EXCEPT !.len = @ + 1]
      ended(v) == [Insert([v EXCEPT !.len = @ + 1]) EXCEPT !.st = IF c = "LF" THEN "init" ELSE "post_lf"]
  IN
  CASE h.st = "stop"                        -> h
    [] h.st = "init" /\ c \in Eol           -> [h EXCEPT !.st = "stop"]
    [] h.st = "init" /\ c = "SP"            -> took
    [] h.st = "init" /\ c = ":"             -> [took EXCEPT !.st = "colon", !.key = <<>>]
    [] h.st = "init" /\ c \notin Eol \cup {"SP", ":"} -> [took EXCEPT !.st = "key", !.key = <<c>>]
    [] h.st = "key" /\ c = ":"              -> [took EXCEPT !.st = "colon"]
    [] h.st = "key" /\ c # ":"              -> [took EXCEPT !.key = Append(@, c)]
    [] h.st = "colon" /\ c = "SP"           -> took
    [] h.st = "colon" /\ c \in Eol          -> ended([h EXCEPT !.val = <<>>])
    [] h.st = "colon" /\ c \notin Eol \cup {"SP"} -> [took EXCEPT !.st = "value", !.val = <<c>>]
    [] h.st = "value" /\ c \in Eol          -> ended(h)
    [] h.st = "value" /\ c \notin Eol       -> [took EXCEPT !.val = Append(@, c)]
    [] h.st = "post_lf"                     -> [took EXCEPT !.st = IF c = "LF" THEN "init" ELSE @]

(* A header that ends with its last line, without an empty one, has        *)
(* stopped as well.                                                        *)
ParseHttpHeader(data) ==
  LET h == FoldLeft(HeaderStep, [st |-> "init", len |-> 0, key |-> <<>>, val |-> <<>>,
                                 fields |-> [k \in {} |-> <<>>]], data)
  IN IF h.st = "init" /\ h.len > 0 /\ Last(data) = "LF" THEN [h EXCEPT !.st = "stop"] ELSE h

(* Spaces, then everything up to an LF, then the body. *)
BodyStep(st, c) ==
  CASE st = "init" /\ c = "SP" -> "init"
    [] (st = "init" /\ c # "SP") \/ st = "post_lf" -> PostLf(c)

ParseHttpBody(data) == Loop(BodyStep, data)

From(data, n) == SubSeq(data, n + 1, Len(data))

(* ParseHttpRequest and ParseHttpResponse: whether all went well, the      *)
(* fields and the body.                                                    *)
ParseHttpMessage(line, data) ==
  LET rest == From(data, line.len)
      head == ParseHttpHeader(rest)
      tail == From(rest, head.len)
      sep  == ParseHttpBody(tail)
  IN [ok |-> /\ line.st = "stop" /\ rest # <<>>
             /\ head.st = "stop"
             /\ tail # <<>> => sep.st = "stop",
      fields |-> head.fields,
      body |-> From(tail, sep.len)]

ParseHttpRequest(data)  == ParseHttpMessage(ParseHttpRequestLine(data), data)
ParseHttpResponse(data) == ParseHttpMessage(ParseHttpStatusLine(data), data)

-----------------------------------------------------------------------------
EmptyLine == <<"CR", "LF", "CR", "LF">>

(* Both read four bytes, however few there are: "GET" and "SP", and "HTTP" *)
(* which is one symbol, so that it never comes in part (see Packet of      *)
(* HttpMonitor).  A packet that has fewer is told apart by its first byte. *)
IsHttpRequest(data)  == IsPrefix(<<"GET", "SP">>, data)
IsHttpResponse(data) == IsPrefix(<<"HTTP">>, data)

HasCompleteHttpHeader(data) == \E i \in 0 .. Len(data) - 4 : IsPrefix(EmptyLine, From(data, i))

IsCompleteHttpRequest(data) == IsSuffix(EmptyLine, data) \/ IsSuffix(<<"LF", "LF">>, data)

(* GetHttpHeader, whose only effect is the header it records. *)
GetHttpHeader(data) == HasCompleteHttpHeader(data)

=============================================================================
