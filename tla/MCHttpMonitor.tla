---- MODULE MCHttpMonitor ----
EXTENDS HttpMonitor

crlf == <<"CR", "LF">>
Field(key, val) == <<key, ":">> \o val \o crlf
Host == Field("x", <<"SP", "x">>)
Length(n) == Field("cl", <<"SP", n>>)
Chunked == Field("te", <<"x">>)
Chunk(size, data) == size \o crlf \o data \o crlf

Request(fields)  == <<"GET", "SP", "/", "SP", "x">> \o crlf \o fields \o crlf
Response(fields) == <<"HTTP", "/", "SP", "2", "SP", "x">> \o crlf \o fields \o crlf

Ex(good, req, reqBody, resp, respBody, size, cr, cs) ==
  [good |-> good, request |-> req \o reqBody, response |-> resp \o respBody, head |-> Len(req),
   chunked |-> [request |-> cr, response |-> cs], size |-> size]

Get == Request(Host)
Two == Chunk(<<"2">>, <<"x", "LF">>) \o Chunk(<<"1">>, <<"a">>) \o <<"0">> \o crlf

MCExchanges ==
  { \* no body, with and without a length; a body of three
    Ex(TRUE, Get, <<>>, Response(Host), <<>>, 0, FALSE, FALSE),
    Ex(TRUE, Get, <<>>, Response(Length("0")), <<>>, 0, FALSE, FALSE),
    Ex(TRUE, Get, <<>>, Response(Length("3")), <<"GET", "SP", "x">>, 3, FALSE, FALSE),
    \* chunks; an extension and a trailer
    Ex(TRUE, Get, <<>>, Response(Chunked), Two \o crlf, 3, FALSE, TRUE),
    Ex(TRUE, Get, <<>>, Response(Chunked),
       <<"1", ";">> \o crlf \o <<"x">> \o crlf \o <<"0">> \o crlf \o Host \o crlf, 1, FALSE, TRUE),
    \* a request with a body
    Ex(TRUE, Request(Length("2")), <<"x", "x">>, Response(Chunked), Two \o crlf, 3, FALSE, TRUE),
    Ex(TRUE, Request(Chunked), <<"1">> \o crlf \o <<"x">> \o crlf \o <<"0">> \o crlf \o crlf,
       Response(Length("2")), <<"x", "x">>, 2, TRUE, FALSE),
    \* not as the code expects: two lengths, an unknown length, bare LFs, a
    \* space after the length, junk in the lines and for chunks, pipelining
    Ex(FALSE, Request(Length("2")), <<"x", "x">>, Response(Length("3")), <<"x", "x", "x">>, 3, FALSE, FALSE),
    Ex(FALSE, Get, <<>>, Response(Host), <<"x", "x">>, 2, FALSE, FALSE),
    Ex(FALSE, <<"GET", "SP", "/", "SP", "x", "LF", "LF">>, <<>>, Response(Length("1")), <<"x">>, 1, FALSE, FALSE),
    Ex(FALSE, Get, <<>>, Response(Field("cl", <<"2", "SP">>)), <<"x", "x">>, 2, FALSE, FALSE),
    Ex(FALSE, Request(<<"x">> \o crlf), <<>>, Response(<<"x">>), <<>>, 0, FALSE, FALSE),
    Ex(FALSE, Get, <<>>, <<"HTTP", "/", "SP", "x", "SP", "x">> \o crlf \o crlf, <<>>, 0, FALSE, FALSE),
    Ex(FALSE, Get, <<>>, Response(Chunked), <<"1", "0", "2">> \o crlf, 0, FALSE, TRUE),
    Ex(FALSE, Get, <<>>, Response(Chunked), <<"1">> \o crlf \o <<"x", "x">>, 0, FALSE, TRUE),
    Ex(FALSE, Get, Get, Response(Length("1")), <<"x">> \o Response(Length("0")), 0, FALSE, FALSE),
    \* numbers too large: of a length, and of the code
    Ex(FALSE, Get, <<>>, Response(<<"cl", ":", "3", "3">> \o crlf), <<"x", "x">>, 2, FALSE, FALSE),
    Ex(FALSE, Get, <<>>, <<"HTTP", "/", "SP", "3", "3", "SP", "x">> \o crlf \o crlf, <<>>, 0, FALSE, FALSE),
    \* both transfer fields, and one each in two parses of a request
    Ex(FALSE, Get, <<>>, Response(Length("3") \o Chunked), <<"x", "x", "x">>, 3, FALSE, FALSE),
    Ex(FALSE, <<"GET", "SP", "/", "SP", "x", "LF", "te", ":", "x", "LF", "LF">>,
       <<"x", "SP", "/", "SP", "x">> \o crlf \o Length("2") \o crlf \o <<"x", "x">>,
       Response(Host), <<>>, 0, FALSE, FALSE) }

(* What the theorems about HttpMonitor assume of exchanges is so of these. *)
ASSUME ExchangesAre == \A ex \in MCExchanges : ex.good => Ends(ex)
====
