--------------------------- MODULE HttpRecombinder ---------------------------
(***************************************************************************)
(* HttpRecombinder and its three implementations, as operators from        *)
(* recombinder to recombinder.  call is what AppendData made of            *)
(* RecombindCallback: nothing, a failure, or the size of the whole body.   *)
(* HttpRunSession has copy_data_ false: bodies are counted, not kept.      *)
(***************************************************************************)
EXTENDS HttpParser

CONSTANT MaxHexSize     \* kMaxHexSize

ASSUME MaxHexAssumption == MaxHexSize \in Nat \ {0}

NoCall   == [result |-> "none", len |-> 0]
Failed   == [result |-> "false", len |-> 0]
Done(n)  == [result |-> "true", len |-> n]

NewChunk == [st |-> "hex", size |-> 0, hex |-> <<>>, trailer |-> FALSE]

NewRecombinder ==
  [type |-> "unknown", length |-> 0, appended |-> 0, chunk |-> NewChunk, parsed |-> 0, call |-> NoCall]

(* SetTransferType; te before cl.  Init of the content-length recombinder  *)
(* leaves appended_size_, that of the chunked one parse_data_len_.         *)
SetTransferType(r, fields) ==
  CASE <<"te">> \in DOMAIN fields -> [r EXCEPT !.type = "chunked", !.chunk = NewChunk]
    [] <<"te">> \notin DOMAIN fields /\ <<"cl">> \in DOMAIN fields ->
         [r EXCEPT !.type = "length", !.length = DecimalOrZero(fields[<<"cl">>])]
    [] DOMAIN fields \cap {<<"te">>, <<"cl">>} = {} -> [r EXCEPT !.type = "unknown"]

ChunkStates ==
  {"hex", "lf", "data", "postlf", "trailer", "trailer_cr", "postcr", "stop", "done", "fail"}

Recombinder ==
  [type : {"unknown", "length", "chunked"}, length : Nat, appended : Nat, parsed : Nat,
   chunk : [st : ChunkStates, size : Nat, hex : Seq(DOMAIN DigitVal), trailer : BOOLEAN],
   call : [result : {"none", "false", "true"}, len : Nat]]

IsHexDigit(c) == c \in DOMAIN DigitVal

(* One character of ProcChunkFsm; "done" is the return after the last LF,  *)
(* which leaves the state CHUNK_STOP and ignores the rest of the packet.   *)
(* The code also fails a chunk when errno is ERANGE after strtoul: the     *)
(* digits of a size always fit, so that it is only if an earlier call has  *)
(* left it (errno is not cleared), which is left out.                      *)
ChunkLf(k, c) ==
  IF c # "LF" THEN [k EXCEPT !.st = "lf"]
  ELSE [k EXCEPT !.st = IF k.size = 0 THEN "trailer" ELSE "data"]

ChunkData(k) == [k EXCEPT !.size = @ - 1, !.st = IF k.size = 1 THEN "postlf" ELSE "data"]

ChunkPostCr(k, c) ==
  CASE c = "CR"      -> [k EXCEPT !.st = "stop"]
    [] c = "LF"      -> [k EXCEPT !.st = "done"]
    [] c \notin Eol  -> [k EXCEPT !.st = "trailer", !.trailer = TRUE]

(* Mutant: the digits of a size are not limited. *)
ChunkHexLong(k, c) == [k EXCEPT !.hex = Append(@, c)]

ChunkHex(k, c) ==
  IF Len(k.hex) < MaxHexSize THEN [k EXCEPT !.hex = Append(@, c)] ELSE [k EXCEPT !.st = "fail"]

ChunkStep(k, c) ==
  CASE k.st \in {"done", "fail"} -> k
    [] k.st = "hex" /\ IsHexDigit(c) -> ChunkHex(k, c)
    [] k.st = "hex" /\ ~ IsHexDigit(c) ->
         IF k.hex = <<>> THEN [k EXCEPT !.st = "fail"]
         ELSE ChunkLf([k EXCEPT !.size = Number(16, k.hex)], c)
    [] k.st = "lf"   -> ChunkLf(k, c)
    [] k.st = "data" -> ChunkData(k)
    [] k.st = "postlf" /\ c = "LF"     -> NewChunk
    [] k.st = "postlf" /\ c = "CR"     -> k
    [] k.st = "postlf" /\ c \notin Eol -> [k EXCEPT !.st = "fail"]
    [] k.st = "trailer" /\ c \notin Eol -> [k EXCEPT !.trailer = TRUE]
    [] k.st = "trailer" /\ c \in Eol ->
         IF ~ k.trailer THEN ChunkPostCr(k, c)
         ELSE [k EXCEPT !.st = IF c = "LF" THEN "postcr" ELSE "trailer_cr"]
    [] k.st = "trailer_cr" -> [k EXCEPT !.st = IF c = "LF" THEN "postcr" ELSE "fail"]
    [] k.st = "postcr"     -> ChunkPostCr(k, c)
    [] k.st = "stop"       -> [k EXCEPT !.st = IF c = "LF" THEN "done" ELSE "fail"]

(* The state and parse_data_len_ after a packet. *)
ProcChunkFsm(r, data) ==
  FoldLeft(LAMBDA q, c : [q EXCEPT !.chunk = ChunkStep(@, c),
                                   !.parsed = IF q.chunk.st = "data" THEN @ + 1 ELSE @], r, data)

AppendChunked(r, data) ==
  LET q == ProcChunkFsm(r, data) IN
  CASE q.chunk.st = "fail"              -> [q EXCEPT !.call = Failed]
    [] q.chunk.st \in {"stop", "done"}  -> [q EXCEPT !.call = Done(q.parsed), !.parsed = 0]
    [] q.chunk.st \notin {"fail", "stop", "done"} -> q

AppendLength(r, data) ==
  LET q == [r EXCEPT !.appended = @ + Len(data)] IN
  IF r.length = 0 THEN [r EXCEPT !.call = Done(0)]
  ELSE IF q.appended < r.length THEN q ELSE [q EXCEPT !.call = Done(r.length)]

(* With neither field the first piece is taken for the whole. *)
AppendUnknown(r, data) == [r EXCEPT !.call = Done(Len(data))]

AppendData(r, data) ==
  LET q == [r EXCEPT !.call = NoCall] IN
  CASE r.type = "length"  -> AppendLength(q, data)
    [] r.type = "chunked" -> AppendChunked(q, data)
    [] r.type = "unknown" -> AppendUnknown(q, data)

=============================================================================
