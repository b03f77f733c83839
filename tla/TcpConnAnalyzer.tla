-------------------------- MODULE TcpConnAnalyzer --------------------------
(***************************************************************************)
(* TcpConnAnalyzer follows one connection, packet by packet in the order   *)
(* TcpConnReorder establishes: the state of both ends, the delay of the    *)
(* handshake, and what the connection came to, which it records and tells  *)
(* TcpMonitor.  Payload goes up to HttpMonitor.                            *)
(***************************************************************************)
EXTENDS TcpFsm, Sequences

CONSTANT HandshakeTimeout    \* global.tcp.handshake-timeout

(* What the analyzer of one connection object holds:                       *)
(*   role, fsm    per direction, the end that sends in it                  *)
(*   state        conn_state: "established", "closed", "failed"            *)
(*   total        total_pkt_num                                            *)
(*   first_time   first_pkt_time_                                          *)
(*   measured     record_handshake_timeout_                                *)
(*   delay        handshake_delay_                                         *)
(* and what it has caused:                                                 *)
(*   records      the events it recorded, with the delay it gave           *)
(*   up           the packets whose payload went up                        *)
(*   abandoned, removed   what it asked TcpMonitor to do                   *)
NewAnalyzer ==
  [role |-> [d \in {"S2B", "B2S"} |-> "unknown"],
   fsm |-> [d \in {"S2B", "B2S"} |-> "INIT"],
   state |-> {}, total |-> 0, first_time |-> 0, measured |-> FALSE, delay |-> 0,
   records |-> <<>>, up |-> <<>>, abandoned |-> FALSE, removed |-> FALSE]

(* ReInitialize: fsm_info_ and conn_stat_ are zeroed, first_pkt_time_ and  *)
(* handshake_delay_ keep what they had.                                    *)
ReInitialized(a) == [NewAnalyzer EXCEPT !.first_time = a.first_time, !.delay = a.delay]

Opposite(d) == IF d = "S2B" THEN "B2S" ELSE "S2B"

Closed(a) == [a EXCEPT !.fsm = [d \in {"S2B", "B2S"} |-> "CLOSED"]]

Record(a, event) == Append(a.records, [event |-> event, delay |-> a.delay])

ConnectionFailed(a) ==
  [Closed(a) EXCEPT !.state = @ \cup {"failed"}, !.abandoned = TRUE,
                    !.records = Record(a, "TCE_CONN_ABORT")]

ConnectionClosed(a) ==
  [Closed(a) EXCEPT !.state = @ \cup {"closed"}, !.removed = TRUE,
                    !.records = Record(a, "TCE_CONN_CLOSE")]

(* The first packet's sender is the client. *)
ProcessConnStat(a, p, now) ==
  IF a.total > 0 THEN [a EXCEPT !.total = @ + 1]
  ELSE [a EXCEPT !.total = 1, !.first_time = now,
                 !.role = [d \in {"S2B", "B2S"} |-> IF d = p.dir THEN "client" ELSE "server"]]

(* Mutant: an error of the state machine is stored as a state. *)
ProcHalfConnFsmUnchecked(a, d, e) ==
  IF a.fsm[d] = "CLOSED" THEN a
  ELSE [a EXCEPT !.fsm[d] = ProcessTcpFsm(a.role[d], e, a.fsm[d])]

ProcHalfConnFsm(a, d, e) ==
  LET next == ProcessTcpFsm(a.role[d], e, a.fsm[d]) IN
  CASE a.fsm[d] = "CLOSED"                       -> a
    [] a.fsm[d] # "CLOSED" /\ next = "error"     -> ConnectionFailed(a)
    [] a.fsm[d] # "CLOSED" /\ next = "CLOSED"    -> ConnectionClosed([a EXCEPT !.fsm[d] = next])
    [] OTHER                                     -> [a EXCEPT !.fsm[d] = next]

(* RST ends the connection; else the sender's end and then the receiver's. *)
ProcessFsm(a, p) ==
  LET flags == p.flags \cap {"syn", "ack", "fin"} IN
  IF "rst" \in p.flags THEN ConnectionFailed(a)
  ELSE ProcHalfConnFsm(ProcHalfConnFsm(a, p.dir, Event("send", flags)),
                       Opposite(p.dir), Event("recv", flags))

(* CheckHandshakeTimeOut: measured once, when both ends are established. *)
CheckHandshake(a, now) ==
  IF a.measured \/ \E d \in {"S2B", "B2S"} : a.fsm[d] # "ESTABLISHED" THEN a
  ELSE LET delay == IF now >= a.first_time THEN now - a.first_time ELSE a.first_time - now
           slow  == delay > HandshakeTimeout
       IN [a EXCEPT !.delay = delay, !.measured = TRUE, !.state = @ \cup {"established"},
                    !.abandoned = @ \/ slow,
                    !.records = IF slow THEN Append(@, [event |-> "TCE_HS_TIMEOUT", delay |-> 0])
                                        ELSE @]

(* Mutant: a connection that has ended is still processed. *)
PktMsgProcEnded(a, p, now) ==
  LET done == CheckHandshake(ProcessFsm(ProcessConnStat(a, p, now), p), now)
  IN [done EXCEPT !.up = IF p.len > 0 THEN Append(@, p) ELSE @]

(* PktMsgProc of the analyzer, on a packet with arrive = now. *)
AnalyzePkt(a, p, now) ==
  IF a.state \cap {"failed", "closed"} # {} THEN a
  ELSE LET done == CheckHandshake(ProcessFsm(ProcessConnStat(a, p, now), p), now)
       IN [done EXCEPT !.up = IF p.len > 0 THEN Append(@, p) ELSE @]

=============================================================================
