--------------------------- MODULE TcpConnection ---------------------------
(***************************************************************************)
(* A connection object of TcpMonitor: TcpConnReorder and, behind it,       *)
(* TcpConnAnalyzer.  What one packet makes the former release is analyzed  *)
(* by the latter in the same call.                                         *)
(***************************************************************************)
EXTENDS TcpConnReorder, TcpConnAnalyzer

CONSTANT MaxClock           \* bound: how far the time goes during a connection

ASSUME ConnectionAssumption == MaxClock \in Nat /\ HandshakeTimeout \in Nat

VARIABLES
  analyzer,   \* the TcpConnAnalyzer
  clock       \* GetMicroSecond, since the connection was created

connVars == <<packets, arrived, conn, analyzer, clock>>

ConnInit == Init /\ analyzer = NewAnalyzer /\ clock = 0

(* What PktMsgProc passed on to the analyzer. *)
Released == SubSeq(conn'.log, Len(conn.log) + 1, Len(conn'.log))

(* ProcessTcpPkt: an abandoned connection gets no packet, a removed one is *)
(* not found.  Cached packets are stamped anew when they are released.     *)
ProcessTcpPkt(i) ==
  /\ ~ analyzer.abandoned /\ ~ analyzer.removed
  /\ PktMsgProc(i)
  /\ clock' \in clock .. MaxClock
  /\ analyzer' = FoldLeft(LAMBDA a, p : AnalyzePkt(a, p, clock'), analyzer, Released)

(* MSG_REINITIALIZE reaches both.  Time is counted from here again. *)
Reuse ==
  /\ Reinitialize
  /\ analyzer' = ReInitialized(analyzer)
  /\ clock' = 0

ConnNext ==
  \/ \E i \in DOMAIN packets : ProcessTcpPkt(i)
  \/ Reuse

ConnSpec == ConnInit /\ [][ConnNext]_connVars

-----------------------------------------------------------------------------
(* Where an end's FIN comes in a conversation: not with the SYN that opens,*)
(* and with nothing to follow that takes a number.                         *)

FinApart(conv) == \A j \in DOMAIN conv : IsFirst(conv[j]) => "fin" \notin conv[j].flags

FinLast(conv) ==
  \A j \in DOMAIN conv : \A i \in 1 .. j - 1 :
    conv[i].dir = conv[j].dir /\ "fin" \in conv[i].flags => Space(conv[j]) = 0

(* Nobody but who opens sends a packet that acknowledges nothing, and no   *)
(* SYN is a FIN as well.                                                   *)
Flagged(conv) ==
  \A j \in DOMAIN conv :
    /\ ~ IsFirst(conv[j])      => "ack" \in conv[j].flags /\ conv[j].ack > 0
    /\ "syn" \in conv[j].flags => "fin" \notin conv[j].flags

NoReset(conv) == \A j \in DOMAIN conv : "rst" \notin conv[j].flags

(* The last that an end says, and takes no number; and what looks the same *)
(* to TcpConnReorder, which does not tell a RST from an acknowledgement.   *)
LastWord(conv, p) ==
  /\ Space(p) = 0
  /\ \A q \in Range(conv) : q.dir = p.dir /\ Space(q) > 0 => End(q) <= p.seq

Alike(p, q) ==
  q.dir = p.dir /\ Space(p) = 0 /\ Space(q) = 0 /\ q.seq = p.seq /\ q.ack = p.ack

(* A conversation comes to an end: the FINs of both ends are acknowledged, *)
(* by the other FIN or by the last word of who sent that, or one of them   *)
(* resets the connection.                                                  *)
Closes(conv) ==
  \A d \in Directions : \E p, q \in Range(conv) :
    /\ p.dir = d /\ "fin" \in p.flags /\ Acknowledges(q, p)
    /\ "fin" \in q.flags \/ LastWord(conv, q)

Resets(conv) ==
  \E p \in Range(conv) :
    LastWord(conv, p) /\ \A q \in Range(conv) : Alike(p, q) => "rst" \in q.flags

Finishes(conv) == Closes(conv) \/ Resets(conv)

-----------------------------------------------------------------------------
(* Properties. *)

ConnTypeOK ==
  /\ TypeOK
  /\ \A d \in Directions :
       /\ analyzer.role[d] \in {"unknown", "client", "server"}
       /\ analyzer.fsm[d] \in FsmStates
  /\ analyzer.total <= Len(conn.log)
  /\ analyzer.state \subseteq {"established", "closed", "failed"}
  /\ clock \in 0 .. MaxClock

Sent(flag, d) == \E p \in Range(conn.log) : p.dir = d /\ flag \in p.flags

Events == [i \in DOMAIN analyzer.records |-> analyzer.records[i].event]

(* Two ends that follow the protocol are never said to have aborted,       *)
(* however their packets were captured: unless one reset the connection or *)
(* packets were given up, no TCE_CONN_ABORT.                               *)
NotAborted ==
  ~ conn.refactored /\ NoReset(packets) =>
    "TCE_CONN_ABORT" \notin Range(Events)

(* A recorded close is one: both ends have sent their FIN, and every byte  *)
(* of the conversation has gone up to the HTTP layer.                      *)
CloseComplete ==
  ~ conn.refactored /\ "TCE_CONN_CLOSE" \in Range(Events) =>
    /\ \A d \in Directions : Sent("fin", d)
    /\ \A i \in DOMAIN packets : packets[i].len > 0 => packets[i] \in Range(analyzer.up)

(* A conversation captured whole, in whatever order, does not linger until *)
(* the timeout: its end, close or reset, is recorded.                      *)
EndRecorded ==
  /\ ~ conn.refactored /\ ~ conn.abandoned
  /\ "TCE_HS_TIMEOUT" \notin Range(Events)
  /\ \A i \in DOMAIN packets : arrived[i] > 0
  => Range(Events) \cap {"TCE_CONN_CLOSE", "TCE_CONN_ABORT"} # {}

(* A connection ends once: what follows a close or an abort, in the same   *)
(* drain of the lists or later, changes nothing in its records.            *)
RecordedOnce ==
  Cardinality({i \in DOMAIN Events : Events[i] \in {"TCE_CONN_CLOSE", "TCE_CONN_ABORT"}}) <= 1

(* While it lasts, the state of an end tells which FINs were seen: its own,*)
(* its peer's, both or none.                                               *)
FsmAgrees ==
  \A d \in Directions :
    LET own  == Sent("fin", d)
        peer == Sent("fin", Other(d))
    IN /\ analyzer.fsm[d] \in {"FIN_WAIT_1", "FIN_WAIT_2"} => own /\ ~ peer
       /\ analyzer.fsm[d] = "CLOSE_WAIT" => peer /\ ~ own
       /\ analyzer.fsm[d] \in {"CLOSING", "TIME_WAIT", "LAST_ACK"} => own /\ peer
       /\ analyzer.fsm[d] \in {"SYN_SENT", "SYN_RCV", "ESTABLISHED"} => ~ own /\ ~ peer

(* RecordConnClosed is commented as recording the handshake delay of the   *)
(* connection that closes: none, if its handshake was not measured.        *)
DelayIsOwn ==
  \A i \in DOMAIN Events :
    Events[i] = "TCE_CONN_CLOSE" /\ ~ analyzer.measured => analyzer.records[i].delay = 0

=============================================================================
