------------------------------- MODULE TcpFsm -------------------------------
(***************************************************************************)
(* TcpFsm: the state machine TcpConnAnalyzer runs for each end of a        *)
(* connection, on what a packet that passes by means to that end.          *)
(*                                                                         *)
(* An event is who sent the packet, the end itself or the other one, and   *)
(* which of SYN, ACK and FIN it carries: TFE_SEND_FIN_ACK is Send("fin",   *)
(* "ack") with exactly those flags.                                        *)
(***************************************************************************)
EXTENDS Naturals

FsmStates == {"INIT", "SYN_RCV", "SYN_SENT", "ESTABLISHED", "FIN_WAIT_1",
              "FIN_WAIT_2", "TIME_WAIT", "CLOSING", "CLOSE_WAIT", "LAST_ACK",
              "CLOSED"}

Event(side, flags) == [side |-> side, flags |-> flags]

(* event == TFE_..., and event & TFE_... *)
Is(e, side, flags)  == e = Event(side, flags)
Has(e, side, flag)  == e.side = side /\ flag \in e.flags

(* A state function yields "error" where the code returns false. *)

(* The first packet: its sender becomes the client. *)
ProcInitState(role, e) == IF role = "client" THEN "SYN_SENT" ELSE "SYN_RCV"

ProcSynSentState(role, e) ==
  CASE role = "client" /\ Is(e, "recv", {"syn", "ack"}) -> "ESTABLISHED"
    [] role = "client" /\ Is(e, "recv", {"syn"})        -> "SYN_RCV"
    [] role = "client" /\ Is(e, "send", {"ack"})        -> "SYN_SENT"
    [] OTHER                                            -> "error"

ProcSynRcvState(role, e) ==
  CASE Has(e, "send", "fin")                            -> "FIN_WAIT_1"
    [] Is(e, "recv", {"ack"})                           -> "ESTABLISHED"
    [] role = "server" /\ Is(e, "send", {"syn", "ack"}) -> "SYN_RCV"
    [] role = "server" /\ Is(e, "send", {"ack"})        -> "SYN_RCV"
    [] Has(e, "recv", "fin")                            -> "CLOSE_WAIT"
    [] Has(e, "recv", "syn") /\ ~ Has(e, "recv", "fin") -> "SYN_RCV"
    [] OTHER                                            -> "error"

(* Mutant: both kinds of FIN start the active close. *)
ProcEstablishedAnyFin(role, e) ==
  IF "fin" \in e.flags THEN "FIN_WAIT_1" ELSE "ESTABLISHED"

(* Mutant: the passive close forgets that the end still has to send a FIN. *)
ProcEstablishedToLastAck(role, e) ==
  CASE Has(e, "recv", "fin") -> "LAST_ACK"
    [] Has(e, "send", "fin") -> "FIN_WAIT_1"
    [] OTHER                 -> "ESTABLISHED"

ProcEstablishedState(role, e) ==
  CASE Has(e, "recv", "fin") -> "CLOSE_WAIT"
    [] Has(e, "send", "fin") -> "FIN_WAIT_1"
    [] OTHER                 -> "ESTABLISHED"

ProcFinWait1State(role, e) ==
  CASE Is(e, "recv", {"fin"})        -> "CLOSING"
    [] Is(e, "recv", {"fin", "ack"}) -> "TIME_WAIT"
    [] Is(e, "recv", {"ack"})        -> "FIN_WAIT_2"
    [] Is(e, "send", {"ack"})        -> "FIN_WAIT_1"
    [] OTHER                         -> "error"

(* Mutant: nothing is expected from the end itself. *)
ProcFinWait2ReceivesOnly(role, e) ==
  CASE Has(e, "recv", "fin") -> "TIME_WAIT"
    [] Is(e, "recv", {"ack"}) -> "FIN_WAIT_2"
    [] OTHER -> "error"

ProcFinWait2State(role, e) ==
  CASE Has(e, "recv", "fin")                            -> "TIME_WAIT"
    [] Has(e, "recv", "ack") /\ ~ Has(e, "recv", "fin") -> "FIN_WAIT_2"
    [] Has(e, "send", "ack")                            -> "FIN_WAIT_2"
    [] OTHER                                            -> "error"

ProcClosingState(role, e) == IF Is(e, "recv", {"ack"}) THEN "TIME_WAIT" ELSE "error"

ProcCloseWaitState(role, e) ==
  CASE Has(e, "send", "fin")  -> "LAST_ACK"
    [] Is(e, "recv", {"ack"}) -> "CLOSE_WAIT"
    [] Is(e, "send", {"ack"}) -> "CLOSE_WAIT"
    [] OTHER                  -> "error"

(* Mutant: only a server is thought to close passively. *)
ProcLastAckServerOnly(role, e) ==
  IF role = "server" /\ Is(e, "recv", {"ack"}) THEN "CLOSED" ELSE "LAST_ACK"

ProcLastAckState(role, e) == IF Is(e, "recv", {"ack"}) THEN "CLOSED" ELSE "LAST_ACK"

(* state_proc_array_; LISTEN is never entered, and a closed end is not     *)
(* processed (TcpConnAnalyzer::ProcHalfConnFsm).                           *)
ProcessTcpFsm(role, e, state) ==
  CASE state = "INIT"        -> ProcInitState(role, e)
    [] state = "SYN_SENT"    -> ProcSynSentState(role, e)
    [] state = "SYN_RCV"     -> ProcSynRcvState(role, e)
    [] state = "ESTABLISHED" -> ProcEstablishedState(role, e)
    [] state = "FIN_WAIT_1"  -> ProcFinWait1State(role, e)
    [] state = "FIN_WAIT_2"  -> ProcFinWait2State(role, e)
    [] state = "TIME_WAIT"   -> "TIME_WAIT"
    [] state = "CLOSING"     -> ProcClosingState(role, e)
    [] state = "CLOSE_WAIT"  -> ProcCloseWaitState(role, e)
    [] state = "LAST_ACK"    -> ProcLastAckState(role, e)

=============================================================================
