---------------------------- MODULE TcpMonitor -----------------------------
(***************************************************************************)
(* TcpMonitor: the table of connections that the processing thread of a    *)
(* receiver and the thread of tcp_timer_ share, the ObjectPool connections *)
(* come from and go back to, and HttpMonitor's table of sessions, which    *)
(* both threads change.  What TcpConnReorder and TcpConnAnalyzer make of a *)
(* packet (TcpConnection.tla) is reduced to what they ask of others.       *)
(*                                                                         *)
(* conn_mutex_ guards the table.  What the processing thread does under it *)
(* is one step; the timer's sweep is many steps and holds it throughout.   *)
(* Of time only ages matter: how long ago a connection's last packet came  *)
(* in, the packet in hand was stamped, the sweep read the clock.           *)
(***************************************************************************)
EXTENDS Naturals, FiniteSets, FreeTimer

CONSTANTS
  ConnId,
  ConnTimeout,   \* global.tcp.connection-timeout
  ExpandSize,    \* EXPAND_SIZE of ObjectPool
  MaxReleased,   \* bound: packets one packet makes TcpConnReorder release
  MaxStall       \* bound: how long a packet or a sweep is in the making

ASSUME MonitorAssumption ==
  /\ ConnTimeout \in Nat /\ MaxStall \in Nat /\ MaxReleased \in Nat
  /\ ExpandSize \in Nat \ {0} /\ ConnId # {}

NoObject == 0

VARIABLES
  table,     \* tcp_conns_: the object of each connection, or NoObject
  last,      \* the age of its last_pkt_in (0 if there is none)
  obj,       \* the objects made so far: [abandoned, state, events]
  pool,      \* obj_list_; which of its objects is taken makes no difference
  sessions,  \* run_sessions_ of HttpMonitor
  pkt,       \* the processing thread
  sweep,     \* the timer's thread in ClearTimeoutConns
  late       \* connections removed while a packet of theirs was processed,
             \* whose payload may have gone up after that

vars == <<table, last, obj, pool, sessions, pkt, sweep, late, timer>>
tableVars == <<table, last>>

Objects == DOMAIN obj

(* state is what the processors of a connection hold: nothing, something,  *)
(* or that the connection is over.  events: what was recorded of its end,  *)
(* and whether the sweep ended it because a packet took that long.         *)
NewObject == [abandoned |-> FALSE, state |-> "fresh", events |-> {}]

Idle == [pc |-> "idle", conn |-> CHOOSE c \in ConnId : TRUE, end |-> FALSE,
         stall |-> 0, obj |-> NoObject, left |-> 0, up |-> FALSE]

Resting == [pc |-> "idle", lag |-> 0, conn |-> CHOOSE c \in ConnId : TRUE, obj |-> NoObject]

Init ==
  /\ TimerInit
  /\ table = [c \in ConnId |-> NoObject]
  /\ last = [c \in ConnId |-> 0]
  /\ obj = <<>> /\ pool = {} /\ sessions = {} /\ late = {}
  /\ pkt = Idle /\ sweep = Resting

-----------------------------------------------------------------------------
(* ObjectPool. *)

InTable == {o \in Objects : \E c \in ConnId : table[c] = o}

(* Expand, when the pool is empty. *)
Expanded ==
  IF pool # {} THEN obj
  ELSE [o \in 1 .. Cardinality(Objects) + ExpandSize |->
          IF o \in Objects THEN obj[o] ELSE NewObject]

(* FreeObject calls it before it takes pool_mutex_. *)
ReinitTcpConnInfo(o) == [obj EXCEPT ![o] = NewObject]

-----------------------------------------------------------------------------
(* The processing thread. *)

Step(from, to) == pkt.pc = from /\ pkt' = [pkt EXCEPT !.pc = to]

(* PktReceiver stamps a packet and hands it on; end: FIN or RST is set. *)
Arrive(c, end) ==
  /\ pkt.pc = "idle"
  /\ pkt' = [Idle EXCEPT !.pc = "find", !.conn = c, !.end = end]
  /\ UNCHANGED <<tableVars, obj, pool, sessions, sweep, late, timer>>

Unlocked == sweep.pc \in {"idle", "lock"}

(* Mutant: last_pkt_in is not refreshed. *)
FindConnStale ==
  /\ pkt.pc = "find" /\ Unlocked
  /\ table[pkt.conn] # NoObject
  /\ pkt' = [pkt EXCEPT !.pc = "check", !.obj = table[pkt.conn], !.end = FALSE]
  /\ UNCHANGED <<tableVars, obj, pool, sessions, sweep, late, timer>>

FindConn ==
  /\ pkt.pc = "find" /\ Unlocked
  /\ table[pkt.conn] # NoObject
  /\ last' = [last EXCEPT ![pkt.conn] = pkt.stall]
  /\ pkt' = [pkt EXCEPT !.pc = "check", !.obj = table[pkt.conn], !.end = FALSE]
  /\ UNCHANGED <<table, obj, pool, sessions, sweep, late, timer>>

(* FIN and RST create no connection. *)
IgnoreEnd ==
  /\ pkt.pc = "find" /\ Unlocked
  /\ table[pkt.conn] = NoObject /\ pkt.end
  /\ pkt' = Idle
  /\ UNCHANGED <<tableVars, obj, pool, sessions, sweep, late, timer>>

(* AllocObject and the insertion. *)
CreateConn ==
  /\ pkt.pc = "find" /\ Unlocked
  /\ table[pkt.conn] = NoObject /\ ~ pkt.end
  /\ \E o \in IF pool = {} THEN DOMAIN Expanded \ Objects ELSE pool :
       /\ pool' = (pool \cup (DOMAIN Expanded \ Objects)) \ {o}
       /\ obj' = Expanded
       /\ table' = [table EXCEPT ![pkt.conn] = o]
       /\ pkt' = [pkt EXCEPT !.pc = "check", !.obj = o]
  /\ last' = [last EXCEPT ![pkt.conn] = pkt.stall]
  /\ late' = late \ {pkt.conn}
  /\ UNCHANGED <<sessions, sweep, timer>>

GetTcpConnInfo == FindConn \/ IgnoreEnd \/ CreateConn

(* An abandoned connection gets no packet.  The flag is read unlocked. *)
CheckAbandoned ==
  /\ pkt.pc = "check"
  /\ \/ /\ obj[pkt.obj].abandoned
        /\ pkt' = [pkt EXCEPT !.pc = "proc"]
        /\ UNCHANGED obj
     \/ /\ ~ obj[pkt.obj].abandoned
        /\ \E n \in 0 .. MaxReleased : pkt' = [pkt EXCEPT !.pc = "proc", !.left = n]
        /\ obj' = [obj EXCEPT ![pkt.obj].state = IF @ = "fresh" THEN "open" ELSE @]
  /\ UNCHANGED <<tableVars, pool, sessions, sweep, late, timer>>

(* PktMsgProc of the analyzer: after the end of the connection it ignores  *)
(* packets; before, the packet leaves the connection as it is, is found to *)
(* have completed the handshake too late, or ends it.  Payload goes up     *)
(* afterwards, whatever has become of the connection.                      *)
Analyze ==
  /\ pkt.pc = "proc" /\ pkt.left > 0
  /\ \/ /\ obj[pkt.obj].state = "ended"
        /\ pkt' = [pkt EXCEPT !.left = @ - 1]
        /\ UNCHANGED obj
     \/ /\ obj[pkt.obj].state = "open"
        /\ \E next \in {"pass", "abandon"}, up \in BOOLEAN :
             pkt' = [pkt EXCEPT !.left = @ - 1, !.pc = next, !.up = up]
        /\ UNCHANGED obj
     \/ /\ obj[pkt.obj].state = "open"
        /\ \E how \in {[event |-> "abort", next |-> "abandon"], [event |-> "close", next |-> "remove"]},
              up \in BOOLEAN :
             /\ obj' = [obj EXCEPT ![pkt.obj].state = "ended", ![pkt.obj].events = @ \cup {how.event}]
             /\ pkt' = [pkt EXCEPT !.left = @ - 1, !.pc = how.next, !.up = up]
  /\ UNCHANGED <<tableVars, pool, sessions, sweep, late, timer>>

(* AbandonTcpConnection looks the connection up by its id. *)
AbandonTcpConnection ==
  /\ Unlocked /\ Step("abandon", "pass")
  /\ obj' = IF table[pkt.conn] = NoObject THEN obj
            ELSE [obj EXCEPT ![table[pkt.conn]].abandoned = TRUE]
  /\ UNCHANGED <<tableVars, pool, sessions, sweep, late, timer>>

(* Mutant: HttpMonitor is not told. *)
RemoveTcpConnectionUntold ==
  /\ Unlocked /\ Step("remove", "pass")
  /\ table' = [table EXCEPT ![pkt.conn] = NoObject]
  /\ last' = [last EXCEPT ![pkt.conn] = 0]
  /\ UNCHANGED <<obj, pool, sessions, sweep, late, timer>>

(* RemoveTcpConnection.  The processing thread still holds the object. *)
RemoveTcpConnection ==
  /\ Unlocked /\ Step("remove", "pass")
  /\ table' = [table EXCEPT ![pkt.conn] = NoObject]
  /\ last' = [last EXCEPT ![pkt.conn] = 0]
  /\ sessions' = IF table[pkt.conn] = NoObject THEN sessions ELSE sessions \ {pkt.conn}
  /\ UNCHANGED <<obj, pool, sweep, late, timer>>

-----------------------------------------------------------------------------
(* HttpMonitor, in the processing thread; run_session_mutex_ is commented  *)
(* out, so its steps interleave with the sweep's.                          *)

PassUp ==
  /\ pkt.pc = "pass"
  /\ pkt' = [pkt EXCEPT !.pc = IF pkt.up THEN "http" ELSE "proc", !.up = FALSE]
  /\ UNCHANGED <<tableVars, obj, pool, sessions, sweep, late, timer>>

(* NewHttpRunSession replaces what there is. *)
HttpRequest ==
  /\ Step("http", "session")
  /\ sessions' = sessions \cup {pkt.conn}
  /\ late' = IF table[pkt.conn] = pkt.obj THEN late ELSE late \cup {pkt.conn}
  /\ UNCHANGED <<tableVars, obj, pool, sweep, timer>>

(* TryProcHttpRunSession. *)
HttpData ==
  /\ pkt.pc = "http"
  /\ pkt' = [pkt EXCEPT !.pc = IF pkt.conn \in sessions THEN "session" ELSE "proc"]
  /\ UNCHANGED <<tableVars, obj, pool, sessions, sweep, late, timer>>

(* ProcessPacket of the session: it goes on, or is completed or failed and *)
(* RemoveRunSession takes it out.                                          *)
HttpSession ==
  /\ Step("session", "proc")
  /\ sessions' \in {sessions, sessions \ {pkt.conn}}
  /\ UNCHANGED <<tableVars, obj, pool, sweep, late, timer>>

-----------------------------------------------------------------------------
(* The reference is dropped; the last one frees the object. *)
DropReference ==
  /\ pkt.pc = "proc" /\ pkt.left = 0
  /\ \/ /\ pkt.obj \in InTable
        /\ pkt' = Idle /\ UNCHANGED obj
     \/ /\ pkt.obj \notin InTable
        /\ obj' = ReinitTcpConnInfo(pkt.obj)
        /\ pkt' = [pkt EXCEPT !.pc = "free"]
  /\ UNCHANGED <<tableVars, pool, sessions, sweep, late, timer>>

FreeObject ==
  /\ pkt.pc = "free"
  /\ pool' = pool \cup {pkt.obj}
  /\ pkt' = Idle
  /\ UNCHANGED <<tableVars, obj, sessions, sweep, late, timer>>

PktThread ==
  \/ GetTcpConnInfo \/ CheckAbandoned \/ Analyze
  \/ AbandonTcpConnection \/ RemoveTcpConnection
  \/ PassUp \/ HttpRequest \/ HttpData \/ HttpSession
  \/ DropReference \/ FreeObject

-----------------------------------------------------------------------------
(* The timer's thread: ClearTimeoutConns, under conn_mutex_ throughout. *)

TimerStart ==
  /\ StartThread \/ StartWait \/ RunReturns
  /\ UNCHANGED <<tableVars, obj, pool, sessions, pkt, sweep, late>>

OnTick ==
  /\ Expire
  /\ sweep' = [Resting EXCEPT !.pc = "lock"]
  /\ UNCHANGED <<tableVars, obj, pool, sessions, pkt, late>>

(* Mutant: the clock is read before the lock is taken. *)
LockTableLast ==
  /\ sweep.pc = "lock"
  /\ sweep' = [sweep EXCEPT !.pc = "loop", !.lag = MaxStall]
  /\ UNCHANGED <<tableVars, obj, pool, sessions, pkt, late, timer>>

(* The lock is taken, then the clock is read. *)
LockTable ==
  /\ sweep.pc = "lock"
  /\ sweep' = [sweep EXCEPT !.pc = "loop"]
  /\ UNCHANGED <<tableVars, obj, pool, sessions, pkt, late, timer>>

Present == {c \in ConnId : table[c] # NoObject}
Oldest  == {c \in Present : \A other \in Present : last[other] <= last[c]}

(* time_now - last_pkt_in, both being ages. *)
TimedOut(c) == last[c] - sweep.lag >= ConnTimeout

(* The loop starts with the oldest and returns at the first still young. *)
RecordConnTimeout ==
  /\ sweep.pc = "loop"
  /\ \E c \in Oldest :
       /\ TimedOut(c)
       /\ obj' = [obj EXCEPT ![table[c]].events = @ \cup {"timeout"} \cup
                    {e \in {"stalled"} : table[c] = pkt.obj /\ pkt.stall >= ConnTimeout}]
       /\ sweep' = [sweep EXCEPT !.pc = "tell", !.conn = c]
  /\ UNCHANGED <<tableVars, pool, sessions, pkt, late, timer>>

SweepDone ==
  /\ sweep.pc = "loop"
  /\ Present = {} \/ \E c \in Oldest : ~ TimedOut(c)
  /\ sweep' = Resting
  /\ Rearm
  /\ UNCHANGED <<tableVars, obj, pool, sessions, pkt, late>>

(* Mutant: HttpMonitor is not told of a timeout. *)
TellNobody ==
  /\ sweep.pc = "tell"
  /\ sweep' = [sweep EXCEPT !.pc = "erase"]
  /\ UNCHANGED <<tableVars, obj, pool, sessions, pkt, late, timer>>

(* MSG_TCP_CONN_CLOSED, in the timer's thread. *)
TellHttp ==
  /\ sweep.pc = "tell"
  /\ sessions' = sessions \ {sweep.conn}
  /\ sweep' = [sweep EXCEPT !.pc = "erase"]
  /\ late' = late \cup {c \in {sweep.conn} : table[c] = pkt.obj}
  /\ UNCHANGED <<tableVars, obj, pool, pkt, timer>>

(* Mutant: the object goes back although the processing thread holds it. *)
EraseHeld ==
  /\ sweep.pc = "erase"
  /\ table' = [table EXCEPT ![sweep.conn] = NoObject]
  /\ last' = [last EXCEPT ![sweep.conn] = 0]
  /\ obj' = ReinitTcpConnInfo(table[sweep.conn])
  /\ sweep' = [sweep EXCEPT !.pc = "free", !.obj = table[sweep.conn]]
  /\ UNCHANGED <<pool, sessions, pkt, late, timer>>

(* Mutant: the entry is read after it has been erased. *)
EraseFirst ==
  /\ sweep.pc = "erase"
  /\ table' = [table EXCEPT ![sweep.conn] = NoObject]
  /\ last' = [last EXCEPT ![sweep.conn] = 0]
  /\ sweep' = [sweep EXCEPT !.pc = "free", !.obj = table'[sweep.conn]]
  /\ UNCHANGED <<obj, pool, sessions, pkt, late, timer>>

(* The entry goes, and the object unless the processing thread holds it. *)
EraseConn ==
  /\ sweep.pc = "erase"
  /\ table' = [table EXCEPT ![sweep.conn] = NoObject]
  /\ last' = [last EXCEPT ![sweep.conn] = 0]
  /\ LET o == table[sweep.conn] IN
       \/ /\ o = pkt.obj
          /\ sweep' = [sweep EXCEPT !.pc = "loop"]
          /\ UNCHANGED obj
       \/ /\ o # pkt.obj
          /\ obj' = ReinitTcpConnInfo(o)
          /\ sweep' = [sweep EXCEPT !.pc = "free", !.obj = o]
  /\ UNCHANGED <<pool, sessions, pkt, late, timer>>

FreeSwept ==
  /\ sweep.pc = "free"
  /\ pool' = pool \cup {sweep.obj}
  /\ sweep' = [sweep EXCEPT !.pc = "loop", !.obj = NoObject]
  /\ UNCHANGED <<tableVars, obj, sessions, pkt, late, timer>>

TimerThread ==
  \/ TimerStart \/ OnTick \/ LockTable
  \/ RecordConnTimeout \/ SweepDone \/ TellHttp \/ EraseConn \/ FreeSwept

-----------------------------------------------------------------------------
Locked == ~ Unlocked

(* Ages above this one are all the same: timed out, whatever the lag. *)
MaxAge == ConnTimeout + MaxStall

TimePasses ==
  /\ pkt.pc # "idle" => pkt.stall < MaxStall
  /\ Locked => sweep.lag < MaxStall
  /\ last' = [c \in ConnId |-> IF table[c] # NoObject /\ last[c] < MaxAge THEN last[c] + 1 ELSE last[c]]
  /\ pkt' = [pkt EXCEPT !.stall = IF pkt.pc = "idle" THEN 0 ELSE @ + 1]
  /\ sweep' = [sweep EXCEPT !.lag = IF Locked THEN @ + 1 ELSE 0]
  /\ IntervalPasses
  /\ UNCHANGED <<table, obj, pool, sessions, late>>

Next ==
  \/ \E c \in ConnId, end \in BOOLEAN : Arrive(c, end)
  \/ PktThread
  \/ TimerThread
  \/ TimePasses

Spec == Init /\ [][Next]_vars

(* Both threads go on and so does time; packets need not come. *)
FairSpec == Spec /\ WF_vars(PktThread) /\ WF_vars(TimerThread) /\ WF_vars(TimePasses)

-----------------------------------------------------------------------------
(* Properties. *)

TypeOK ==
  /\ TimerTypeOK
  /\ table \in [ConnId -> Objects \cup {NoObject}]
  /\ last \in [ConnId -> 0 .. MaxAge]
  /\ obj \in [Objects -> [abandoned : BOOLEAN, state : {"fresh", "open", "ended"},
                          events : SUBSET {"abort", "close", "timeout", "stalled"}]]
  /\ pool \subseteq Objects /\ sessions \subseteq ConnId /\ late \subseteq ConnId
  /\ pkt.obj \in Objects \cup {NoObject} /\ sweep.obj \in Objects \cup {NoObject}
  /\ pkt.stall \in 0 .. MaxStall /\ sweep.lag \in 0 .. MaxStall

(* An object is in one place: in the pool, in the table, or in the hands   *)
(* of a thread.  None is lost, none serves two connections, and none that  *)
(* bears a trace of a connection is in the pool for the next one to get.   *)
OnePlace ==
  /\ Objects = pool \cup InTable \cup ({pkt.obj, sweep.obj} \ {NoObject})
  /\ \A o \in pool : /\ o \notin InTable \cup {pkt.obj, sweep.obj}
                     /\ ~ obj[o].abandoned /\ obj[o].state = "fresh"
  /\ \A c, d \in ConnId : table[c] = table[d] /\ table[c] # NoObject => c = d
  /\ sweep.obj # NoObject => sweep.obj \notin InTable \cup {pkt.obj}

(* TMAS_ASSERT(time_now >= last_pkt_in): the table is locked before the    *)
(* clock is read, so no connection is younger than the sweep's time.       *)
NoTimeReversal == sweep.pc = "loop" => \A c \in Present : last[c] >= sweep.lag

(* HTTP sessions do not outlive their connections, except where payload of *)
(* a packet went up after that packet, or the sweep, had removed them.     *)
SessionHasConn == \A c \in sessions \ late : table[c] # NoObject

(* A connection is recorded as closed or as timed out, never as both: the  *)
(* sweep takes none away whose packet is being processed, unless that goes *)
(* on for the whole of the timeout.                                        *)
OneEnd ==
  \A o \in Objects : {"close", "timeout"} \subseteq obj[o].events => "stalled" \in obj[o].events

(* When the traffic stops, nothing is left of it, abandoned connections    *)
(* and those made by a trailing packet included; provided the timer ticks. *)
Arrival == pkt.pc = "idle" /\ pkt'.pc = "find"

Forgotten ==
  []Ticks /\ <>[][~ Arrival]_vars =>
    <>[](Present = {} /\ sessions \subseteq late /\ pool = Objects)

=============================================================================
