-------------------------- MODULE TcpMonitorProofs --------------------------
(***************************************************************************)
(* Proofs about TcpMonitor, for any number of connections, any timeout and *)
(* any number of objects the pool has made.                                *)
(*                                                                         *)
(* The safety invariants are not inductive: none says what a thread knows  *)
(* of the object it holds while the other one works.  Four layers add it,  *)
(* each resting on those before: what the threads hold (Holds), where an   *)
(* object is (Places), how old its connection is (Ages), and what has been *)
(* told of its end (Ends).                                                 *)
(***************************************************************************)
EXTENDS TcpMonitor, FiniteSetTheorems, TLAPS

PktSteps == {"idle", "find", "check", "proc", "abandon", "remove", "pass", "http", "session", "free"}
SweepSteps == {"idle", "lock", "loop", "tell", "erase", "free"}

ObjRec == [abandoned : BOOLEAN, state : {"fresh", "open", "ended"},
           events : SUBSET {"abort", "close", "timeout", "stalled"}]

ObjTypes ==
  /\ Cardinality(Objects) \in Nat /\ Objects = 1 .. Cardinality(Objects)
  /\ obj \in [Objects -> ObjRec]

TableTypes ==
  /\ TimerTypeOK
  /\ table \in [ConnId -> Objects \cup {NoObject}]
  /\ last \in [ConnId -> 0 .. MaxAge]
  /\ pool \subseteq Objects /\ sessions \subseteq ConnId /\ late \subseteq ConnId

PktRec == [pc : PktSteps, conn : ConnId, end : BOOLEAN, stall : 0 .. MaxStall,
           obj : Nat, left : Nat, up : BOOLEAN]

(* The packet thread holds an object from the step that found it to the    *)
(* step that gives it back.                                                *)
PktTypes ==
  /\ pkt \in PktRec /\ pkt.obj \in Objects \cup {NoObject}
  /\ pkt.obj = NoObject <=> pkt.pc \in {"idle", "find"}

(* The sweep is the callback of a tick.  It holds an object while it gives *)
(* it back; the connection it has recorded stays in the table until then.  *)
SweepTypes ==
  /\ sweep \in [pc : SweepSteps, lag : 0 .. MaxStall, conn : ConnId, obj : Objects \cup {NoObject}]
  /\ sweep.obj = NoObject <=> sweep.pc # "free"
  /\ sweep.pc \in {"tell", "erase"} => table[sweep.conn] # NoObject
  /\ timer.start = "thread" => timer.thread = "none"
  /\ sweep.pc = "idle" <=> timer.thread # "tick"

Holds == ObjTypes /\ TableTypes /\ PktTypes /\ SweepTypes

(* The object in hand is in the table for its own connection or not at     *)
(* all; objects on their way to the pool and in it are as new.             *)
Places ==
  /\ OnePlace
  /\ \A c \in ConnId : table[c] = pkt.obj /\ pkt.obj # NoObject => c = pkt.conn
  /\ pkt.obj # NoObject => table[pkt.conn] \in {NoObject, pkt.obj}
  /\ \A o \in pool : obj[o] = NewObject
  /\ pkt.pc = "free" => pkt.obj \notin InTable /\ obj[pkt.obj] = NewObject
  /\ sweep.pc = "free" => obj[sweep.obj] = NewObject

(* The connection in hand is no older than its packet, and none is younger *)
(* than the sweep.                                                         *)
Ages ==
  /\ Unlocked => sweep.lag = 0
  /\ Locked => \A c \in Present : last[c] >= sweep.lag
  /\ pkt.obj # NoObject /\ table[pkt.conn] = pkt.obj => last[pkt.conn] <= pkt.stall

(* The session of a connection being erased is gone, or is excused.        *)
SessionsGone ==
  /\ SessionHasConn
  /\ sweep.pc = "erase" =>
       /\ sweep.conn \notin sessions \ late
       /\ table[sweep.conn] = pkt.obj => sweep.conn \in late

(* Closed is only what the packet thread holds and has removed, or is      *)
(* about to.                                                               *)
ClosedHeld ==
  \A o \in Objects : "close" \in obj[o].events => o = pkt.obj /\ (pkt.pc = "remove" \/ o \notin InTable)

(* Timed out, and not for want of its own packet, is only what is being    *)
(* erased and nobody holds.                                                *)
TimedOutUnheld ==
  \A o \in Objects : "timeout" \in obj[o].events /\ "stalled" \notin obj[o].events =>
    sweep.pc \in {"tell", "erase"} /\ o = table[sweep.conn] /\ o # pkt.obj

Ends == SessionsGone /\ ClosedHeld /\ TimedOutUnheld

-----------------------------------------------------------------------------
(* What the threads hold. *)

LEMMA HoldsTypeOK == Holds => TypeOK
BY DEF Holds, ObjTypes, TableTypes, PktTypes, PktRec, SweepTypes, TypeOK, ObjRec

LEMMA NewObjectIs == NewObject \in ObjRec
BY DEF NewObject, ObjRec

LEMMA IdleIs ==
  /\ \E c \in ConnId : Idle = [pc |-> "idle", conn |-> c, end |-> FALSE,
                              stall |-> 0, obj |-> NoObject, left |-> 0, up |-> FALSE]
  /\ \E c \in ConnId : Resting = [pc |-> "idle", lag |-> 0, conn |-> c, obj |-> NoObject]
<1>1. (CHOOSE c \in ConnId : TRUE) \in ConnId
  BY MonitorAssumption
<1> QED
  BY <1>1 DEF Idle, Resting

(* Expanding an empty pool adds objects as new, numbered on from the last. *)
LEMMA ExpandedIs ==
  ASSUME Holds
  PROVE  /\ Objects \subseteq DOMAIN Expanded
         /\ Expanded \in [DOMAIN Expanded -> ObjRec]
         /\ \A o \in Objects : Expanded[o] = obj[o]
         /\ \A o \in DOMAIN Expanded \ Objects : Expanded[o] = NewObject
         /\ Cardinality(DOMAIN Expanded) \in Nat
         /\ DOMAIN Expanded = 1 .. Cardinality(DOMAIN Expanded)
<1>1. CASE pool # {}
  BY <1>1 DEF Expanded, Holds, ObjTypes, Objects
<1>2. CASE pool = {}
  <2> DEFINE n == Cardinality(Objects) + ExpandSize
  <2>1. n \in Nat /\ Objects \subseteq 1 .. n
    BY MonitorAssumption DEF Holds, ObjTypes
  <2>2. Expanded = [o \in 1 .. n |-> IF o \in Objects THEN obj[o] ELSE NewObject]
    BY <1>2 DEF Expanded
  <2>3. Cardinality(1 .. n) = n
    BY <2>1, FS_Interval
  <2>4. obj \in [Objects -> ObjRec]
    BY DEF Holds, ObjTypes
  <2> HIDE DEF n
  <2> QED
    BY <2>1, <2>2, <2>3, <2>4, NewObjectIs
<1> QED
  BY <1>1, <1>2

LEMMA IdleTypes == Idle \in PktRec /\ Idle.obj = NoObject /\ Idle.pc = "idle"
<1>1. 0 \in 0 .. MaxStall
  BY MonitorAssumption
<1>2. Idle.obj = NoObject /\ Idle.pc = "idle"
  BY IdleIs
<1>3. Idle \in PktRec
  BY <1>1, IdleIs DEF PktRec, PktSteps, NoObject
<1> QED
  BY <1>2, <1>3

LEMMA InitHolds == Init => Holds
<1> SUFFICES ASSUME Init PROVE Holds
  OBVIOUS
<1> USE DEF Init, NoObject, Objects
<1>1. ObjTypes
  BY FS_EmptySet DEF ObjTypes
<1>2. TableTypes
  BY MonitorAssumption DEF TableTypes, TimerInit, TimerTypeOK, MaxAge
<1>3. PktTypes
  BY IdleTypes DEF PktTypes
<1>4. SweepTypes
  BY IdleIs, MonitorAssumption DEF SweepTypes, SweepSteps, TimerInit
<1> QED
  BY <1>1, <1>2, <1>3, <1>4 DEF Holds

-----------------------------------------------------------------------------
(* What the actions make of objects. *)

LEMMA ObjectChanges ==
  ASSUME ObjTypes, NEW o \in Objects, NEW r \in ObjRec, obj' = [obj EXCEPT ![o] = r]
  PROVE  /\ ObjTypes' /\ Objects' = Objects
         /\ obj'[o] = r
         /\ \A x \in Objects : x # o => obj'[x] = obj[x]
<1>1. obj' \in [Objects -> ObjRec] /\ DOMAIN obj' = Objects
  BY DEF ObjTypes, Objects
<1>2. Objects' = Objects
  BY <1>1 DEF Objects
<1> QED
  BY <1>1, <1>2 DEF ObjTypes, Objects

LEMMA ObjectStays ==
  ASSUME ObjTypes, UNCHANGED obj
  PROVE  ObjTypes' /\ Objects' = Objects
BY DEF ObjTypes, Objects

LEMMA FieldChanges ==
  ASSUME NEW r \in ObjRec, NEW s \in {"fresh", "open", "ended"},
         NEW e \in SUBSET {"abort", "close", "timeout", "stalled"}
  PROVE  /\ [r EXCEPT !.state = s] \in ObjRec /\ [r EXCEPT !.state = s].events = r.events
         /\ [r EXCEPT !.events = e] \in ObjRec /\ [r EXCEPT !.events = e].events = e
         /\ [r EXCEPT !.state = s, !.events = e] \in ObjRec /\ [r EXCEPT !.state = s, !.events = e].events = e
         /\ [r EXCEPT !.abandoned = TRUE] \in ObjRec /\ [r EXCEPT !.abandoned = TRUE].events = r.events
BY DEF ObjRec

(* A packet on its way leaves other objects alone, and the events of its   *)
(* own.                                                                    *)
LEMMA CheckAbandonedObj ==
  ASSUME Holds, CheckAbandoned
  PROVE  /\ ObjTypes' /\ Objects' = Objects /\ pkt.obj \in Objects
         /\ \A o \in Objects : obj'[o].events = obj[o].events
         /\ \A o \in Objects : o # pkt.obj => obj'[o] = obj[o]
<1> USE DEF CheckAbandoned
<1>1. ObjTypes /\ pkt.obj \in Objects
  BY DEF Holds, PktTypes
<1>2. obj[pkt.obj] \in ObjRec /\ obj[pkt.obj].state \in {"fresh", "open", "ended"}
  BY <1>1 DEF ObjTypes, ObjRec
<1>3. CASE UNCHANGED obj
  BY <1>1, <1>3, ObjectStays
<1>4. CASE obj' = [obj EXCEPT ![pkt.obj].state = IF @ = "fresh" THEN "open" ELSE @]
  <2> DEFINE r == [obj[pkt.obj] EXCEPT !.state = IF @ = "fresh" THEN "open" ELSE @]
  <2>1. r \in ObjRec /\ r.events = obj[pkt.obj].events
    BY <1>2, FieldChanges, ZenonT(30)
  <2>2. obj' = [obj EXCEPT ![pkt.obj] = r]
    BY <1>4
  <2> HIDE DEF r
  <2> QED
    BY <1>1, <2>1, <2>2, ObjectChanges, ZenonT(30)
<1> QED
  BY <1>3, <1>4

(* Only the close of a connection adds that event, to the object in hand.  *)
LEMMA AnalyzeObj ==
  ASSUME Holds, Analyze
  PROVE  /\ ObjTypes' /\ Objects' = Objects /\ pkt.obj \in Objects
         /\ \A o \in Objects : o # pkt.obj => obj'[o] = obj[o]
         /\ \A o \in Objects : obj'[o].events \in
              {obj[o].events, obj[o].events \cup {"abort"}} \cup
              {e \in {obj[o].events \cup {"close"}} : pkt'.pc = "remove"}
<1>1. ObjTypes /\ pkt.obj \in Objects
  BY DEF Holds, PktTypes, Analyze
<1>2. obj[pkt.obj] \in ObjRec /\ obj[pkt.obj].events \in SUBSET {"abort", "close", "timeout", "stalled"}
  BY <1>1 DEF ObjTypes, ObjRec
<1>3. CASE UNCHANGED obj
  BY <1>1, <1>3, ObjectStays
<1>4. ASSUME NEW how \in {[event |-> "abort", next |-> "abandon"], [event |-> "close", next |-> "remove"]},
             NEW up \in BOOLEAN,
             obj' = [obj EXCEPT ![pkt.obj].state = "ended", ![pkt.obj].events = @ \cup {how.event}],
             pkt' = [pkt EXCEPT !.left = @ - 1, !.pc = how.next, !.up = up]
      PROVE  /\ ObjTypes' /\ Objects' = Objects
             /\ \A o \in Objects : o # pkt.obj => obj'[o] = obj[o]
             /\ obj'[pkt.obj].events = obj[pkt.obj].events \cup {how.event}
             /\ pkt'.pc = how.next
  <2> DEFINE r == [obj[pkt.obj] EXCEPT !.state = "ended", !.events = @ \cup {how.event}]
  <2>1. obj[pkt.obj].events \cup {how.event} \in SUBSET {"abort", "close", "timeout", "stalled"}
    BY <1>2
  <2>2. r \in ObjRec /\ r.events = obj[pkt.obj].events \cup {how.event}
    BY <1>2, <2>1, FieldChanges
  <2>3. obj' = [obj EXCEPT ![pkt.obj] = r]
    BY <1>1, <1>4 DEF ObjTypes
  <2> HIDE DEF r
  <2>4. pkt'.pc = how.next
    BY <1>4 DEF Holds, PktTypes
  <2> QED
    BY <1>1, <2>2, <2>3, <2>4, ObjectChanges
<1> QED
  BY <1>1, <1>3, <1>4 DEF Analyze

LEMMA AbandonObj ==
  ASSUME Holds, AbandonTcpConnection
  PROVE  /\ ObjTypes' /\ Objects' = Objects
         /\ \A o \in Objects : obj'[o].events = obj[o].events
         /\ \A o \in Objects : o # table[pkt.conn] => obj'[o] = obj[o]
<1> DEFINE o == table[pkt.conn]
           r == [obj[o] EXCEPT !.abandoned = TRUE]
<1>1. ObjTypes
  BY DEF Holds
<1>2. CASE o = NoObject
  BY <1>1, <1>2, ObjectStays DEF AbandonTcpConnection
<1>3. CASE o # NoObject
  <2>1. o \in Objects /\ obj[o] \in ObjRec
    BY <1>3 DEF Holds, TableTypes, PktTypes, PktRec, ObjTypes
  <2>2. r \in ObjRec /\ r.events = obj[o].events
    BY <2>1, FieldChanges
  <2>3. obj' = [obj EXCEPT ![o] = r]
    BY <1>3 DEF AbandonTcpConnection
  <2> HIDE DEF o, r
  <2>4. \A x \in Objects : x # o => obj'[x] = obj[x]
    BY <1>1, <2>1, <2>2, <2>3, ObjectChanges
  <2> QED
    BY <1>1, <2>1, <2>2, <2>3, <2>4, ObjectChanges DEF o
<1> QED
  BY <1>2, <1>3

LEMMA ReinitObj ==
  ASSUME Holds, NEW o \in Objects, obj' = ReinitTcpConnInfo(o)
  PROVE  /\ ObjTypes' /\ Objects' = Objects /\ obj'[o] = NewObject
         /\ \A x \in Objects : x # o => obj'[x] = obj[x]
BY ObjectChanges, NewObjectIs DEF ReinitTcpConnInfo, Holds

(* An object whose timeout is recorded belongs to the oldest connection,   *)
(* which is not so young; if it is in hand, the delay is the packet's.     *)
LEMMA RecordObj ==
  ASSUME Holds, RecordConnTimeout
  PROVE  /\ ObjTypes' /\ Objects' = Objects
         /\ sweep'.pc = "tell" /\ sweep'.conn \in Present /\ TimedOut(sweep'.conn)
         /\ table[sweep'.conn] \in Objects
         /\ \A o \in Objects : o # table[sweep'.conn] => obj'[o] = obj[o]
         /\ obj'[table[sweep'.conn]].events = obj[table[sweep'.conn]].events \cup {"timeout"} \cup
              {e \in {"stalled"} : table[sweep'.conn] = pkt.obj /\ pkt.stall >= ConnTimeout}
<1>1. PICK c \in Oldest :
        /\ TimedOut(c)
        /\ obj' = [obj EXCEPT ![table[c]].events = @ \cup {"timeout"} \cup
                     {e \in {"stalled"} : table[c] = pkt.obj /\ pkt.stall >= ConnTimeout}]
        /\ sweep' = [sweep EXCEPT !.pc = "tell", !.conn = c]
  BY DEF RecordConnTimeout
<1>2. c \in Present /\ table[c] \in Objects /\ ObjTypes /\ sweep'.pc = "tell" /\ sweep'.conn = c
  BY <1>1 DEF Oldest, Present, Holds, TableTypes, SweepTypes
<1> DEFINE e1 == obj[table[c]].events \cup {"timeout"} \cup
                   {e \in {"stalled"} : table[c] = pkt.obj /\ pkt.stall >= ConnTimeout}
           r == [obj[table[c]] EXCEPT !.events = e1]
<1>3. obj[table[c]] \in ObjRec /\ e1 \in SUBSET {"abort", "close", "timeout", "stalled"}
  BY <1>2 DEF ObjTypes, ObjRec
<1>4. obj' = [obj EXCEPT ![table[c]] = r]
  BY <1>1
<1> HIDE DEF e1
<1>5. r \in ObjRec /\ r.events = e1
  BY <1>3, FieldChanges
<1> HIDE DEF r
<1>6. /\ ObjTypes' /\ Objects' = Objects
      /\ obj'[table[c]] = r
      /\ \A o \in Objects : o # table[c] => obj'[o] = obj[o]
  BY <1>2, <1>4, <1>5, ObjectChanges
<1>7. sweep'.conn \in Present /\ TimedOut(sweep'.conn)
  BY <1>1, <1>2 DEF TimedOut
<1> QED
  BY <1>2, <1>5, <1>6, <1>7 DEF e1

(* The object CreateConn takes is from the pool, or as new. *)
LEMMA CreateObj ==
  ASSUME Holds, CreateConn
  PROVE  /\ ObjTypes' /\ Objects \subseteq Objects'
         /\ \A x \in Objects : obj'[x] = obj[x]
         /\ \A x \in Objects' \ Objects : obj'[x] = NewObject
         /\ \E o \in Objects' :
              /\ o \in pool \/ o \notin Objects
              /\ pool' = (pool \cup (Objects' \ Objects)) \ {o}
              /\ table' = [table EXCEPT ![pkt.conn] = o]
              /\ pkt' = [pkt EXCEPT !.pc = "check", !.obj = o]
<1>1. obj' = Expanded /\ Objects' = DOMAIN Expanded
  BY DEF CreateConn, Objects
<1>2. ObjTypes'
  BY <1>1, ExpandedIs DEF ObjTypes
<1>3. PICK o \in IF pool = {} THEN DOMAIN Expanded \ Objects ELSE pool :
        /\ pool' = (pool \cup (DOMAIN Expanded \ Objects)) \ {o}
        /\ table' = [table EXCEPT ![pkt.conn] = o]
        /\ pkt' = [pkt EXCEPT !.pc = "check", !.obj = o]
  BY DEF CreateConn
<1>4. o \in Objects' /\ (o \in pool \/ o \notin Objects)
  BY <1>1, <1>3, ExpandedIs DEF Holds, TableTypes
<1> QED
  BY <1>1, <1>2, <1>3, <1>4, ExpandedIs

-----------------------------------------------------------------------------
(* What the threads hold. *)

LEMMA ObjTypesNext ==
  ASSUME Holds, [Next]_vars
  PROVE  ObjTypes' /\ Objects \subseteq Objects' /\ (~ CreateConn => Objects' = Objects)
<1>1. CASE UNCHANGED obj
  BY <1>1, ObjectStays DEF Holds
<1>2. CASE CreateConn
  BY <1>2, CreateObj
<1>3. CASE CheckAbandoned
  BY <1>3, CheckAbandonedObj
<1>4. CASE Analyze
  BY <1>4, AnalyzeObj
<1>5. CASE AbandonTcpConnection
  BY <1>5, AbandonObj
<1>6. CASE DropReference
  <2>1. pkt.obj \in Objects
    BY <1>6 DEF DropReference, Holds, PktTypes
  <2> QED
    BY <1>1, <1>6, <2>1, ReinitObj DEF DropReference
<1>7. CASE RecordConnTimeout
  BY <1>7, RecordObj
<1>8. CASE EraseConn
  <2>1. table[sweep.conn] \in Objects
    BY <1>8 DEF EraseConn, Holds, SweepTypes, TableTypes
  <2> QED
    BY <1>1, <1>8, <2>1, ReinitObj DEF EraseConn
<1> QED
  BY <1>1, <1>2, <1>3, <1>4, <1>5, <1>6, <1>7, <1>8
  DEF Next, PktThread, GetTcpConnInfo, TimerThread, Arrive, TimePasses, vars,
      FindConn, IgnoreEnd, RemoveTcpConnection, PassUp, HttpRequest, HttpData, HttpSession, FreeObject,
      TimerStart, OnTick, LockTable, SweepDone, TellHttp, FreeSwept

(* A new entry of the table is an object that has just been taken; only    *)
(* what has been held is returned to the pool.                             *)
LEMMA TableTypesNext ==
  ASSUME Holds, [Next]_vars
  PROVE  TableTypes'
<1> USE DEF TableTypes, NoObject
<1>1. TableTypes /\ Objects \subseteq Objects' /\ pkt.conn \in ConnId /\ 0 \in 0 .. MaxAge /\ pkt.stall \in 0 .. MaxAge
  BY ObjTypesNext, MonitorAssumption DEF Holds, PktTypes, PktRec, MaxAge
<1>2. TimerTypeOK'
  <2> USE DEF TimerTypeOK
  <2>1. CASE UNCHANGED timer
    BY <1>1, <2>1
  <2>2. CASE TimerStart \/ OnTick \/ SweepDone \/ IntervalPasses
    BY <1>1, <2>2 DEF TimerStart, StartThread, StartWait, RunReturns, OnTick, Expire, SweepDone, Rearm, IntervalPasses
  <2> QED
    BY <2>1, <2>2 DEF Next, Arrive, PktThread, GetTcpConnInfo, FindConn, IgnoreEnd, CreateConn, CheckAbandoned,
       Analyze, AbandonTcpConnection, RemoveTcpConnection, PassUp, HttpRequest, HttpData, HttpSession, DropReference,
       FreeObject, TimerThread, LockTable, RecordConnTimeout, TellHttp, EraseConn, FreeSwept, TimePasses, vars
<1>3. CASE UNCHANGED <<table, last, pool, sessions, late>>
  BY <1>1, <1>2, <1>3
<1>4. CASE FindConn
  BY <1>1, <1>2, <1>4 DEF FindConn
<1>5. CASE CreateConn
  <2>1. PICK o \in Objects' :
          /\ pool' = (pool \cup (Objects' \ Objects)) \ {o}
          /\ table' = [table EXCEPT ![pkt.conn] = o]
    BY <1>5, CreateObj
  <2> QED
    BY <1>1, <1>2, <1>5, <2>1 DEF CreateConn
<1>6. CASE RemoveTcpConnection
  BY <1>1, <1>2, <1>6 DEF RemoveTcpConnection
<1>7. CASE HttpRequest \/ HttpSession
  BY <1>1, <1>2, <1>7 DEF HttpRequest, HttpSession, tableVars
<1>8. CASE FreeObject
  BY <1>1, <1>2, <1>8 DEF FreeObject, tableVars, Holds, PktTypes, NoObject
<1>9. CASE TellHttp
  BY <1>1, <1>2, <1>9 DEF TellHttp, tableVars, Holds, SweepTypes
<1>10. CASE EraseConn
  BY <1>1, <1>2, <1>10 DEF EraseConn
<1>11. CASE FreeSwept
  BY <1>1, <1>2, <1>11 DEF FreeSwept, tableVars, Holds, SweepTypes
<1>12. CASE TimePasses
  <2>1. \A c \in ConnId : last[c] \in 0 .. MaxAge /\ (last[c] < MaxAge => last[c] + 1 \in 0 .. MaxAge)
    BY <1>1, MonitorAssumption DEF MaxAge
  <2> QED
    BY <1>1, <1>2, <1>12, <2>1 DEF TimePasses
<1> QED
  BY <1>3, <1>4, <1>5, <1>6, <1>7, <1>8, <1>9, <1>10, <1>11, <1>12
  DEF Next, Arrive, PktThread, GetTcpConnInfo, IgnoreEnd, CheckAbandoned, Analyze, AbandonTcpConnection, PassUp, HttpData,
      DropReference, TimerThread, TimerStart, OnTick, LockTable, RecordConnTimeout, SweepDone, vars, tableVars

LEMMA PktTypesNext ==
  ASSUME Holds, [Next]_vars
  PROVE  PktTypes'
<1> USE DEF PktTypes, NoObject
<1>1. PktTypes /\ Objects \subseteq Objects' /\ 0 \notin Objects' /\ Objects' \subseteq Nat
  BY ObjTypesNext DEF Holds, ObjTypes
<1>2. CASE UNCHANGED pkt
  BY <1>1, <1>2
<1>3. ASSUME NEW c \in ConnId, NEW end \in BOOLEAN, Arrive(c, end) PROVE PktTypes'
  BY <1>1, <1>3, IdleTypes DEF Arrive, PktRec, PktSteps
<1>4. CASE FindConn
  BY <1>1, <1>4 DEF FindConn, Holds, TableTypes, PktRec, PktSteps
<1>5. CASE IgnoreEnd \/ FreeObject
  BY <1>1, <1>5, IdleTypes DEF IgnoreEnd, FreeObject
<1>6. CASE CreateConn
  <2>1. PICK o \in Objects' : pkt' = [pkt EXCEPT !.pc = "check", !.obj = o]
    BY <1>6, CreateObj
  <2> QED
    BY <1>1, <2>1 DEF PktRec, PktSteps
<1>7. CASE CheckAbandoned
  <2>1. CASE pkt' = [pkt EXCEPT !.pc = "proc"]
    BY <1>1, <1>7, <2>1 DEF CheckAbandoned, PktRec, PktSteps
  <2>2. ASSUME NEW n \in 0 .. MaxReleased, pkt' = [pkt EXCEPT !.pc = "proc", !.left = n]
        PROVE  PktTypes'
    <3>1. n \in Nat
      BY MonitorAssumption
    <3> QED
      BY <1>1, <1>7, <2>2, <3>1 DEF CheckAbandoned, PktRec, PktSteps
  <2> QED
    BY <1>7, <2>1, <2>2 DEF CheckAbandoned
<1>8. CASE Analyze
  <2>1. pkt.left - 1 \in Nat /\ pkt.pc = "proc"
    <3>1. pkt.left \in Nat
      BY <1>1 DEF PktRec
    <3>2. pkt.left > 0 /\ pkt.pc = "proc"
      BY <1>8 DEF Analyze
    <3> QED
      BY <3>1, <3>2
  <2>2. ASSUME NEW pc \in {"proc", "pass", "abandon", "remove"}, NEW up \in BOOLEAN,
               pkt' = [pkt EXCEPT !.left = @ - 1, !.pc = pc, !.up = up]
        PROVE  PktTypes'
    BY <1>1, <2>1, <2>2 DEF PktRec, PktSteps
  <2>3. CASE pkt' = [pkt EXCEPT !.left = @ - 1]
    BY <1>1, <2>1, <2>3 DEF PktRec, PktSteps
  <2>4. ASSUME NEW how \in {[event |-> "abort", next |-> "abandon"], [event |-> "close", next |-> "remove"]},
               NEW up \in BOOLEAN, pkt' = [pkt EXCEPT !.left = @ - 1, !.pc = how.next, !.up = up]
        PROVE  PktTypes'
    <3>1. how.next \in {"proc", "pass", "abandon", "remove"}
      OBVIOUS
    <3> QED
      BY <2>2, <2>4, <3>1
  <2> QED
    BY <1>8, <2>2, <2>3, <2>4 DEF Analyze
<1>9. CASE AbandonTcpConnection \/ RemoveTcpConnection \/ HttpRequest \/ HttpSession
  BY <1>1, <1>9 DEF AbandonTcpConnection, RemoveTcpConnection, HttpRequest, HttpSession, Step, PktRec, PktSteps
<1>10. CASE PassUp \/ HttpData
  <2>1. PICK pc \in {"http", "proc", "session"}, up \in BOOLEAN : pkt' = [pkt EXCEPT !.pc = pc, !.up = up]
    BY <1>1, <1>10, ZenonT(30) DEF PassUp, HttpData, PktRec
  <2> QED
    BY <1>1, <1>10, <2>1 DEF PassUp, HttpData, PktRec, PktSteps
<1>11. CASE DropReference
  BY <1>1, <1>11, IdleTypes DEF DropReference, PktRec, PktSteps
<1>12. CASE TimePasses
  <2>1. (IF pkt.pc = "idle" THEN 0 ELSE pkt.stall + 1) \in 0 .. MaxStall
    BY <1>1, <1>12, MonitorAssumption DEF TimePasses, PktRec
  <2> QED
    BY <1>1, <1>12, <2>1 DEF TimePasses, PktRec
<1> QED
  BY <1>2, <1>3, <1>4, <1>5, <1>6, <1>7, <1>8, <1>9, <1>10, <1>11, <1>12
  DEF Next, PktThread, GetTcpConnInfo, TimerThread, TimerStart, OnTick, LockTable, RecordConnTimeout, SweepDone,
      TellHttp, EraseConn, FreeSwept, vars

(* While the sweep is at a connection it has the lock, and nobody else     *)
(* takes that one out of the table.                                        *)
LEMMA SweepTypesNext ==
  ASSUME Holds, [Next]_vars
  PROVE  SweepTypes'
<1> USE DEF SweepTypes, SweepSteps, NoObject
<1>1. SweepTypes /\ Objects \subseteq Objects' /\ 0 \in 0 .. MaxStall /\ 0 \notin Objects'
  BY ObjTypesNext, MonitorAssumption DEF Holds, ObjTypes
<1>2. CASE UNCHANGED <<sweep, table, timer>>
  BY <1>1, <1>2
<1>3. CASE UNCHANGED <<sweep, timer>> /\ Unlocked
  BY <1>1, <1>3 DEF Unlocked
<1>4. CASE OnTick
  <2>1. timer'.thread = "tick" /\ timer'.start = timer.start /\ timer.thread = "run"
    BY <1>4 DEF OnTick, Expire, Holds, TableTypes, TimerTypeOK
  <2>2. sweep'.pc = "lock" /\ sweep' \in [pc : SweepSteps, lag : 0 .. MaxStall, conn : ConnId, obj : {NoObject}]
    BY <1>1, <1>4, IdleIs DEF OnTick
  <2> QED
    BY <1>1, <2>1, <2>2
<1>5. CASE SweepDone
  <2>1. timer'.thread = "run" /\ timer'.start = timer.start /\ timer.thread = "tick"
    BY <1>5 DEF SweepDone, Rearm, Holds, TableTypes, TimerTypeOK
  <2>2. sweep'.pc = "idle" /\ sweep' \in [pc : SweepSteps, lag : 0 .. MaxStall, conn : ConnId, obj : {NoObject}]
    BY <1>1, <1>5, IdleIs DEF SweepDone
  <2> QED
    BY <1>1, <2>1, <2>2
<1>6. CASE TimerStart
  <2>1. sweep' = sweep /\ table' = table
    BY <1>6 DEF TimerStart, tableVars
  <2>2. /\ timer.thread # "tick" <=> timer'.thread # "tick"
        /\ timer'.start = "thread" => timer'.thread = "none"
    BY <1>1, <1>6 DEF TimerStart, StartThread, StartWait, RunReturns, Holds, TableTypes, TimerTypeOK
  <2> QED
    BY <1>1, <2>1, <2>2
<1>7. CASE LockTable \/ TellHttp
  BY <1>1, <1>7 DEF LockTable, TellHttp, tableVars
<1>8. CASE RecordConnTimeout
  <2>1. PICK c \in Present : sweep' = [sweep EXCEPT !.pc = "tell", !.conn = c]
    BY <1>8 DEF RecordConnTimeout, Oldest
  <2> QED
    BY <1>1, <1>8, <2>1 DEF RecordConnTimeout, Present, tableVars
<1>9. CASE EraseConn
  <2>1. table[sweep.conn] \in Objects
    BY <1>1, <1>9 DEF EraseConn, Holds, TableTypes
  <2> QED
    BY <1>1, <1>9, <2>1 DEF EraseConn
<1>10. CASE FreeSwept
  BY <1>1, <1>10 DEF FreeSwept, tableVars
<1>11. CASE TimePasses
  <2>1. Locked => sweep.lag + 1 \in 0 .. MaxStall
    BY <1>1, <1>11, MonitorAssumption DEF TimePasses
  <2>2. timer'.thread = timer.thread /\ timer'.start = timer.start
    BY <1>11 DEF TimePasses, IntervalPasses, Holds, TableTypes, TimerTypeOK
  <2>3. /\ sweep' \in [pc : SweepSteps, lag : 0 .. MaxStall, conn : ConnId, obj : Objects' \cup {NoObject}]
        /\ sweep'.pc = sweep.pc /\ sweep'.conn = sweep.conn /\ sweep'.obj = sweep.obj /\ table' = table
    BY <1>1, <1>11, <2>1 DEF TimePasses
  <2> QED
    BY <1>1, <2>2, <2>3
<1> QED
  BY <1>2, <1>3, <1>4, <1>5, <1>6, <1>7, <1>8, <1>9, <1>10, <1>11
  DEF Next, Arrive, PktThread, GetTcpConnInfo, FindConn, IgnoreEnd, CreateConn, CheckAbandoned, Analyze,
      AbandonTcpConnection, RemoveTcpConnection, PassUp, HttpRequest, HttpData, HttpSession, DropReference, FreeObject,
      TimerThread, vars, tableVars

LEMMA HoldsNext ==
  ASSUME Holds, [Next]_vars
  PROVE  Holds'
BY ObjTypesNext, TableTypesNext, PktTypesNext, SweepTypesNext DEF Holds

-----------------------------------------------------------------------------
(* Where the objects are. *)

LEMMA InitPlaces == Init => Places
BY IdleTypes, IdleIs DEF Init, Places, OnePlace, InTable, Objects, NoObject

(* Steps that move no object, and change none that is on its way back.     *)
LEMMA PlacesFrame ==
  ASSUME Holds, Places, UNCHANGED <<table, pool>>, Objects' = Objects,
         pkt'.obj = pkt.obj, pkt.obj # NoObject => pkt'.conn = pkt.conn, pkt'.pc = "free" => pkt.pc = "free",
         sweep'.obj = sweep.obj, sweep'.pc = "free" => sweep.pc = "free",
         \A o \in pool : obj'[o] = obj[o],
         pkt.pc = "free" => obj'[pkt.obj] = obj[pkt.obj],
         sweep.pc = "free" => obj'[sweep.obj] = obj[sweep.obj]
  PROVE  Places'
<1> USE DEF Places, OnePlace, NoObject
<1>1. InTable' = InTable
  BY DEF InTable
<1>2. pool \subseteq Objects
  BY DEF Holds, TableTypes
<1> QED
  BY <1>1, <1>2

(* An object in hand is not in the pool, and not in the sweep's hands.     *)
LEMMA InHand ==
  ASSUME Holds, Places
  PROVE  /\ \A o \in pool : o # pkt.obj /\ o # sweep.obj /\ o \notin InTable /\ o \in Objects
         /\ sweep.pc = "free" => sweep.obj # pkt.obj /\ sweep.obj \notin InTable /\ sweep.obj \in Objects
         /\ Unlocked => sweep.obj = NoObject
         /\ pkt.pc \notin {"idle", "find"} => pkt.obj \in Objects /\ pkt.obj # NoObject
         /\ \A c \in ConnId : table[c] # NoObject => table[c] \in InTable
         /\ 0 \notin Objects
BY DEF Holds, TableTypes, PktTypes, SweepTypes, ObjTypes, Places, OnePlace, InTable, NoObject, Unlocked

(* Between finding an object and giving it back, a packet keeps it.        *)
Keeps ==
  /\ pkt'.obj = pkt.obj /\ pkt'.conn = pkt.conn /\ pkt'.stall = pkt.stall
  /\ pkt.pc \notin {"idle", "find", "free"} /\ pkt'.pc \notin {"idle", "find", "free"}

LEMMA PktKeeps ==
  ASSUME Holds, \/ CheckAbandoned \/ Analyze \/ AbandonTcpConnection \/ RemoveTcpConnection
                \/ PassUp \/ HttpRequest \/ HttpData \/ HttpSession
  PROVE  Keeps
<1> USE DEF Keeps
<1>1. pkt \in PktRec
  BY DEF Holds, PktTypes
<1>2. CASE CheckAbandoned
  BY <1>1, <1>2 DEF CheckAbandoned, PktRec
<1>3. CASE Analyze
  <2>1. pkt.pc = "proc"
    BY <1>3 DEF Analyze
  <2>2. ASSUME NEW pc \in {"pass", "abandon", "remove"}, NEW up \in BOOLEAN,
               pkt' = [pkt EXCEPT !.left = @ - 1, !.pc = pc, !.up = up]
        PROVE  Keeps
    BY <1>1, <2>1, <2>2 DEF PktRec
  <2>3. CASE pkt' = [pkt EXCEPT !.left = @ - 1]
    BY <1>1, <2>1, <2>3 DEF PktRec
  <2>4. ASSUME NEW how \in {[event |-> "abort", next |-> "abandon"], [event |-> "close", next |-> "remove"]},
               NEW up \in BOOLEAN, pkt' = [pkt EXCEPT !.left = @ - 1, !.pc = how.next, !.up = up]
        PROVE  Keeps
    <3>1. how.next \in {"pass", "abandon", "remove"}
      OBVIOUS
    <3> QED
      BY <2>2, <2>4, <3>1
  <2> HIDE DEF Keeps
  <2> QED
    BY <1>3, <2>2, <2>3, <2>4 DEF Analyze
<1>4. CASE AbandonTcpConnection \/ RemoveTcpConnection \/ HttpRequest \/ HttpSession
  BY <1>1, <1>4 DEF AbandonTcpConnection, RemoveTcpConnection, HttpRequest, HttpSession, Step, PktRec
<1>5. CASE PassUp \/ HttpData
  BY <1>1, <1>5 DEF PassUp, HttpData, PktRec
<1> QED
  BY <1>2, <1>3, <1>4, <1>5

LEMMA PlacesNext ==
  ASSUME Holds, Places, [Next]_vars
  PROVE  Places'
<1> USE InHand, HoldsNext DEF Step
<1>1. CASE UNCHANGED vars
  BY <1>1, PlacesFrame DEF vars, Objects
<1>2. ASSUME NEW c \in ConnId, NEW end \in BOOLEAN, Arrive(c, end) PROVE Places'
  <2>1. pkt.obj = NoObject /\ pkt'.obj = NoObject /\ pkt'.pc = "find"
    BY <1>2, IdleIs DEF Arrive, Holds, PktTypes
  <2> QED
    BY <1>2, <2>1, PlacesFrame DEF Arrive, Objects, tableVars
<1>3. CASE IgnoreEnd
  <2>1. pkt.obj = NoObject /\ pkt'.obj = NoObject /\ pkt'.pc = "idle"
    BY <1>3, IdleTypes DEF IgnoreEnd, Holds, PktTypes
  <2> QED
    BY <1>3, <2>1, PlacesFrame DEF IgnoreEnd, Objects, tableVars
<1>4. CASE CheckAbandoned
  BY <1>4, CheckAbandonedObj, PktKeeps, PlacesFrame DEF CheckAbandoned, tableVars, Keeps
<1>5. CASE Analyze
  BY <1>5, AnalyzeObj, PktKeeps, PlacesFrame DEF Analyze, tableVars, Keeps
<1>6. CASE AbandonTcpConnection
  <2>1. Keeps
    BY <1>6, PktKeeps
  <2>2. table[pkt.conn] = pkt.obj \/ table[pkt.conn] = NoObject
    BY <2>1 DEF Places, Keeps
  <2>3. \A o \in pool : o \in Objects /\ o # table[pkt.conn]
    BY <2>2 DEF NoObject
  <2>4. \A o \in pool : obj'[o] = obj[o]
    BY <1>6, <2>3, AbandonObj
  <2> QED
    BY <1>6, <2>1, <2>4, AbandonObj, PlacesFrame DEF AbandonTcpConnection, tableVars, Unlocked, Keeps
<1>7. CASE PassUp \/ HttpRequest \/ HttpData \/ HttpSession
  BY <1>7, PktKeeps, PlacesFrame DEF PassUp, HttpRequest, HttpData, HttpSession, tableVars, Objects, Keeps
<1>8. CASE TimerStart
  BY <1>8, PlacesFrame DEF TimerStart, tableVars, Objects
<1>9. CASE OnTick \/ LockTable \/ SweepDone \/ TellHttp
  <2>1. sweep \in [pc : SweepSteps, lag : 0 .. MaxStall, conn : ConnId, obj : Objects \cup {NoObject}]
    BY DEF Holds, SweepTypes
  <2>2. sweep.pc \in {"idle", "lock", "loop", "tell"}
    <3>1. CASE OnTick
      BY <3>1 DEF OnTick, Expire, Holds, SweepTypes
    <3> QED
      BY <1>9, <3>1 DEF LockTable, SweepDone, TellHttp
  <2>3. sweep.obj = NoObject
    BY <2>2 DEF Holds, SweepTypes
  <2>4. sweep'.obj = NoObject /\ sweep'.pc # "free"
    <3>1. CASE OnTick \/ SweepDone
      BY <3>1, IdleIs DEF OnTick, SweepDone
    <3>2. CASE LockTable \/ TellHttp
      BY <2>1, <2>3, <3>2 DEF LockTable, TellHttp
    <3> QED
      BY <1>9, <3>1, <3>2
  <2> QED
    BY <1>9, <2>3, <2>4, PlacesFrame DEF OnTick, LockTable, SweepDone, TellHttp, tableVars, Objects
<1>10. CASE RecordConnTimeout
  <2>1. sweep.pc = "loop" /\ sweep'.pc = "tell" /\ sweep'.obj = sweep.obj
    BY <1>10, RecordObj DEF RecordConnTimeout, Holds, SweepTypes
  <2>2. table[sweep'.conn] \in InTable /\ (pkt.pc = "free" => table[sweep'.conn] # pkt.obj)
    BY <1>10, RecordObj DEF Present, InTable, Places
  <2>3. Objects' = Objects /\ \A o \in Objects : o # table[sweep'.conn] => obj'[o] = obj[o]
    BY <1>10, RecordObj
  <2>4. UNCHANGED <<table, pool, pkt>>
    BY <1>10 DEF RecordConnTimeout, tableVars
  <2>5. /\ \A o \in pool : o \in Objects /\ o # table[sweep'.conn]
        /\ pkt.pc = "free" => pkt.obj \in Objects
    BY <2>2 DEF Places, Holds, TableTypes
  <2>6. /\ \A o \in pool : obj'[o] = obj[o]
        /\ pkt.pc = "free" => obj'[pkt.obj] = obj[pkt.obj]
    BY <2>2, <2>3, <2>5
  <2> QED
    BY <2>1, <2>3, <2>4, <2>6, PlacesFrame
<1>11. CASE TimePasses
  <2>1. pkt'.obj = pkt.obj /\ pkt'.pc = pkt.pc /\ pkt'.conn = pkt.conn /\ sweep'.obj = sweep.obj /\ sweep'.pc = sweep.pc
    BY <1>11 DEF TimePasses, Holds, PktTypes, PktRec, SweepTypes
  <2> QED
    BY <1>11, <2>1, PlacesFrame DEF TimePasses, Objects
<1>12. CASE FindConn
  <2>1. pkt.obj = NoObject /\ pkt'.obj = table[pkt.conn] /\ pkt'.conn = pkt.conn /\ pkt'.pc = "check" /\ pkt.conn \in ConnId
    BY <1>12 DEF FindConn, Holds, PktTypes, PktRec
  <2>2. /\ InTable' = InTable /\ table' = table /\ pool' = pool /\ obj' = obj /\ sweep' = sweep /\ Objects' = Objects
        /\ sweep.obj = NoObject /\ sweep.pc # "free" /\ table[pkt.conn] \in InTable
    BY <1>12, <2>1 DEF FindConn, InTable, Objects, Unlocked
  <2>3. OnePlace'
    <3>1. Objects' = pool' \cup InTable' \cup ({pkt'.obj, sweep'.obj} \ {NoObject})
      BY <2>1, <2>2 DEF Places, OnePlace
    <3>2. \A o \in pool' : o \notin InTable' \cup {pkt'.obj, sweep'.obj} /\ ~ obj'[o].abandoned /\ obj'[o].state = "fresh"
      BY <2>1, <2>2 DEF Places, OnePlace
    <3> QED
      BY <2>2, <3>1, <3>2 DEF Places, OnePlace
  <2>4. \A c \in ConnId : table'[c] = pkt'.obj /\ pkt'.obj # NoObject => c = pkt'.conn
    BY <2>1, <2>2 DEF Places, OnePlace
  <2>5. \A o \in pool' : obj'[o] = NewObject
    BY <2>2 DEF Places
  <2> QED
    BY <2>1, <2>2, <2>3, <2>4, <2>5 DEF Places
<1>13. CASE CreateConn
  <2>1. PICK o \in Objects' :
          /\ o \in pool \/ o \notin Objects
          /\ pool' = (pool \cup (Objects' \ Objects)) \ {o}
          /\ table' = [table EXCEPT ![pkt.conn] = o]
          /\ pkt' = [pkt EXCEPT !.pc = "check", !.obj = o]
    BY <1>13, CreateObj
  <2>2. /\ pkt.obj = NoObject /\ pkt'.obj = o /\ pkt'.conn = pkt.conn /\ pkt'.pc = "check"
        /\ pkt.conn \in ConnId /\ table[pkt.conn] = NoObject
    BY <1>13, <2>1 DEF CreateConn, Holds, PktTypes, PktRec
  <2>3. sweep' = sweep /\ sweep.obj = NoObject /\ sweep.pc # "free"
    BY <1>13 DEF CreateConn, Unlocked
  <2>4. /\ o # NoObject /\ NoObject \notin Objects' /\ Objects \subseteq Objects' /\ pool \subseteq Objects
        /\ \A c \in ConnId : table[c] # o
    <3>1. table \in [ConnId -> Objects \cup {NoObject}] /\ pool \subseteq Objects
      BY DEF Holds, TableTypes
    <3>2. NoObject \notin Objects' /\ Objects \subseteq Objects'
      <4>1. Holds' /\ Objects \subseteq Objects'
        BY <1>13, CreateObj
      <4> QED
        BY <4>1 DEF Holds, ObjTypes, NoObject
    <3>3. o # NoObject
      BY <3>2
    <3>4. o \notin InTable
      BY <2>1 DEF InTable
    <3>5. ASSUME NEW c \in ConnId PROVE table[c] # o
      BY <3>1, <3>3, <3>4 DEF InTable
    <3> QED
      BY <3>1, <3>2, <3>3, <3>5
  <2>5. \A c \in ConnId : table'[c] = IF c = pkt.conn THEN o ELSE table[c]
    BY <2>1, <2>2 DEF Holds, TableTypes
  <2>6. InTable' = InTable \cup {o}
    <3>1. ASSUME NEW x \in InTable' PROVE x \in InTable \cup {o}
      <4>1. PICK c \in ConnId : table'[c] = x
        BY <3>1 DEF InTable
      <4>2. CASE c = pkt.conn
        BY <2>5, <4>1, <4>2
      <4>3. CASE c # pkt.conn
        <5>1. table[c] = x /\ x # NoObject
          BY <2>4, <2>5, <3>1, <4>1, <4>3 DEF InTable
        <5> QED
          BY <5>1
      <4> QED
        BY <4>2, <4>3
    <3>2. ASSUME NEW x \in InTable PROVE x \in InTable'
      <4>1. PICK c \in ConnId : table[c] = x
        BY <3>2 DEF InTable
      <4>2. x # NoObject /\ x \in Objects'
        BY <2>4, <3>2 DEF InTable, NoObject
      <4>3. table'[c] = x
        BY <2>2, <2>5, <4>1, <4>2
      <4> QED
        BY <4>2, <4>3 DEF InTable
    <3>3. o \in InTable'
      BY <2>2, <2>5 DEF InTable
    <3> QED
      BY <3>1, <3>2, <3>3
  <2>7. \A x \in Objects' : x \in pool' => x # o /\ x \notin InTable /\ obj'[x] = NewObject
    <3>1. ASSUME NEW x \in pool' PROVE x # o /\ x \notin InTable /\ obj'[x] = NewObject
      <4>1. CASE x \in pool
        BY <1>13, <2>1, <2>4, <3>1, <4>1, CreateObj DEF Places
      <4>2. CASE x \in Objects' \ Objects
        BY <1>13, <2>1, <4>2, <3>1, CreateObj DEF InTable
      <4> QED
        BY <2>1, <3>1, <4>1, <4>2
    <3> QED
      BY <3>1
  <2>8. pool' \subseteq Objects'
    BY <2>1, <2>4
  <2>9. OnePlace'
    <3>1. Objects' = pool' \cup InTable' \cup ({pkt'.obj, sweep'.obj} \ {NoObject})
      <4>1. Objects = pool \cup InTable
        BY <2>2, <2>3 DEF Places, OnePlace
      <4> QED
        BY <2>1, <2>2, <2>3, <2>4, <2>6, <4>1
    <3>2. \A x \in pool' : x \notin InTable' \cup {pkt'.obj, sweep'.obj}
      BY <2>2, <2>3, <2>4, <2>6, <2>7, <2>8
    <3>3. \A x \in pool' : ~ obj'[x].abandoned /\ obj'[x].state = "fresh"
      BY <2>7, <2>8 DEF NewObject
    <3>4. \A c, d \in ConnId : table'[c] = table'[d] /\ table'[c] # NoObject => c = d
      BY <2>4, <2>5 DEF Places, OnePlace
    <3> QED
      BY <2>3, <3>1, <3>2, <3>3, <3>4 DEF OnePlace
  <2>10. \A c \in ConnId : table'[c] = pkt'.obj /\ pkt'.obj # NoObject => c = pkt'.conn
    BY <2>2, <2>4, <2>5
  <2>11. table'[pkt'.conn] = pkt'.obj
    BY <2>2, <2>5
  <2> QED
    BY <2>2, <2>3, <2>7, <2>8, <2>9, <2>10, <2>11 DEF Places
<1>14. CASE RemoveTcpConnection
  <2>1. Keeps /\ pkt.obj \in Objects /\ pkt.obj # NoObject /\ pkt.conn \in ConnId
    BY <1>14, PktKeeps DEF Keeps, Holds, PktTypes, PktRec
  <2>2. /\ sweep' = sweep /\ sweep.obj = NoObject /\ sweep.pc # "free" /\ pool' = pool /\ obj' = obj /\ Objects' = Objects
        /\ \A c \in ConnId : table'[c] = IF c = pkt.conn THEN NoObject ELSE table[c]
    BY <1>14 DEF RemoveTcpConnection, Unlocked, Objects, Holds, TableTypes
  <2>3. InTable' \subseteq InTable /\ InTable \subseteq InTable' \cup {pkt.obj}
    <3>1. ASSUME NEW x \in InTable' PROVE x \in InTable
      <4>1. PICK c \in ConnId : table'[c] = x
        BY <3>1 DEF InTable
      <4>2. x # NoObject /\ x \in Objects
        BY <2>2, <3>1 DEF InTable, NoObject
      <4> QED
        BY <2>2, <4>1, <4>2 DEF InTable
    <3>2. ASSUME NEW x \in InTable, x # pkt.obj PROVE x \in InTable'
      <4>1. PICK c \in ConnId : table[c] = x
        BY <3>2 DEF InTable
      <4>2. x # NoObject /\ x \in Objects
        BY <3>2 DEF InTable, NoObject
      <4>3. c # pkt.conn
        BY <2>1, <3>2, <4>1, <4>2 DEF Places
      <4> QED
        BY <2>2, <4>1, <4>2, <4>3 DEF InTable
    <3> QED
      BY <3>1, <3>2
  <2>4. OnePlace'
    <3>1. Objects' = pool' \cup InTable' \cup ({pkt'.obj, sweep'.obj} \ {NoObject})
      BY <2>1, <2>2, <2>3 DEF Places, OnePlace, Keeps
    <3>2. \A x \in pool' : /\ x \notin InTable' \cup {pkt'.obj, sweep'.obj}
                           /\ ~ obj'[x].abandoned /\ obj'[x].state = "fresh"
      BY <2>1, <2>2, <2>3 DEF Places, OnePlace, Keeps
    <3>3. \A c, d \in ConnId : table'[c] = table'[d] /\ table'[c] # NoObject => c = d
      BY <2>2 DEF Places, OnePlace
    <3> QED
      BY <2>2, <3>1, <3>2, <3>3 DEF OnePlace
  <2>5. \A c \in ConnId : table'[c] # pkt'.obj
    BY <2>1, <2>2 DEF Places, Keeps
  <2>6. table'[pkt'.conn] = NoObject
    BY <2>1, <2>2 DEF Keeps
  <2> QED
    BY <2>1, <2>2, <2>4, <2>5, <2>6 DEF Places, Keeps
<1>15. CASE DropReference
  <2>1. /\ pkt.obj \in Objects /\ pkt.obj # NoObject /\ pkt.pc = "proc" /\ UNCHANGED <<table, pool, sweep>>
        /\ sweep.pc = "free" => sweep.obj # pkt.obj /\ sweep.obj \in Objects
    BY <1>15 DEF DropReference, tableVars
  <2>2. CASE pkt.obj \in InTable /\ pkt' = Idle /\ UNCHANGED obj
    <3>1. Objects' = Objects /\ InTable' = InTable /\ pkt'.obj = NoObject /\ pkt'.pc = "idle"
      BY <2>1, <2>2, IdleTypes DEF Objects, InTable
    <3>2. OnePlace'
      BY <2>1, <2>2, <3>1 DEF Places, OnePlace, NoObject
    <3> QED
      BY <2>1, <2>2, <3>1, <3>2 DEF Places
  <2>3. CASE pkt.obj \notin InTable /\ obj' = ReinitTcpConnInfo(pkt.obj) /\ pkt' = [pkt EXCEPT !.pc = "free"]
    <3>1. /\ Objects' = Objects /\ obj'[pkt.obj] = NewObject
          /\ \A x \in Objects : x # pkt.obj => obj'[x] = obj[x]
      BY <2>1, <2>3, ReinitObj
    <3>2. InTable' = InTable
      BY <2>1, <3>1 DEF InTable
    <3>3. pkt'.obj = pkt.obj /\ pkt'.conn = pkt.conn /\ pkt'.pc = "free"
      BY <2>3 DEF Holds, PktTypes, PktRec
    <3>4. \A x \in pool : x \in Objects /\ x # pkt.obj /\ obj'[x] = obj[x]
      BY <2>1, <3>1
    <3>5. OnePlace'
      BY <2>1, <3>1, <3>2, <3>3, <3>4 DEF Places, OnePlace
    <3> QED
      BY <2>1, <2>3, <3>1, <3>2, <3>3, <3>4, <3>5 DEF Places
  <2> QED
    BY <1>15, <2>2, <2>3 DEF DropReference
<1>16. CASE FreeObject
  <2>1. /\ pkt.obj \in Objects /\ pkt.obj # NoObject /\ pkt.pc = "free" /\ pkt.obj \notin InTable /\ obj[pkt.obj] = NewObject
        /\ UNCHANGED <<table, obj, sweep>> /\ pool' = pool \cup {pkt.obj} /\ Objects' = Objects /\ InTable' = InTable
        /\ pkt'.obj = NoObject /\ pkt'.pc = "idle" /\ NoObject \notin Objects
    BY <1>16, IdleTypes DEF FreeObject, tableVars, Objects, InTable, Places, NoObject
  <2>2. sweep.obj # pkt.obj
    BY <2>1 DEF Places, OnePlace, Holds, SweepTypes
  <2>3. OnePlace'
    <3>1. Objects' = pool' \cup InTable' \cup ({pkt'.obj, sweep'.obj} \ {NoObject})
      BY <2>1 DEF Places, OnePlace
    <3>2. \A x \in pool' : /\ x \notin InTable' \cup {pkt'.obj, sweep'.obj}
                           /\ ~ obj'[x].abandoned /\ obj'[x].state = "fresh"
      <4>1. \A x \in pool' : x \in Objects
        BY <2>1
      <4>2. \A x \in pool' : x \notin InTable' \cup {sweep'.obj} /\ obj'[x] = NewObject
        BY <2>1, <2>2 DEF Places, OnePlace
      <4> QED
        BY <2>1, <4>1, <4>2 DEF NewObject
    <3> QED
      BY <2>1, <3>1, <3>2 DEF Places, OnePlace
  <2> QED
    BY <2>1, <2>3 DEF Places
<1>17. CASE FreeSwept
  <2>1. /\ sweep.obj \in Objects /\ sweep.obj # NoObject /\ sweep.pc = "free" /\ sweep.obj \notin InTable
        /\ sweep.obj # pkt.obj /\ obj[sweep.obj] = NewObject /\ NoObject \notin Objects
    BY <1>17 DEF FreeSwept, Places, Holds, SweepTypes, NoObject
  <2>2. /\ UNCHANGED <<table, obj, pkt>> /\ pool' = pool \cup {sweep.obj} /\ Objects' = Objects /\ InTable' = InTable
        /\ sweep'.obj = NoObject /\ sweep'.pc = "loop"
    BY <1>17 DEF FreeSwept, tableVars, Objects, InTable, Holds, SweepTypes
  <2>3. OnePlace'
    <3>1. Objects' = pool' \cup InTable' \cup ({pkt'.obj, sweep'.obj} \ {NoObject})
      BY <2>1, <2>2 DEF Places, OnePlace
    <3>2. \A x \in pool' : /\ x \notin InTable' \cup {pkt'.obj, sweep'.obj}
                           /\ ~ obj'[x].abandoned /\ obj'[x].state = "fresh"
      <4>1. \A x \in pool' : x \in Objects
        BY <2>1, <2>2
      <4>2. \A x \in pool' : x \notin InTable' \cup {pkt'.obj} /\ obj'[x] = NewObject
        BY <2>1, <2>2 DEF Places, OnePlace
      <4> QED
        BY <2>1, <2>2, <4>1, <4>2 DEF NewObject
    <3> QED
      BY <2>1, <2>2, <3>1, <3>2 DEF Places, OnePlace
  <2>4. \A x \in pool' : obj'[x] = NewObject
    BY <2>1, <2>2 DEF Places
  <2> QED
    BY <2>1, <2>2, <2>3, <2>4 DEF Places
<1>18. CASE EraseConn
  <2> DEFINE o == table[sweep.conn]
  <2>1. /\ sweep.pc = "erase" /\ sweep.obj = NoObject /\ o # NoObject /\ o \in Objects /\ sweep.conn \in ConnId /\ o \in InTable
        /\ UNCHANGED <<pool, pkt>> /\ \A c \in ConnId : table'[c] = IF c = sweep.conn THEN NoObject ELSE table[c]
    <3>1. /\ sweep.pc = "erase" /\ UNCHANGED <<pool, pkt>> /\ table' = [table EXCEPT ![sweep.conn] = NoObject]
      BY <1>18 DEF EraseConn
    <3>2. sweep.obj = NoObject /\ o # NoObject /\ sweep.conn \in ConnId /\ table \in [ConnId -> Objects \cup {NoObject}]
      BY <3>1 DEF Holds, SweepTypes, TableTypes
    <3> QED
      BY <3>1, <3>2
  <2>2. InTable' \subseteq InTable \ {o} /\ InTable \subseteq InTable' \cup {o} /\ Objects' = Objects
    <3>1. Objects' = Objects
      <4>1. ~ CreateConn
        BY <2>1 DEF CreateConn, Unlocked
      <4> QED
        BY <4>1, ObjTypesNext
    <3>2. ASSUME NEW x \in InTable' PROVE x \in InTable \ {o}
      <4>1. PICK c \in ConnId : table'[c] = x
        BY <3>2 DEF InTable
      <4>2. x # NoObject /\ x \in Objects
        BY <3>1, <3>2 DEF InTable, NoObject
      <4>3. c # sweep.conn /\ table[c] = x
        BY <2>1, <4>1, <4>2
      <4>4. x # o
        BY <2>1, <4>2, <4>3 DEF Places, OnePlace
      <4> QED
        BY <4>2, <4>3, <4>4 DEF InTable
    <3>3. ASSUME NEW x \in InTable, x # o PROVE x \in InTable'
      <4>1. PICK c \in ConnId : table[c] = x
        BY <3>3 DEF InTable
      <4>2. c # sweep.conn /\ x \in Objects
        BY <3>3, <4>1 DEF InTable
      <4> QED
        BY <2>1, <3>1, <4>1, <4>2 DEF InTable
    <3> QED
      BY <3>1, <3>2, <3>3
  <2>3. \A c, d \in ConnId : table'[c] = table'[d] /\ table'[c] # NoObject => c = d
    BY <2>1 DEF Places, OnePlace
  <2>4. \A c \in ConnId : table'[c] = pkt'.obj /\ pkt'.obj # NoObject => c = pkt'.conn
    BY <2>1 DEF Places
  <2>5. pkt'.obj # NoObject => table'[pkt'.conn] \in {NoObject, pkt'.obj}
    BY <2>1 DEF Places, Holds, PktTypes, PktRec
  <2>6. CASE o = pkt.obj /\ sweep' = [sweep EXCEPT !.pc = "loop"] /\ UNCHANGED obj
    <3>1. sweep'.obj = NoObject /\ sweep'.pc = "loop"
      BY <2>1, <2>6 DEF Holds, SweepTypes
    <3>2. OnePlace'
      <4>1. Objects' = pool' \cup InTable' \cup ({pkt'.obj, sweep'.obj} \ {NoObject})
        BY <2>1, <2>2, <2>6, <3>1 DEF Places, OnePlace
      <4>2. \A x \in pool' : /\ x \notin InTable' \cup {pkt'.obj, sweep'.obj}
                             /\ ~ obj'[x].abandoned /\ obj'[x].state = "fresh"
        BY <2>1, <2>2, <2>6, <3>1 DEF Places, OnePlace
      <4> QED
        BY <2>3, <3>1, <4>1, <4>2 DEF OnePlace
    <3> QED
      BY <2>1, <2>2, <2>4, <2>5, <2>6, <3>1, <3>2 DEF Places
  <2>7. CASE o # pkt.obj /\ obj' = ReinitTcpConnInfo(o) /\ sweep' = [sweep EXCEPT !.pc = "free", !.obj = o]
    <3>1. sweep'.obj = o /\ sweep'.pc = "free"
      BY <2>7 DEF Holds, SweepTypes
    <3>2. obj'[o] = NewObject /\ \A x \in Objects : x # o => obj'[x] = obj[x]
      BY <2>1, <2>7, ReinitObj
    <3>3. \A x \in pool : x \in Objects /\ x # o /\ obj'[x] = obj[x]
      BY <2>1, <3>2
    <3>4. OnePlace'
      <4>1. Objects' = pool' \cup InTable' \cup ({pkt'.obj, sweep'.obj} \ {NoObject})
        BY <2>1, <2>2, <3>1 DEF Places, OnePlace
      <4>2. \A x \in pool' : /\ x \notin InTable' \cup {pkt'.obj, sweep'.obj}
                             /\ ~ obj'[x].abandoned /\ obj'[x].state = "fresh"
        BY <2>1, <2>2, <3>1, <3>3 DEF Places, OnePlace
      <4>3. sweep'.obj \notin InTable' \cup {pkt'.obj}
        BY <2>1, <2>2, <2>7, <3>1
      <4> QED
        BY <2>3, <3>1, <4>1, <4>2, <4>3 DEF OnePlace
    <3>5. pkt.pc = "free" => obj'[pkt.obj] = obj[pkt.obj]
      BY <2>7, <3>2
    <3> HIDE DEF o
    <3> QED
      BY <2>1, <2>2, <2>4, <2>5, <3>1, <3>2, <3>3, <3>4, <3>5 DEF Places
  <2> QED
    BY <1>18, <2>6, <2>7 DEF EraseConn
<1> QED
  BY <1>1, <1>2, <1>3, <1>4, <1>5, <1>6, <1>7, <1>8, <1>9, <1>10, <1>11, <1>12, <1>13, <1>14, <1>15, <1>16, <1>17, <1>18
  DEF Next, PktThread, GetTcpConnInfo, TimerThread

-----------------------------------------------------------------------------
(* How old the connections are. *)

LEMMA InitAges == Init => Ages
BY MonitorAssumption, IdleTypes, IdleIs DEF Init, Ages, Present, Unlocked, Locked, NoObject

(* Steps that change no table and no age, of a packet or of the sweep.     *)
LEMMA AgesFrame ==
  ASSUME Holds, Ages, UNCHANGED <<table, last>>,
         pkt'.obj = NoObject \/ (pkt'.obj = pkt.obj /\ pkt'.conn = pkt.conn /\ pkt'.stall = pkt.stall),
         Unlocked' => sweep'.lag = 0,
         Locked' => sweep'.lag = 0 \/ (Locked /\ sweep'.lag = sweep.lag)
  PROVE  Ages'
<1>1. Present' = Present /\ \A c \in ConnId : last[c] >= 0
  BY DEF Present, Holds, TableTypes
<1>2. Locked' => \A c \in Present : last[c] >= sweep'.lag
  BY <1>1 DEF Ages, Present
<1> QED
  BY <1>1, <1>2 DEF Ages

LEMMA AgesNext ==
  ASSUME Holds, Places, Ages, [Next]_vars
  PROVE  Ages'
<1> USE DEF Step, tableVars
<1>1. CASE UNCHANGED vars
  BY <1>1, AgesFrame DEF vars, Ages, Unlocked, Locked
<1>2. ASSUME NEW c \in ConnId, NEW end \in BOOLEAN, Arrive(c, end) PROVE Ages'
  <2>1. pkt'.obj = NoObject
    BY <1>2, IdleIs DEF Arrive
  <2> QED
    BY <1>2, <2>1, AgesFrame DEF Arrive, Ages, Unlocked, Locked
<1>3. CASE IgnoreEnd \/ DropReference \/ FreeObject
  <2>1. pkt'.obj = NoObject \/ (pkt'.obj = pkt.obj /\ pkt'.conn = pkt.conn /\ pkt'.stall = pkt.stall)
    BY <1>3, IdleTypes DEF IgnoreEnd, DropReference, FreeObject, Holds, PktTypes, PktRec
  <2> QED
    BY <1>3, <2>1, AgesFrame DEF IgnoreEnd, DropReference, FreeObject, Ages, Unlocked, Locked
<1>4. CASE CheckAbandoned \/ Analyze \/ AbandonTcpConnection \/ PassUp \/ HttpRequest \/ HttpData \/ HttpSession
  <2>1. Keeps
    BY <1>4, PktKeeps
  <2>2. UNCHANGED <<table, last, sweep>>
    BY <1>4 DEF CheckAbandoned, Analyze, AbandonTcpConnection, PassUp, HttpRequest, HttpData, HttpSession
  <2> QED
    BY <2>1, <2>2, AgesFrame DEF Keeps, Ages, Unlocked, Locked
<1>5. CASE TimerStart
  BY <1>5, AgesFrame DEF TimerStart, Ages, Unlocked, Locked
<1>6. CASE OnTick \/ SweepDone
  <2>1. sweep'.lag = 0
    BY <1>6, IdleIs DEF OnTick, SweepDone
  <2> QED
    BY <1>6, <2>1, AgesFrame DEF OnTick, SweepDone
<1>7. CASE LockTable
  <2>1. sweep'.lag = 0
    BY <1>7 DEF LockTable, Ages, Unlocked, Holds, SweepTypes
  <2> QED
    BY <1>7, <2>1, AgesFrame DEF LockTable
<1>8. CASE RecordConnTimeout \/ TellHttp \/ FreeSwept
  <2>1. sweep \in [pc : SweepSteps, lag : 0 .. MaxStall, conn : ConnId, obj : Objects \cup {NoObject}]
    BY DEF Holds, SweepTypes
  <2>2. Locked /\ sweep'.lag = sweep.lag /\ sweep'.pc \in {"tell", "erase", "loop"} /\ UNCHANGED <<table, last, pkt>>
    <3>1. CASE RecordConnTimeout
      <4>1. PICK c \in Oldest : sweep' = [sweep EXCEPT !.pc = "tell", !.conn = c]
        BY <3>1 DEF RecordConnTimeout
      <4> QED
        BY <2>1, <3>1, <4>1 DEF RecordConnTimeout, Locked, Unlocked
    <3>2. CASE TellHttp \/ FreeSwept
      BY <2>1, <3>2 DEF TellHttp, FreeSwept, Locked, Unlocked
    <3> QED
      BY <1>8, <3>1, <3>2
  <2>3. Locked' /\ ~ Unlocked'
    BY <2>2 DEF Locked, Unlocked
  <2> QED
    BY <2>2, <2>3, AgesFrame
<1>9. CASE FindConn \/ CreateConn
  <2>1. Unlocked /\ sweep' = sweep /\ pkt.conn \in ConnId /\ pkt.stall \in 0 .. MaxStall /\ last' = [last EXCEPT ![pkt.conn] = pkt.stall]
    BY <1>9 DEF FindConn, CreateConn, Holds, PktTypes, PktRec
  <2>2. pkt'.conn = pkt.conn /\ pkt'.stall = pkt.stall
    <3>1. CASE FindConn
      BY <3>1 DEF FindConn, Holds, PktTypes, PktRec
    <3>2. CASE CreateConn
      <4>1. PICK o \in Objects' : pkt' = [pkt EXCEPT !.pc = "check", !.obj = o]
        BY <3>2, CreateObj
      <4> QED
        BY <4>1 DEF Holds, PktTypes, PktRec
    <3> QED
      BY <1>9, <3>1, <3>2
  <2>3. last'[pkt.conn] = pkt.stall
    BY <2>1 DEF Holds, TableTypes
  <2>4. last'[pkt'.conn] <= pkt'.stall
    BY <2>1, <2>2, <2>3
  <2> QED
    BY <2>1, <2>4 DEF Ages, Locked, Unlocked
<1>10. CASE RemoveTcpConnection
  <2>1. Keeps /\ pkt.obj # NoObject /\ pkt.conn \in ConnId
    BY <1>10, PktKeeps DEF Keeps, Holds, PktTypes, PktRec
  <2>2. Unlocked /\ sweep' = sweep /\ table'[pkt.conn] = NoObject
    BY <1>10, <2>1 DEF RemoveTcpConnection, Holds, TableTypes
  <2> QED
    BY <2>1, <2>2 DEF Ages, Keeps, Locked, Unlocked
<1>11. CASE EraseConn
  <2>1. /\ sweep.pc = "erase" /\ sweep.conn \in ConnId /\ pkt' = pkt
        /\ \A c \in ConnId : table'[c] = IF c = sweep.conn THEN NoObject ELSE table[c]
        /\ \A c \in ConnId : c # sweep.conn => last'[c] = last[c]
    BY <1>11 DEF EraseConn, Holds, SweepTypes, TableTypes
  <2>2. sweep'.lag = sweep.lag /\ sweep'.pc \in {"loop", "free"}
    BY <1>11 DEF EraseConn, Holds, SweepTypes
  <2>3. Locked /\ Locked' /\ ~ Unlocked'
    BY <2>1, <2>2 DEF Locked, Unlocked
  <2>4. \A c \in Present' : last'[c] >= sweep'.lag
    BY <2>1, <2>2, <2>3 DEF Present, Ages
  <2>5. pkt'.obj # NoObject /\ table'[pkt'.conn] = pkt'.obj => last'[pkt'.conn] <= pkt'.stall
    BY <2>1 DEF Ages, Holds, PktTypes, PktRec
  <2> QED
    BY <2>3, <2>4, <2>5 DEF Ages
<1>12. CASE TimePasses
  <2>1. /\ pkt'.obj = pkt.obj /\ pkt'.conn = pkt.conn /\ pkt.conn \in ConnId /\ pkt.stall \in Nat /\ table' = table
        /\ pkt.obj # NoObject => pkt'.stall = pkt.stall + 1
    BY <1>12 DEF TimePasses, Holds, PktTypes, PktRec
  <2>2. sweep'.pc = sweep.pc /\ sweep.lag \in Nat /\ sweep'.lag = IF Locked THEN sweep.lag + 1 ELSE 0
    BY <1>12 DEF TimePasses, Holds, SweepTypes
  <2>3. /\ (Unlocked' <=> Unlocked) /\ (Locked' <=> Locked) /\ (Unlocked <=> ~ Locked) /\ Present' = Present
        /\ Locked => sweep.lag < MaxStall
    BY <1>12, <2>1, <2>2 DEF Unlocked, Locked, Present, TimePasses
  <2>4. /\ MaxAge \in Nat /\ MaxAge >= MaxStall /\ MaxStall \in Nat
        /\ \A c \in ConnId : last[c] \in 0 .. MaxAge
    BY MonitorAssumption DEF MaxAge, Holds, TableTypes
  <2>5. \A c \in ConnId : last'[c] = IF table[c] # NoObject /\ last[c] < MaxAge THEN last[c] + 1 ELSE last[c]
    BY <1>12 DEF TimePasses
  <2>6. ASSUME Locked, NEW c \in Present PROVE last'[c] >= sweep.lag + 1
    <3>1. c \in ConnId /\ table[c] # NoObject /\ last[c] >= sweep.lag
      BY <2>6 DEF Present, Ages
    <3>2. CASE last[c] < MaxAge
      BY <2>2, <2>4, <2>5, <3>1, <3>2
    <3>3. CASE last[c] = MaxAge
      BY <2>2, <2>3, <2>4, <2>5, <2>6, <3>1, <3>3
    <3> QED
      BY <2>4, <3>1, <3>2, <3>3
  <2>7. pkt'.obj # NoObject /\ table'[pkt'.conn] = pkt'.obj => last'[pkt'.conn] <= pkt'.stall
    <3>1. SUFFICES ASSUME pkt.obj # NoObject, table[pkt.conn] = pkt.obj PROVE last'[pkt.conn] <= pkt.stall + 1
      BY <2>1
    <3>2. last[pkt.conn] <= pkt.stall
      BY <3>1 DEF Ages
    <3> QED
      BY <2>1, <2>4, <2>5, <3>2
  <2> QED
    BY <2>2, <2>3, <2>6, <2>7 DEF Ages
<1> QED
  BY <1>1, <1>2, <1>3, <1>4, <1>5, <1>6, <1>7, <1>8, <1>9, <1>10, <1>11, <1>12
  DEF Next, PktThread, GetTcpConnInfo, TimerThread

-----------------------------------------------------------------------------
(* What has been told of the end of a connection. *)

LEMMA InitEnds == Init => Ends
BY IdleIs DEF Init, Ends, SessionsGone, ClosedHeld, TimedOutUnheld, SessionHasConn, Objects

(* The packet in hand keeps its object, finds one under the lock, or gives *)
(* it back; it does not forget that it is to remove a connection.          *)
LEMMA PktMoves ==
  ASSUME Holds, Places, [Next]_vars
  PROVE  \/ pkt'.obj = pkt.obj /\ (pkt.pc = "remove" => pkt'.pc = "remove" \/ RemoveTcpConnection)
         \/ pkt.obj = NoObject /\ Unlocked
         \/ pkt'.obj = NoObject /\ pkt.pc # "remove" /\ (pkt.obj \in InTable \/ obj[pkt.obj] = NewObject)
<1>1. CASE UNCHANGED pkt
  BY <1>1
<1>2. ASSUME NEW c \in ConnId, NEW end \in BOOLEAN, Arrive(c, end) PROVE pkt'.obj = pkt.obj /\ pkt.pc # "remove"
  BY <1>2, IdleIs DEF Arrive, Holds, PktTypes
<1>3. CASE FindConn \/ CreateConn
  BY <1>3 DEF FindConn, CreateConn, Holds, PktTypes
<1>4. CASE IgnoreEnd
  BY <1>4, IdleTypes DEF IgnoreEnd, Holds, PktTypes
<1>5. CASE CheckAbandoned \/ Analyze \/ AbandonTcpConnection \/ PassUp \/ HttpRequest \/ HttpData \/ HttpSession
  <2>1. pkt'.obj = pkt.obj
    BY <1>5, PktKeeps DEF Keeps
  <2> QED
    BY <1>5, <2>1 DEF CheckAbandoned, Analyze, AbandonTcpConnection, PassUp, HttpRequest, HttpData, HttpSession, Step
<1>6. CASE RemoveTcpConnection
  BY <1>6, PktKeeps DEF Keeps
<1>7. CASE DropReference
  BY <1>7, IdleTypes DEF DropReference, Holds, PktTypes, PktRec
<1>8. CASE FreeObject
  BY <1>8, IdleTypes DEF FreeObject, Places
<1>9. CASE TimePasses
  BY <1>9 DEF TimePasses, Holds, PktTypes, PktRec
<1> QED
  BY <1>1, <1>2, <1>3, <1>4, <1>5, <1>6, <1>7, <1>8, <1>9
  DEF Next, PktThread, GetTcpConnInfo, TimerThread, TimerStart, OnTick, LockTable, RecordConnTimeout, SweepDone,
      TellHttp, EraseConn, FreeSwept, vars

(* No step but the insertion puts an object into the table.                *)
LEMMA TableMoves ==
  ASSUME Holds, [Next]_vars
  PROVE  \/ CreateConn /\ pkt.obj = NoObject
         \/ \A c \in ConnId : table'[c] \in {table[c], NoObject}
<1>1. CASE UNCHANGED table
  BY <1>1
<1>2. CASE CreateConn
  BY <1>2 DEF CreateConn, Holds, PktTypes
<1>3. CASE RemoveTcpConnection
  BY <1>3 DEF RemoveTcpConnection, Holds, TableTypes, NoObject
<1>4. CASE EraseConn
  BY <1>4 DEF EraseConn, Holds, TableTypes, NoObject
<1> QED
  BY <1>1, <1>2, <1>3, <1>4
  DEF Next, Arrive, PktThread, GetTcpConnInfo, FindConn, IgnoreEnd, CheckAbandoned, Analyze, AbandonTcpConnection, PassUp,
      HttpRequest, HttpData, HttpSession, DropReference, FreeObject, TimerThread, TimerStart, OnTick, LockTable,
      RecordConnTimeout, SweepDone, TellHttp, FreeSwept, TimePasses, vars, tableVars

(* While the sweep ends a connection it stays at it, and nobody else takes *)
(* that one out of the table.                                              *)
LEMMA SweepMoves ==
  ASSUME Holds, [Next]_vars, sweep.pc \in {"tell", "erase"}, ~ EraseConn
  PROVE  sweep'.pc \in {"tell", "erase"} /\ sweep'.conn = sweep.conn /\ table'[sweep.conn] = table[sweep.conn]
<1>1. ~ Unlocked /\ sweep.conn \in ConnId /\ timer.thread = "tick"
  BY DEF Unlocked, Holds, SweepTypes
<1>2. CASE UNCHANGED <<sweep, table>>
  BY <1>2
<1>3. CASE TellHttp \/ TimePasses
  BY <1>3 DEF TellHttp, TimePasses, tableVars, Holds, SweepTypes
<1> QED
  BY <1>1, <1>2, <1>3
  DEF Next, Arrive, PktThread, GetTcpConnInfo, FindConn, IgnoreEnd, CreateConn, CheckAbandoned, Analyze,
      AbandonTcpConnection, RemoveTcpConnection, PassUp, HttpRequest, HttpData, HttpSession, DropReference, FreeObject,
      TimerThread, TimerStart, OnTick, Expire, LockTable, RecordConnTimeout, SweepDone, FreeSwept, vars, tableVars

(* Nothing is recorded of the end of a connection but by the analyzer and  *)
(* by the sweep.                                                           *)
LEMMA EventsStay ==
  ASSUME Holds, [Next]_vars, ~ Analyze, ~ RecordConnTimeout
  PROVE  \A o \in Objects' : obj'[o].events = {} \/ (o \in Objects /\ obj'[o].events = obj[o].events)
<1>1. CASE UNCHANGED obj
  BY <1>1 DEF Objects
<1>2. CASE CreateConn
  <2>1. ASSUME NEW o \in Objects' PROVE obj'[o].events = {} \/ (o \in Objects /\ obj'[o].events = obj[o].events)
    <3>1. CASE o \in Objects
      BY <1>2, <3>1, CreateObj
    <3>2. CASE o \notin Objects
      <4>1. obj'[o] = NewObject
        BY <1>2, <3>2, CreateObj
      <4> QED
        BY <4>1 DEF NewObject
    <3> QED
      BY <3>1, <3>2
  <2> QED
    BY <2>1
<1>3. CASE CheckAbandoned
  BY <1>3, CheckAbandonedObj
<1>4. CASE AbandonTcpConnection
  BY <1>4, AbandonObj
<1>5. CASE DropReference
  <2>1. pkt.obj \in Objects
    BY <1>5 DEF DropReference, Holds, PktTypes
  <2>2. CASE obj' = ReinitTcpConnInfo(pkt.obj)
    <3>1. Objects' = Objects /\ obj'[pkt.obj] = NewObject /\ \A x \in Objects : x # pkt.obj => obj'[x] = obj[x]
      BY <2>1, <2>2, ReinitObj
    <3> QED
      BY <3>1 DEF NewObject
  <2> QED
    BY <1>1, <1>5, <2>2 DEF DropReference
<1>6. CASE EraseConn
  <2>1. table[sweep.conn] \in Objects
    BY <1>6 DEF EraseConn, Holds, SweepTypes, TableTypes
  <2>2. CASE obj' = ReinitTcpConnInfo(table[sweep.conn])
    <3>1. /\ Objects' = Objects /\ obj'[table[sweep.conn]] = NewObject
          /\ \A x \in Objects : x # table[sweep.conn] => obj'[x] = obj[x]
      BY <2>1, <2>2, ReinitObj
    <3> QED
      BY <3>1 DEF NewObject
  <2> QED
    BY <1>1, <1>6, <2>2 DEF EraseConn
<1> QED
  BY <1>1, <1>2, <1>3, <1>4, <1>5, <1>6
  DEF Next, PktThread, GetTcpConnInfo, TimerThread, Arrive, TimePasses, vars,
      FindConn, IgnoreEnd, RemoveTcpConnection, PassUp, HttpRequest, HttpData, HttpSession, FreeObject,
      TimerStart, OnTick, LockTable, SweepDone, TellHttp, FreeSwept

(* A connection is out of the table before the packet that closed it is    *)
(* through, and its object as new before anyone else gets it.              *)
LEMMA ClosedHeldNext ==
  ASSUME Holds, Places, ClosedHeld, [Next]_vars
  PROVE  ClosedHeld'
<1> SUFFICES ASSUME NEW o \in Objects', "close" \in obj'[o].events
             PROVE  o = pkt'.obj /\ (pkt'.pc = "remove" \/ o \notin InTable')
  BY DEF ClosedHeld
<1>1. CASE Analyze
  <2>1. pkt'.obj = pkt.obj /\ table' = table /\ Objects' = Objects /\ pkt.pc = "proc"
    BY <1>1, PktKeeps, AnalyzeObj DEF Keeps, Analyze, tableVars
  <2>2. "close" \in obj[o].events \/ pkt'.pc = "remove"
    BY <1>1, <2>1, AnalyzeObj
  <2>3. o = pkt.obj
    BY <1>1, <2>1, AnalyzeObj DEF ClosedHeld
  <2>4. InTable' = InTable
    BY <2>1 DEF InTable
  <2> QED
    BY <2>1, <2>2, <2>3, <2>4 DEF ClosedHeld
<1>2. CASE RecordConnTimeout
  <2>1. pkt' = pkt /\ table' = table /\ Objects' = Objects
    BY <1>2, RecordObj DEF RecordConnTimeout, tableVars
  <2>2. "close" \in obj[o].events
    BY <1>2, <2>1, RecordObj
  <2>3. InTable' = InTable
    BY <2>1 DEF InTable
  <2> QED
    BY <2>1, <2>2, <2>3 DEF ClosedHeld
<1>3. CASE ~ Analyze /\ ~ RecordConnTimeout
  <2>1. o \in Objects /\ "close" \in obj[o].events
    BY <1>3, EventsStay
  <2>2. o = pkt.obj /\ (pkt.pc = "remove" \/ o \notin InTable) /\ o # NoObject /\ obj[o] # NewObject
    BY <2>1 DEF ClosedHeld, NewObject, Holds, ObjTypes, NoObject
  <2>3. pkt'.obj = pkt.obj /\ (pkt.pc = "remove" => pkt'.pc = "remove" \/ RemoveTcpConnection)
    BY <2>2, PktMoves
  <2>4. \A c \in ConnId : table'[c] \in {table[c], NoObject}
    BY <2>2, TableMoves
  <2>5. CASE RemoveTcpConnection
    <3>1. pkt.conn \in ConnId /\ table'[pkt.conn] = NoObject
      BY <2>5 DEF RemoveTcpConnection, Holds, PktTypes, PktRec, TableTypes
    <3>2. \A c \in ConnId : table'[c] # o
      BY <2>2, <2>4, <3>1 DEF Places
    <3> QED
      BY <2>2, <2>3, <3>2 DEF InTable
  <2>6. CASE o \notin InTable
    <3>1. \A c \in ConnId : table'[c] # o
      BY <2>1, <2>2, <2>4, <2>6 DEF InTable
    <3> QED
      BY <2>2, <2>3, <3>1 DEF InTable
  <2> QED
    BY <2>2, <2>3, <2>5, <2>6
<1> QED
  BY <1>1, <1>2, <1>3

(* The sweep records a timeout of an object in hand only if its packet has *)
(* taken that long.                                                        *)
LEMMA TimedOutUnheldNext ==
  ASSUME Holds, Places, Ages, TimedOutUnheld, [Next]_vars
  PROVE  TimedOutUnheld'
<1> SUFFICES ASSUME NEW o \in Objects', "timeout" \in obj'[o].events, "stalled" \notin obj'[o].events
             PROVE  sweep'.pc \in {"tell", "erase"} /\ o = table'[sweep'.conn] /\ o # pkt'.obj
  BY DEF TimedOutUnheld
<1>1. CASE RecordConnTimeout
  <2>1. pkt' = pkt /\ table' = table /\ Objects' = Objects /\ sweep.pc = "loop" /\ sweep'.pc = "tell"
    BY <1>1, RecordObj DEF RecordConnTimeout, tableVars
  <2>2. o = table[sweep'.conn]
    BY <1>1, <2>1, RecordObj DEF TimedOutUnheld
  <2>3. CASE o = pkt.obj
    <3>1. pkt.conn = sweep'.conn /\ sweep'.conn \in ConnId /\ pkt.obj # NoObject
      BY <1>1, <2>2, <2>3, RecordObj DEF Places, Present
    <3>2. last[sweep'.conn] <= pkt.stall /\ last[sweep'.conn] - sweep.lag >= ConnTimeout
      BY <1>1, <2>2, <2>3, <3>1, RecordObj DEF Ages, TimedOut
    <3>3. last[sweep'.conn] \in Nat /\ pkt.stall \in Nat /\ sweep.lag \in Nat /\ ConnTimeout \in Nat
      BY <3>1, MonitorAssumption DEF Holds, TableTypes, PktTypes, PktRec, SweepTypes
    <3>4. pkt.stall >= ConnTimeout
      BY <3>2, <3>3
    <3> QED
      BY <1>1, <2>2, <2>3, <3>4, RecordObj
  <2> QED
    BY <2>1, <2>2, <2>3
<1>2. CASE Analyze
  <2>1. pkt'.obj = pkt.obj /\ table' = table /\ Objects' = Objects /\ sweep' = sweep
    BY <1>2, PktKeeps, AnalyzeObj DEF Keeps, Analyze, tableVars
  <2>2. "timeout" \in obj[o].events /\ "stalled" \notin obj[o].events
    BY <1>2, <2>1, AnalyzeObj
  <2> QED
    BY <2>1, <2>2 DEF TimedOutUnheld
<1>3. CASE ~ Analyze /\ ~ RecordConnTimeout
  <2>1. o \in Objects /\ "timeout" \in obj[o].events /\ "stalled" \notin obj[o].events
    BY <1>3, EventsStay
  <2>2. sweep.pc \in {"tell", "erase"} /\ o = table[sweep.conn] /\ o # pkt.obj /\ o # NoObject /\ ~ Unlocked
    BY <2>1 DEF TimedOutUnheld, Holds, ObjTypes, NoObject, Unlocked
  <2>3. ~ EraseConn
    <3>1. SUFFICES ASSUME EraseConn PROVE FALSE
      OBVIOUS
    <3>2. obj' = ReinitTcpConnInfo(o)
      BY <2>2, <3>1 DEF EraseConn
    <3>3. obj'[o] = NewObject
      BY <2>1, <3>2, ReinitObj
    <3> QED
      BY <3>3 DEF NewObject
  <2>4. sweep'.pc \in {"tell", "erase"} /\ o = table'[sweep'.conn]
    BY <2>2, <2>3, SweepMoves
  <2>5. o # pkt'.obj
    BY <2>2, PktMoves
  <2> QED
    BY <2>4, <2>5
<1> QED
  BY <1>1, <1>2, <1>3

LEMMA EndsOneEnd == ASSUME Holds, Ends PROVE OneEnd
BY DEF Ends, ClosedHeld, TimedOutUnheld, OneEnd

(* The sweep comes to erase a connection only by telling HttpMonitor.      *)
LEMMA EraseFrom ==
  ASSUME Holds, [Next]_vars, ~ TellHttp, sweep'.pc = "erase"
  PROVE  /\ sweep.pc = "erase" /\ sweep'.conn = sweep.conn /\ table'[sweep.conn] = table[sweep.conn]
         /\ pkt'.obj \in {pkt.obj, NoObject} \/ ~ Places
<1>1. ~ OnTick /\ ~ SweepDone
  BY IdleIs DEF OnTick, SweepDone
<1>2. ~ LockTable /\ ~ RecordConnTimeout /\ ~ EraseConn /\ ~ FreeSwept
  <2>1. ~ RecordConnTimeout
    BY RecordObj
  <2>2. ~ LockTable /\ ~ EraseConn /\ ~ FreeSwept
    BY DEF LockTable, EraseConn, FreeSwept, Holds, SweepTypes
  <2> QED
    BY <2>1, <2>2
<1>3. sweep.pc = "erase"
  <2>1. CASE TimePasses
    BY <2>1 DEF TimePasses, Holds, SweepTypes
  <2>2. CASE UNCHANGED sweep
    BY <2>2
  <2> QED
    BY <1>1, <1>2, <2>1, <2>2
    DEF Next, Arrive, PktThread, GetTcpConnInfo, FindConn, IgnoreEnd, CreateConn, CheckAbandoned, Analyze,
        AbandonTcpConnection, RemoveTcpConnection, PassUp, HttpRequest, HttpData, HttpSession, DropReference, FreeObject,
        TimerThread, TimerStart, vars
<1>4. ~ Unlocked
  BY <1>3 DEF Unlocked
<1> QED
  BY <1>2, <1>3, <1>4, SweepMoves, PktMoves

(* A connection leaves the table with its session, or its session is       *)
(* excused.                                                                *)
LEMMA SessionsGoneNext ==
  ASSUME Holds, Places, SessionsGone, [Next]_vars
  PROVE  SessionsGone'
<1> USE DEF Step, tableVars
<1>1. table \in [ConnId -> Objects \cup {NoObject}] /\ pkt.conn \in ConnId /\ sweep.conn \in ConnId /\ sessions \subseteq ConnId
  BY DEF Holds, TableTypes, PktTypes, PktRec, SweepTypes
<1>2. CASE UNCHANGED <<table, sessions, late>> /\ ~ TellHttp
  <2>1. SessionHasConn'
    BY <1>2 DEF SessionsGone, SessionHasConn
  <2>2. ASSUME sweep'.pc = "erase"
        PROVE  sweep'.conn \notin sessions' \ late' /\ (table'[sweep'.conn] = pkt'.obj => sweep'.conn \in late')
    <3>1. /\ sweep.pc = "erase" /\ sweep'.conn = sweep.conn /\ table[sweep.conn] # NoObject
          /\ pkt'.obj \in {pkt.obj, NoObject}
      BY <1>2, <2>2, EraseFrom DEF Holds, SweepTypes
    <3> QED
      BY <1>2, <3>1 DEF SessionsGone
  <2> QED
    BY <2>1, <2>2 DEF SessionsGone
<1>3. CASE CreateConn
  <2>1. PICK o \in Objects' : table' = [table EXCEPT ![pkt.conn] = o]
    BY <1>3, CreateObj
  <2>2. o # NoObject
    <3>1. Holds'
      BY HoldsNext
    <3> QED
      BY <3>1 DEF Holds, ObjTypes, NoObject
  <2>3. sweep' = sweep /\ sweep.pc # "erase" /\ sessions' = sessions /\ late' = late \ {pkt.conn}
    BY <1>3 DEF CreateConn, Unlocked
  <2>4. \A c \in ConnId : table'[c] = IF c = pkt.conn THEN o ELSE table[c]
    BY <1>1, <2>1
  <2> QED
    BY <1>1, <2>2, <2>3, <2>4 DEF SessionsGone, SessionHasConn
<1>4. CASE RemoveTcpConnection
  <2>1. /\ sweep' = sweep /\ sweep.pc # "erase" /\ late' = late
        /\ sessions' = IF table[pkt.conn] = NoObject THEN sessions ELSE sessions \ {pkt.conn}
    BY <1>4 DEF RemoveTcpConnection, Unlocked
  <2>2. \A c \in ConnId : table'[c] = IF c = pkt.conn THEN NoObject ELSE table[c]
    BY <1>1, <1>4 DEF RemoveTcpConnection
  <2> QED
    BY <1>1, <2>1, <2>2 DEF SessionsGone, SessionHasConn
<1>5. CASE HttpRequest
  <2>1. /\ table' = table /\ sweep' = sweep /\ sessions' = sessions \cup {pkt.conn} /\ pkt'.obj = pkt.obj /\ pkt.obj # NoObject
        /\ late' = IF table[pkt.conn] = pkt.obj THEN late ELSE late \cup {pkt.conn}
    BY <1>5, PktKeeps DEF HttpRequest, Keeps, Holds, PktTypes
  <2>2. SessionHasConn'
    BY <1>1, <2>1 DEF SessionsGone, SessionHasConn
  <2> QED
    BY <1>1, <2>1, <2>2 DEF SessionsGone
<1>6. CASE HttpSession
  <2>1. table' = table /\ sweep' = sweep /\ sessions' \subseteq sessions /\ pkt'.obj = pkt.obj /\ late' = late
    BY <1>6, PktKeeps DEF HttpSession, Keeps
  <2> QED
    BY <2>1 DEF SessionsGone, SessionHasConn
<1>7. CASE TellHttp
  <2>1. /\ table' = table /\ sweep'.conn = sweep.conn /\ sessions' = sessions \ {sweep.conn} /\ pkt' = pkt
        /\ late' = late \cup {c \in {sweep.conn} : table[c] = pkt.obj}
    BY <1>7 DEF TellHttp, Holds, SweepTypes
  <2> QED
    BY <2>1 DEF SessionsGone, SessionHasConn
<1>8. CASE EraseConn
  <2>1. sweep.pc = "erase" /\ sessions' = sessions /\ late' = late /\ sweep'.pc # "erase"
    BY <1>8 DEF EraseConn, Holds, SweepTypes
  <2>2. \A c \in ConnId : c # sweep.conn => table'[c] = table[c]
    BY <1>1, <1>8 DEF EraseConn
  <2> QED
    BY <1>1, <2>1, <2>2 DEF SessionsGone, SessionHasConn
<1> QED
  BY <1>2, <1>3, <1>4, <1>5, <1>6, <1>7, <1>8
  DEF Next, Arrive, PktThread, GetTcpConnInfo, FindConn, IgnoreEnd, CheckAbandoned, Analyze, AbandonTcpConnection, PassUp,
      HttpData, DropReference, FreeObject, TimerThread, TimerStart, OnTick, LockTable, RecordConnTimeout, SweepDone,
      FreeSwept, TimePasses, vars

-----------------------------------------------------------------------------
(* The theorems. *)

Invariant == Holds /\ Places /\ Ages /\ Ends

(* The four layers are an inductive invariant of TcpMonitor.               *)
THEOREM Inductive == Spec => []Invariant
<1>1. Init => Invariant
  BY InitHolds, InitPlaces, InitAges, InitEnds DEF Invariant
<1>2. Invariant /\ [Next]_vars => Invariant'
  BY HoldsNext, PlacesNext, AgesNext, SessionsGoneNext, ClosedHeldNext, TimedOutUnheldNext DEF Invariant, Ends
<1> QED
  BY <1>1, <1>2, PTL DEF Spec

(* What the threads and the table hold is always of its type.              *)
THEOREM TypeCorrect == Spec => []TypeOK
<1>1. Invariant => TypeOK
  BY HoldsTypeOK DEF Invariant
<1> QED
  BY <1>1, Inductive, PTL

(* Between AllocObject and FreeObject an object has one owner: however     *)
(* many connections there are, and wherever the two threads are in their   *)
(* work, none is given out twice, lost, or given back with a trace of its  *)
(* connection in it.                                                       *)
THEOREM ObjectHasOnePlace == Spec => []OnePlace
<1>1. Invariant => OnePlace
  BY DEF Invariant, Places
<1> QED
  BY <1>1, Inductive, PTL

(* TMAS_ASSERT(time_now >= last_pkt_in) of ClearTimeoutConns never fails,  *)
(* whatever the delays of either thread.                                   *)
THEOREM ClockNotReversed == Spec => []NoTimeReversal
<1>1. Invariant => NoTimeReversal
  BY DEF Invariant, Ages, NoTimeReversal, Locked, Unlocked
<1> QED
  BY <1>1, Inductive, PTL

(* HTTP sessions go with their connections, whichever thread ends them,    *)
(* but for the payload that goes up after the end.                         *)
THEOREM SessionsEnd == Spec => []SessionHasConn
<1>1. Invariant => SessionHasConn
  BY DEF Invariant, Ends, SessionsGone
<1> QED
  BY <1>1, Inductive, PTL

(* The record of a connection says that it closed or that it timed out,    *)
(* never both, unless its last packet took as long as the timeout.         *)
THEOREM EndsOnce == Spec => []OneEnd
<1>1. Invariant => OneEnd
  BY EndsOneEnd DEF Invariant
<1> QED
  BY <1>1, Inductive, PTL
=============================================================================
