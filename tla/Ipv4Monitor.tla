----------------------------- MODULE Ipv4Monitor -----------------------------
(***************************************************************************)
(* Ipv4Monitor: the table of reassemblers, which the processing thread of  *)
(* a receiver looks up, fills and empties, and which the thread of         *)
(* frag_timer_ empties as well.  reassembler_mutex_ is commented out       *)
(* everywhere, so the two interleave; each operation on the container is   *)
(* taken to be atomic, which the code does not ensure.                     *)
(*                                                                         *)
(* last_frag_in is 0 in every entry and stays 0, so whether the timer      *)
(* finds an entry too old depends on its clock alone.                      *)
(***************************************************************************)
EXTENDS Ipv4FragReassembler, FreeTimer

CONSTANTS
  PktIdx,     \* Ipv4PktIdx: addresses, identification, protocol
  Frags,      \* the fragments on the wire of each packet
  MaxIn,      \* bound: how many of them arrive, repeats included
  NoReassembler

Fragment == [off : 0 .. MaxPktLen, len : 0 .. MaxPktLen, mf : BOOLEAN]

(* DoInsertPktFrag trims an element on the left of the incoming fragment   *)
(* at a position counted from the start of the packet: it is only in place *)
(* for the element that starts the packet, and may throw for others.       *)
LeftOverlap(f, g) == f.off < g.off /\ g.off < f.off + f.len /\ f.off + f.len < g.off + g.len

ASSUME MonitorAssumption ==
  /\ Frags \in [PktIdx -> SUBSET Fragment] /\ MaxIn \in [PktIdx -> Nat]
  /\ \A i \in PktIdx : \A f, g \in Frags[i] : LeftOverlap(f, g) => f.off = 0

VARIABLES
  table,   \* reassemblers_
  in,      \* how many fragments of each packet have arrived
  pkt,     \* the processing thread: its place, the fragment, and the
           \* reassembler it holds, in the table or not
  sweep    \* the timer's thread in OnTick: rest, clock, loop

vars == <<table, in, pkt, sweep, timer>>

Idle == [pc |-> "idle", idx |-> CHOOSE i \in PktIdx : TRUE,
         frag |-> [off |-> 0, len |-> 0, mf |-> FALSE], held |-> NoReassembler]

Init ==
  /\ TimerInit
  /\ table = [i \in PktIdx |-> NoReassembler]
  /\ in = [i \in PktIdx |-> 0]
  /\ pkt = Idle /\ sweep = "rest"

Present == {i \in PktIdx : table[i] # NoReassembler}

-----------------------------------------------------------------------------
(* The processing thread. *)

(* DoProcessMsg got a fragment: IncommingPktFrag. *)
Arrive(i, f) ==
  /\ pkt.pc = "idle" /\ in[i] < MaxIn[i]
  /\ pkt' = [Idle EXCEPT !.pc = "get", !.idx = i, !.frag = f]
  /\ in' = [in EXCEPT ![i] = @ + 1]
  /\ UNCHANGED <<table, sweep, timer>>

(* Mutant: a reassembler that could not be inserted is used all the same. *)
GetFragReassemblerNew ==
  /\ pkt.pc = "get"
  /\ table' = [table EXCEPT ![pkt.idx] = IF @ = NoReassembler THEN NewReassembler ELSE @]
  /\ pkt' = [pkt EXCEPT !.pc = "process", !.held = NewReassembler]
  /\ UNCHANGED <<in, sweep, timer>>

(* The reassembler is found, or a new one inserted. *)
GetFragReassembler ==
  /\ pkt.pc = "get"
  /\ LET r == IF pkt.idx \in Present THEN table[pkt.idx] ELSE NewReassembler IN
       /\ table' = [table EXCEPT ![pkt.idx] = r]
       /\ pkt' = [pkt EXCEPT !.pc = "process", !.held = r]
  /\ UNCHANGED <<in, sweep, timer>>

(* ProcessFragPkt.  Nobody else inserts, so an entry of that index is the  *)
(* reassembler the thread holds; the timer may have erased it.  When       *)
(* InsertPktFrag refuses the fragment, completion is not looked at.        *)
ProcessFragPkt ==
  /\ pkt.pc = "process"
  /\ LET r == InsertPktFrag(pkt.held, pkt.frag) IN
       /\ table' = [table EXCEPT ![pkt.idx] = IF @ = NoReassembler THEN @ ELSE r]
       /\ pkt' = IF ~ Refused(pkt.held, pkt.frag) /\ IfPktCompleted(r)
                 THEN [pkt EXCEPT !.pc = "passed", !.held = r]
                 ELSE Idle
  /\ UNCHANGED <<in, sweep, timer>>

(* Mutant: the reassembler stays. *)
RemoveReassemblerKept ==
  /\ pkt.pc = "passed"
  /\ pkt' = Idle
  /\ UNCHANGED <<table, in, sweep, timer>>

(* ReasmPktFrags has passed the packet on; the entry, if any, goes. *)
RemoveReassembler ==
  /\ pkt.pc = "passed"
  /\ table' = [table EXCEPT ![pkt.idx] = NoReassembler]
  /\ pkt' = Idle
  /\ UNCHANGED <<in, sweep, timer>>

PktThread == GetFragReassembler \/ ProcessFragPkt \/ RemoveReassembler

-----------------------------------------------------------------------------
(* The timer's thread. *)

TimerStart ==
  /\ StartThread \/ StartWait \/ RunReturns
  /\ UNCHANGED <<table, in, pkt, sweep>>

OnTick ==
  /\ Expire
  /\ sweep' = "clock"
  /\ UNCHANGED <<table, in, pkt>>

ReadClock ==
  /\ sweep = "clock"
  /\ sweep' = "loop"
  /\ UNCHANGED <<table, in, pkt, timer>>

(* The low word of the clock is below kIpv4FragCacheTimeout microseconds:  *)
(* the loop breaks at its first entry.                                     *)
ClockWrapped ==
  /\ sweep = "clock"
  /\ sweep' = "rest" /\ Rearm
  /\ UNCHANGED <<table, in, pkt>>

(* Mutant: a packet whose first or last fragment is in is not forgotten. *)
EraseUnstarted ==
  /\ sweep = "loop"
  /\ \E i \in Present :
       /\ table[i].flag = {}
       /\ table' = [table EXCEPT ![i] = NoReassembler]
  /\ UNCHANGED <<in, pkt, sweep, timer>>

(* Every entry is older than the timeout; equal keys have no order. *)
EraseEntry ==
  /\ sweep = "loop"
  /\ \E i \in Present : table' = [table EXCEPT ![i] = NoReassembler]
  /\ UNCHANGED <<in, pkt, sweep, timer>>

TickDone ==
  /\ sweep = "loop" /\ Present = {}
  /\ sweep' = "rest" /\ Rearm
  /\ UNCHANGED <<table, in, pkt>>

TimerThread == TimerStart \/ OnTick \/ ReadClock \/ ClockWrapped \/ EraseEntry \/ TickDone

-----------------------------------------------------------------------------
TimePasses == IntervalPasses /\ UNCHANGED <<table, in, pkt, sweep>>

Next ==
  \/ \E i \in PktIdx : \E f \in Frags[i] : Arrive(i, f)
  \/ PktThread
  \/ TimerThread
  \/ TimePasses

Spec == Init /\ [][Next]_vars

(* Ticks are 5 s apart and the low word wraps every 71 minutes: not every  *)
(* tick reads it within the same 5 microseconds.                           *)
FairSpec ==
  /\ Spec
  /\ WF_vars(PktThread) /\ WF_vars(TimerThread) /\ WF_vars(TimePasses)
  /\ SF_vars(ReadClock)

-----------------------------------------------------------------------------
(* Properties. *)

Reassembler == [meat : 0 .. Word - 1, end : 0 .. MaxPktLen, flag : SUBSET {"first", "last"},
                frags : Seq([off : 0 .. MaxPktLen, data : Seq(0 .. MaxPktLen)]),
                seen : Seq(Fragment)]

TypeOK ==
  /\ TimerTypeOK
  /\ \A i \in PktIdx : table[i] = NoReassembler \/ table[i] \in Reassembler
  /\ pkt.pc \in {"idle", "get", "process", "passed"} /\ sweep \in {"rest", "clock", "loop"}
  /\ pkt.held = NoReassembler \/ pkt.held \in Reassembler
  /\ \A i \in Present : pkt.pc \in {"process", "passed"} /\ pkt.idx = i => table[i] = pkt.held

Disjoint(s) == \A i, j \in DOMAIN s : i # j => Bytes(s[i]) \cap Bytes(s[j]) = {}
Covered(r)  == UNION {Bytes(f) : f \in ToSet(r.seen)}

(* What the theorems suppose of the fragments: the last ends the packet.   *)
LastEnds ==
  \A i \in PktIdx : \A f, g \in Frags[i] :
    g.off # 0 /\ ~ g.mf => f.off + f.len <= g.off + g.len

(* meat_ has not wrapped: it counts no more than the bytes that arrived,   *)
(* repeats included.                                                       *)
InWord ==
  pkt.pc = "passed" => Len(DataOf(Elements(pkt.held.seen))) < Word

(* What is copied always fits in the meat_ bytes allocated for it. *)
Fits == pkt.pc = "passed" => Len(ReasmPktFrags(pkt.held)) <= pkt.held.meat

(* Unless fragments overlapped, a packet passed on has every byte once. *)
Whole ==
  pkt.pc = "passed" /\ Disjoint(pkt.held.seen) =>
    LET data == ReasmPktFrags(pkt.held) IN
    IsInjective(data) /\ ToSet(data) = 0 .. pkt.held.end - 1

(* Nor does a reassembler at rest have every byte. *)
NoneKept ==
  \A i \in Present :
    pkt.pc = "idle" /\ "last" \in table[i].flag /\ Disjoint(table[i].seen)
      => Covered(table[i]) # 0 .. table[i].end - 1

(* A packet is passed on when its fragments have all arrived, and not      *)
(* before, and what is copied fits.                                        *)
Exact == Fits /\ Whole /\ NoneKept

(* In order but for the first two, which may have changed places. *)
Ascending(s) == \A i \in 2 .. Len(s) - 1 : s[i].off < s[i + 1].off
NearlyInOrder(s) ==
  /\ Ascending(s)
  /\ Len(s) > 2 => s[1].off < s[3].off

(* Fragments that arrive in order, or the second before the first, are     *)
(* passed on in order.                                                     *)
InOrder ==
  pkt.pc = "passed" /\ Disjoint(pkt.held.seen) /\ NearlyInOrder(pkt.held.seen)
    => LET data == ReasmPktFrags(pkt.held) IN \A b \in DOMAIN data : data[b] = b - 1

(* What is left of packets that were never completed is forgotten when the *)
(* fragments stop coming, provided the timer ticks.                        *)
Forgotten == []Ticks => <>[](Present = {})

=============================================================================
