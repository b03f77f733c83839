# TMAS in TLA+

TMAS is a passive monitor. It captures the packets of one or more network
cards through netmap, rebuilds TCP connections out of them, and records how
connections and HTTP sessions went. This directory holds TLA+ modules of its
parts, the TLC configurations that check them and proofs about them. Paths
below are relative to `src/code/trunk/src` unless they say otherwise.

## 1. Inventory

```
 card 0 -- PktCapturer 0 -\               /- PktReceiver 0: Eth > Ipv4 > TcpMonitor > HttpMonitor
 card 1 -- PktCapturer 1 --> PktDispatcher --> PktReceiver 1: its own chain of processors
                             (policy)      \- ...
```

| Part | State | Operations | Correct when |
|---|---|---|---|
| `CircularFifo` (`frame/inc/circular_fifo*.hpp`) | two atomic cursors, an array | write, read, singly or in batches | the threads keep apart without a lock; it is a FIFO; nothing waits for ever |
| `PktCapturer` (`frame/pkt_capturer.cpp`) | per ring: `proc_index`, `read_index`, a flag per slot; the kernel's cursors | `ThreadFunc`, `ReceivePackets`, `RefreshNetmapRing`, `PktProcessed` | a slot goes back to the kernel exactly when its packet is done with |
| `PktDispatcher` | the policy, a static round-robin counter | `DispatchPkt`, `DispatchPktBatch` | a connection's packets keep their order |
| `PktReceiver` | one queue per capturer | `ReceivePkt`, `ReceivePktBatch`, the two thread loops | each queue is served; a dropped packet releases its slot |
| `Ipv4Monitor`, `Ipv4FragReassembler` (`protocol/l3/ipv4`) | a list of fragments per packet, a table of reassemblers | insert, complete, remove, tick | a packet is rebuilt exactly when its fragments are there; what stays incomplete is forgotten |
| `TcpMonitor`, `ObjectPool` (`pub/inc/object_pool.hpp`) | table of connections by id and by age, pool | find or create, abandon, remove, time out (timer thread) | one object per connection, reused only when nobody holds it; a connection ends once |
| `TcpConnReorder` | per half connection: expected numbers, a sorted list of early packets | packet, reinitialize | both halves come out in order, complete, interleaved as on the wire; bounded lists |
| `TcpConnAnalyzer`, `TcpFsm` | a state per half, statistics | packet, reinitialize | a legal conversation is recorded as what it was |
| `HttpMonitor`, `HttpRunSession`, recombinders (`protocol/l7/http`), HTTP parsers (`pub/http_parser.cpp`) | a run session per connection: where it is in a request and its response, the parser of a chunked body | packet, connection closed | an exchange is recorded when it is over, with its sizes, however it is cut into packets |
| `FreeTimer` (`pub/timer.cpp`) | a thread, the wait for the next tick | start, tick, stop | the callback keeps being called until stop |
| loggers, observers, filters, configuration, packet parsers | none between calls, or read once | | not modelled: I/O or stateless |

**Interaction.** Capturers call the dispatcher and, through it, `ReceivePkt`,
which writes into the receiver's queue for that capturer. Nothing is copied:
the queue carries the ring and the slot, and the receiver lowers the slot's
flag when the processors have returned. Within a receiver everything is a
call, except for the timers of `TcpMonitor` and `Ipv4Monitor`, which run in
threads of their own. `TcpMonitor` tells `HttpMonitor` of the end of a
connection, from the packet thread when the connection is closed and from the
timer's thread when it times out, so both threads change the table of
sessions as well.

**What is hard.** The lock-free queue (each cursor is stored by one thread and
read by both); rings, flags and queues that are each updated in their own
time; packets in any order, twice or never; lists that hold them meanwhile;
objects that are reused; two timers against the packet thread, with locks that
are commented out; a timer whose thread may return before its first tick;
messages cut into packets anywhere. `PROJECT.json` lists
these under `hazards`, each at its line.

## 2. Modules

| Module | What it models |
|---|---|
| `FifoIndex` | index arithmetic of `CircularFifo`, and what its guards compute from cursors already loaded |
| `BoundedFifo` | abstract: a FIFO of at most `Capacity` items, an offer being taken whole or refused |
| `CircularFifo` | the queue item by item; a step per atomic load, store and element access |
| `CircularFifoProofs` | theorems about it, for every size |
| `CircularFifoBatch` | the queue in batches, the ring slots its packets occupy |
| `CircularFifoBatchProofs` | theorems about the batch mode, for every size and number of ring slots |
| `PktCapture` | kernel rings, capture threads, dispatch, queues, processing threads |
| `PktCaptureProofs` | theorems about it, for every machine |
| `TcpConnReorder` | one connection's reordering, as one step per packet |
| `TcpFsm` | the state machine of one end, state function by state function |
| `TcpConnAnalyzer` | what the analyzer of a connection makes of one packet |
| `TcpConnection` | reordering and analysis of one connection, composed; the time |
| `TcpConnectionProofs` | theorems about `TcpConnReorder` and about `TcpConnection`, for any conversations, limits and number of copies |
| `FreeTimer` | a timer: its start, its thread, the wait for the next tick |
| `TcpMonitor` | packet thread and timer thread over the table of connections, the pool and the table of HTTP sessions |
| `TcpMonitorProofs` | theorems about it, for any number of connections and any timeout |
| `Ipv4FragReassembler` | the fragments of one IP packet, as operators from reassembler to reassembler |
| `Ipv4Monitor` | packet thread and timer thread over the table of reassemblers |
| `Ipv4MonitorProofs` | theorems about it, for any packets, fragments and number of arrivals |
| `HttpParser` | the parsers of namespace `HPN`, as folds over symbols |
| `HttpRecombinder` | bodies: by content length, chunked, without either |
| `HttpRunSession` | one request and its response, as operators from session to session |
| `HttpMonitor` | the sessions of one connection, driven by exchanges cut into packets |
| `HttpMonitorProofs` | theorems about it, for any exchanges that begin as HTTP or end where they should |
| `LeftFolds` | lemmas on induction over numbers and on folds over sequences |
| `MC...` | the instances TLC checks |

What composes what: `TcpConnection` takes `TcpConnReorder` and
`TcpConnAnalyzer`; `TcpMonitor` and `Ipv4Monitor` take `FreeTimer`;
`Ipv4Monitor` takes `Ipv4FragReassembler`; `HttpMonitor` stands on
`HttpRunSession`, `HttpRecombinder` and `HttpParser`. Three boundaries are
crossed by an abstraction instead: `PktCapture` sees a queue as a sequence,
`TcpMonitor` sees the two processors of a connection as a choice among what
they ask of it, and `HttpMonitor` is given payload in the order `TcpConnection`
passes it up.

**CircularFifo.** `tail`, `head`, `element` are `tail_`, `head_`,
`element_array_`. The code's atomics are sequentially consistent (no memory
order is given), so steps interleave. `ppc` and `cpc` are the places of the
two threads in the code, `preg` and `creg` the local copies of a cursor.
`IsFull` and `IsEmpty` load two cursors, hence two steps each.

**CircularFifoBatch.** `HasEnoughSpace` loads the cursors, calls `IsFull`,
which loads them again, and compares what it loaded first. Because a packet
stays in its ring slot until it is processed, no more than `RingSlots` packets
of a card are under way; `outstanding` counts them.

**PktCapture.** A queue is a sequence here, one step per operation, which is
what the theorems called `Refinement` justify: `CircularFifoProofs` for single
packets, `CircularFifoBatchProofs` for batches, provided the queue can hold two
loads of the card's rings. `BatchAssumption` states that size. `flag` is `ring_slots`, `proc` and
`read` the two indices, `capture[c]` and `receive[r]` where a thread is and
what it holds. Accesses to flags interleave one by one. The kernel is part of
`Poll`: it publishes any number of packets in slots it owns. `DispatchPktByIp`
hashes addresses, so any receiver may be chosen. The round-robin counter is
an unprotected static that every capture thread moves on: it is loaded in one
step (`LoadTurn`) and what comes after it stored in another (`StoreTurn`), the
other threads in between.

**TcpConnReorder.** The methods are operators from connection to connection.
`PktMsgProc` is the handler with everything it calls, the loop
`TryProcCachedPkt` included, which alternates between the two lists until both
are stuck. A receiver's thread is the only one that handles a connection's
packets, so a packet is one step. `arrived` counts copies: a packet that never
arrives is lost; several copies are retransmissions or packets captured twice.
The environment is a conversation, fixed at the start; any packet of it may
arrive at any moment. `log` is everything passed on to the analyzer.

**TcpFsm, TcpConnAnalyzer, TcpConnection.** The state functions of `TcpFsm`
are operators on the role of an end, an event and, in `ProcessTcpFsm`, the
state; an event names its side (the end itself sent the packet, or its peer)
and the set of flags, so that `==` on a bit mask becomes equality of sets and
`&` membership. `TcpConnAnalyzer` is a record per connection, its methods
operators on it; `records`, `up`, `abandoned` and `removed` are what it makes
others do. `TcpConnection` composes it with `TcpConnReorder`: in the code the
packets a call releases are analyzed within that call, so `ProcessTcpPkt`
folds `AnalyzePkt` over what the same step appended to `log`. `clock` is read
once per step; released packets are stamped again by the code, with the same
time up to the duration of the call. `Reuse` is the message
`MSG_REINITIALIZE`, which both parts handle.

**FreeTimer.** `timer` says how far `Start` is, where the thread is, and
whether a wait is posted. `Start` creates the thread and posts the first wait
afterwards; if the thread comes first, `run` has no work and returns for good
(`RunReturns`). The unit of time is the interval.

**TcpMonitor.** A step is what happens between two operations on a lock. What
the packet thread does under `conn_mutex_` is one step; the sweep is many
(`LockTable`, then a connection at a time: recorded, told to `HttpMonitor`,
erased, given back), and `Unlocked` keeps the packet thread's own locked steps
out of it. What is not guarded interleaves: the flag `abandoned`, the table of
sessions, `FreeObject` up to the pool's lock. Only ages count: `last[c]` is how
long ago the last packet of a connection came in, `pkt.stall` how long the
packet in hand is being processed, `sweep.lag` how long ago the sweep read the
clock. A reference count is not kept: the references there can be are those of
the table and of the packet thread, so the last one goes where `DropReference`
and `EraseConn` find no other. `late` has the connections removed while a
packet of theirs was still to pass its payload up.

**Ipv4FragReassembler, Ipv4Monitor.** The data of a fragment is the sequence
of its positions in the packet, so that what is copied where can be seen in
the result. `DoInsertPktFrag` is a fold of `ScanFrag` over the list, a turn of
the loop at a time, with its breaks and its trimming. `meat` is kept modulo
`Word`, since `meat_` is an `uint16`. `reassembler_mutex_` is commented out:
the packet thread looks a reassembler up, works on it and removes it in three
steps, between which the timer may erase the entry. `last_frag_in` is 0 for
ever, so an entry is always too old, except when the low word of the clock is
smaller than the timeout (`ClockWrapped`).

**HttpParser, HttpRecombinder, HttpRunSession, HttpMonitor.** A message is a
sequence of symbols, a symbol being what the parsers tell apart: a delimiter, a
digit, a letter, and the words they look for. The parsers' loops are folds, a
character at a time; the chunk parser keeps its state between packets as the
code does. `HttpMonitor` has one connection: `session` is its entry of
`run_sessions_`, `record` what the observers were told last. The environment
sends exchanges cut into packets anywhere (`Packet`), repeats a packet
(`Repeat`), breaks off and goes on with the next exchange (`Begin`) or closes
the connection (`ConnClosedProc`). `Torn` names the cuts that the code is not
made for. `HTTP` is one symbol, and so is the method: that a message is cut
within its first four bytes, upon which `IsHttpResponse` does not know it, does
not occur in the model (`Packet` says so). `left` has the fields that stay in
`request_info.header` when `GetHttpHeader` fails; the next parse of a request
adds to them. A failed TMAS_ASSERT ends the process: the session is in the state
"assert", and nothing follows (`Halted`). `errno`, which the chunk parser tests
after `strtoul` and never clears, is left out: a size has at most `MaxHexSize`
digits, which fit, so that it is set only if an earlier call has left it so.

## 3. Runs

| Run | Bounds | Shows |
|---|---|---|
| `fifo` | 4 elements, 2 kinds of item | threads kept apart, refinement of `BoundedFifo`, every item taken |
| `fifo_batch` | 5 elements, 2 ring slots | the same in batches; slots come back to the kernel |
| `fifo_space` (violation) | 5 elements, 5 ring slots | `HasEnoughSpace` lets a batch of two through beside three packets not yet read |
| `capture` | four machines, rings of 3 slots | no slot reused, none lost, packets in order, rings move; the shared counter stays a receiver |
| `reorder` | conversations of 9 and 4 packets, each up to twice, limits 2 and 3 | order, completeness, bounds |
| `reorder_limit` (violation) | the same | the list of the B2S half exceeds its limit |
| `reorder_wrap` (violation) | numbers wrap after 16 | an early segment after the wrap is lost |
| `conn` | 29 conversations, each packet at most once, three clock values | ends recorded for what they were, once; the state machines agree with the FINs seen |
| `conn_delay` (violation) | the same | a reused object reports the delay of the connection before |
| `tcp_monitor` | 2 connections, pool grown by 1, timeout 2 ticks, at most 2 packets released by one, delays up to 2 ticks | an object is in one place, sessions go with their connections, none is recorded both as closed and as timed out, the clock is not reversed, all is forgotten |
| `ipv4_frag` | a packet of 4 bytes with six fragments on the wire, 4 of them captured; another of which one is | passed on when complete and not before, in order if its fragments came so, forgotten otherwise |
| `http` | 20 exchanges, chunk sizes of 2 digits, numbers up to 30, a fault per exchange | recorded with its sizes when, and only when, the last packet has come; no assertion fails on the conditions `AssertsHold` states |

*Why these bounds.* A queue of 4 elements wraps, is full, and has a state
between empty and full for each thread to misjudge; a second kind of item
shows an item in the wrong place. A ring of three slots holds at most two
packets, so a slot processed out of order, a wrapped range and a full ring
occur. The four machines are: one card with two rings and queues of one packet,
so that packets are dropped; one with one ring and queues of two, which can be
out of order; two cards whose threads take turns at two receivers, either of
which has a queue for each; batches to two receivers. `last` bounds the third:
either of its rings gets two packets in all, which is enough for both threads to
have loaded the same turn, and for one of them to store it after the other has
gone on. In the conversations either side opens and either side has the larger
initial number, data flow both ways, and one ends with FINs both ways, the other
with a reset; the list limit of 2 and the handshake limit of 3 are both
exceeded. `MaxCopies` is the only counter bound.

The conversations of `conn` are a close by either end with data, a half-close
in which the peer goes on sending, a close by both at once, a close answered
by a reset, a close followed by one and a simultaneous open. Copies, already covered by
`reorder`, are left out: what is released is the same. Three clock values are
enough for a handshake in time and one too late.

Two connections and a pool that grows by one object make objects change owners
and the pool grow again while one is in hand. A timeout of two ticks tells a connection that is
young, old and too old for the sweep's lag; a delay of two ticks is the
smallest with which a packet takes as long as the timeout (`OneEnd` excuses
exactly that). The fragments of `ipv4_frag` are four in a row, and two of a copy
that was cut differently, so that each way of overlapping the code has a branch
for occurs, but for the one whose trimming is out of range (`MonitorAssumption`
of `Ipv4Monitor`); `MaxIn` bounds how many of them, repeats included, arrive. `Word` is 6, so
that `meat` wraps with the repeats. The exchanges of `http` are seven as the
code expects them (no body, a length, chunks with extension and trailer, a request with
a body) and thirteen that are not, for which only `AssertsHold` and `TypeOK`
speak. `Promised` says which exchanges the other two properties are about.
`MaxUint16` and `MaxUint32`, the largest status code and length that
`lexical_cast` takes, are scaled to 30, so that 33 is too large for either.
Two of the thirteen fail the assertion of `SetTransferType`, one with both
transfer fields in a message, one with a field each in two parses of a request;
`AssertsHold` leaves them out by name, see section 5.

*Deadlock* is checked in all runs but `http`, where a failed assertion ends the
process: the threads poll for ever, and a connection object can always be
reused.

*Fairness.* Both threads of the queue and every thread of the pipeline are
loops without a wait for another thread (`poll` has a timeout of a second,
receivers sleep a microsecond), so each is weakly fair; arrival of packets is
not, and neither is `PollError`, the failure of `poll` that ends a thread.
`reorder` has no liveness: it makes nothing happen on its own.

In `tcp_monitor` and `ipv4_frag` the packet thread, the timer's thread and
time are weakly fair: neither thread waits for anything but a lock that the
other one gives back. `Forgotten` supposes that the timer ticks (`[]Ticks`):
`FreeTimer` has the race in which it never does, and then nothing times out.
In `tcp_monitor` it supposes as well that packets stop coming for good, as the
packets of an abandoned connection keep it in the table. In `ipv4_frag`
`ReadClock` is strongly fair: ticks are 5 seconds apart and the low word of the
clock wraps every 71 minutes, so not every tick finds it just wrapped.
`http` has no liveness: everything in it is a call.

## 4. Proofs

`CircularFifoProofs` proves, for every `FifoSize` (0 included, which the
constructor turns into 64) and every set of items, that `CircularFifo`

* is type correct (`TypeCorrect`),
* keeps the two threads apart (`MutualExclusion`),
* implements `BoundedFifo` with capacity `Size - 1` (`Refinement`).

All three rest on `Invariance`. `Exclusive` says nothing of what a thread has
found out before it acts, so it is not inductive. `Inv` adds it: a local copy
of a thread's own cursor is current; once the producer has seen the queue not
full, or the consumer has seen it not empty, it stays so until that thread's
own store, since the other cursor only moves away; the element about to be
published holds the offered item, and the item held is the one at the front.
For the refinement, lemmas show what `Content` becomes when one cursor moves:
an append at the back for the producer's store, the removal of the front for
the consumer's, and that a write to the free element does not touch it. The
assumptions are those of the modules: `FifoSize` is a natural number and
`NoItem` is not an item.

`CircularFifoBatchProofs` proves of the batch mode, for every size and every
number of ring slots with `Large` (the queue can hold two loads of the rings),
type correctness, `EnoughSpace` (`SpaceSuffices`) and that it implements a FIFO
that may refuse a batch (`Refinement`). `HasEnoughSpace` compares the wrong
number, so `EnoughSpace` has to come from somewhere else, namely from
accounting (`Accounts`): each slot in flight belongs to a packet on offer or to
one queued and not yet processed, so that what is on offer and what is in use,
less what is processed and not yet handed back, are together at most
`RingSlots`; and a batch that is processed and not yet handed back is no larger
than the rings either. `Large` is a hypothesis of these theorems and not an
assumption of the module: the run `fifo_space` is about a queue without it.

`PktCaptureProofs` proves `NoReuse` (`SlotsInFlight`), `InOrder`
(`OrderKept`) and `TypeOK` (`QueuesFit`) for every set of machines and every
number of slots, two threads in the round-robin counter included. `NoReuse`
relates the kernel's cursors to the queues, and between the two stand the
capture thread's indices, the place it has reached and the flags; so
`Inv` measures every slot by its distance from `proc_index` (`Pos`).
`Indexed` orders the cursors, `Walks` says how far a round has got, `Placed`
that a packet in a queue was captured and has its flag up, `Apart` that it is
in one place only, `Ordered` that packets of a ring stand in its order,
`Batched` the same of `pkt_container_`, `Serves` how far a processing thread
is. What moves `proc_index` moves all distances by the same number, which is
the lemma the handing back of slots rests on. `FlagsComeDown` proves
`NoSlotLost` from the same invariant and its converse (`Kept`: a flag that is
up has a reader), provided no configuration has both batches and the
round-robin policy: `DispatchPktRoundRobinBatch` is empty and loses slots, see
section 5. `QueuesFit` is more than types: no queue ever holds as many packets as
its size. One item at a time `ReceivePkt` sees to that; in batches
`HasEnoughSpace` does not. It takes a count (`PendingFew`): packets that wait are
told apart by ring and distance, so there are `InFlight`, all slots of the card
but one of each ring, at most; a receiver holds no more than that, and by
`BatchAssumption` the queue holds both (`Bounded`).

`TcpMonitorProofs` proves type correctness, `OnePlace`, `NoTimeReversal`,
`SessionHasConn` and `OneEnd` for any number of connections, any timeout and
any bounds. None of them is inductive, since none says what one thread may rely
on while the other works. Four layers do, each using those before: `Holds` (at
which steps a thread holds an object, and that the sweep runs inside a tick),
`Places` (an object in hand is in the table for its own connection or not at
all; what is on its way to the pool is as new), `Ages` (a connection in hand is
no older than its packet; while the table is locked, none is younger than the
sweep's clock) and `Ends` (what was told of the end of a connection that is
being removed or erased). The assumption is `MonitorAssumption`: the bounds are
natural numbers, the pool grows by at least one object, there is a connection.

The first part of `TcpConnectionProofs` proves the seven properties of the run
`reorder`, for any set of conversations, any limits, any number of copies and any
range of sequence numbers. What they suppose of a conversation is named in
`TcpConnReorder`, and differs:

* type correctness (`ReorderTypeOK`), the bound before the handshake
  (`ReorderBoundedBeforeHandshake`) and the limit of the S2B list
  (`ReorderS2BListLimited`) suppose nothing: the packets may be any packets;
* `ReorderStreamsInOrder` supposes `NoWrap`, that the numbers do not pass 2^32
  (the run `reorder_wrap` shows what happens if they do), and nothing of what
  the ends mean by their packets;
* `ReorderAcknowledgedFirst`, `ReorderRetransmitsPassedOn` and
  `ReorderAllPassedOn` (which is about the packets that take sequence numbers)
  suppose `Conforms`, two ends that follow the protocol:
  `NoWrap`, each end goes on where it left off, acknowledges what its peer has
  sent, and one of the two opens. `MCTcpConnReorder` has TLC evaluate it for the
  conversations of the run. It leaves out a simultaneous open, and packets cut
  anew when they are sent again.

All seven follow one plan. `PktMsgProc` is a composition of a few changes of a
connection: a packet passed on, one inserted into a list or taken from its
front, a number raised, a list emptied. A lemma says of each what it leaves as
it was (`Passed`, `Relisted`, `Idle`, ...); a set of connections that is closed
under them (`Keeps`) is closed under the handler, and the loop of
`TryProcCachedPkt` is a number of turns (`Turn`), which `Iterate` takes one after
another. That the recursive function of `InsertUnordered` and the turns can be
reasoned about at all rests on induction over the *set* of numbers that
something holds of (`NatInd` in `LeftFolds`), from the library's theorem that `<`
is well founded. The inductive invariants are conjunctions of

* `ConnOK`, the types, and that a list has its own sender's packets only;
* `Ordered`: the next number of a half is where the last packet passed on of it
  ended, which is what makes the next one follow it;
* `Heard`, that an end that was heard has been so since the start, without
  which the limit of the list is not kept;
* `Known`: the next number of a half is either its first or the end of a packet
  passed on, every packet below it was passed on, and each half's expected
  acknowledgement is the other half's next number. `AcknowledgedFirst` says
  nothing of the numbers the next packet is compared with, so it needs this;
* `SettledOK`, for completeness: between two packets both lists are stuck
  (`Settled`) and sorted, and each packet that arrived is in the log or in its
  list. The loop makes as many turns as there are cached packets, and each turn
  before the fixpoint takes at least one out, so it ends at the fixpoint. If then
  a list were not empty when everything has arrived, the first packet of the
  conversation not passed on would be the front of its list with all that it
  acknowledges passed on, and not be stuck.

The second part proves that `TcpConnection` implements `TcpConnReorder`
(`ConnectionImplementsReorder`), by which all of the above holds of the
composition, and

* `ConnectionTypeOK` and `ConnectionRecordedOnce`, for any packets whatsoever;
* `ConnectionFsmAgrees`, if no opening SYN is a FIN as well (`FinApart`): the
  analyzer hands a SYN to the state machines without looking for a FIN in it,
  so a SYN with FIN really makes a state disagree with the FINs seen;
* `ConnectionCloseComplete`, if the ends follow the protocol (`Conforms`,
  `FinApart`) and send nothing that takes a number after their FIN (`FinLast`);
* `ConnectionNotAborted`, if the ends follow the protocol, send nothing that
  takes a number after their FIN, and `Flagged`: of the flags that matter each
  packet carries an ACK and possibly a FIN, but for the SYN that opens and the
  SYN-ACK that answers it, in which the numbers of the two ends start;
* `ConnectionEndRecorded`, if besides all of these the conversation comes to an
  end (`Finishes`): the FIN of each end is acknowledged by the FIN of the other
  or by its last word, or an end's last word is a reset.

`MCTcpConnection` has TLC evaluate the five hypotheses for its conversations
but the simultaneous open. `Finishes` asks two things that a reader may not
expect, and each is what the code needs. The acknowledgement is a *last* word:
an acknowledgement in the middle may be captured after what follows it and is
then discarded as a retransmission, so that only a later one counts. And what
looks like a reset that ends the connection is a reset: `Repeats`, which tells a
copy in the list, compares SYN, FIN, numbers and length but not RST, so a reset
that is captured while an acknowledgement with the same two numbers waits is
dropped for a repetition of it, and the connection lingers until its timeout.

In one call the analyzer folds over the packets released, and may close,
record and give up the connection between two of them; the packets after it
are still processed. So the invariant relates the analyzer to the log, a
packet at a time: `Follows(log, k, a)` says what an analyzer that was given
the first `k` packets of `log` is like. While nothing is recorded (`GoingOn`)
each state machine agrees with the FINs among them and their data went up;
afterwards (`Over`) one record at most concludes the connection, and if that is
a close, some prefix of the log was complete when it was made. `FollowOK` says
it of the whole log after each step, and the lemmas on folds (`AnalysisIs`, from
`LeftFolds`) take it through those between. Completeness of a close
takes `Known` as well: a FIN is passed on after what it follows, and the last
ACK after the FIN it acknowledges.

That nothing is aborted takes the states of *both* ends at each packet. The
argument has two halves that meet in the log. `LogLegal` says of the reordering
that what it passes on is `Legal` whatever order it was captured in: the SYN,
the SYN-ACK, then packets with an ACK and no SYN, of which one of each end at
most is a FIN; this follows from `Known` and `Advancing` (the next number never
falls back, so nothing of a half is in order after its FIN). `FsmTakes` says of
the state machines that they take every packet of a legal log: `Running` gives
the states that two ends, neither of which is closed, can be in after some packets, told
by the FINs among them, and `Unaborted` adds what is left when the connection
is given up.

That an end is recorded takes completeness for packets without a number to
take, of which `AllPassedOn` says nothing. `SettledOK` keeps account of sets of
packets that stand for one another: of a set that is never discarded as a
retransmission unless one of it was passed on (`NeverLost`), one is in the log
or in a list once one has arrived. A packet that takes numbers is such a set by
itself, and a last word is one with what looks the same (`LastWordNeverLost`),
since an acknowledgement is a retransmission only below the next number of its
half. Once all have arrived nothing waits, so the last words were passed on
(`LastWordPassedOn`), after what they acknowledge. What the analyzer makes of
that is `WindsUp`: as long as nothing is concluded, no reset was seen and, if
both FINs were, the end whose FIN came second is in LAST_ACK with nothing behind
it that acknowledges it (`Lingers`). A log of a conversation that `Finishes`
contains what contradicts that (`NoneLingers`).

`Ipv4MonitorProofs` proves `TypeOK`, `Exact` and `InOrder` of the fragments, for
any packets, any fragments that `MonitorAssumption` allows (a fragment is not
trimmed on its left but by the first of the packet, where an element's position
in the packet and in its data are the same), any number of arrivals, and any
moment at which the timer erases the reassembler the thread is working on.

* `Typed`, and `NoneKept` (what waits for more lacks a byte) suppose no more
  than that;
* `Whole` (a packet passed on has every byte once, unless fragments overlapped)
  and `InOrder` suppose `LastEnds`: no fragment of a packet ends behind its
  last one. `IfPktCompleted` compares what was counted with where the last one
  ended; `MCIpv4Monitor` has TLC evaluate this of its packets;
* `Fits`, that what is copied fits in what was allocated for it, supposes
  `InWord`: fewer than 2^16 bytes arrived for the packet, repeats and overlaps
  included. `meat_` counts bytes that are not in the list, modulo 2^16; beyond
  that it may wrap to less than the list holds, and nothing in the code prevents it.

The inductive invariant is `IInv`. `Sound(i, r)` is what a reassembler is like at
any time, and none of the properties is inductive without it: the elements of the
list are parts of fragments that arrived (`Listed`), the flags tell which did
(`FlagsTell`), the data of the list is among that of the fragments, and `meat_`
counts at least as much (`DataCounted`); if no two fragments overlapped, it is
exactly theirs, once each, and in order if they came so (`DataApart`).
`CompletedGoes` adds that a completed reassembler is in the hands of the thread
that is about to remove it. The scan that inserts a fragment is a fold over the
list. `ScanHolds` says of each prefix what was kept, dropped or cut so far,
whatever the order of the elements; it ends in one of a few ways (`Inserts`), of
which each keeps a reassembler sound. That the data of a list is that of its
elements joined takes lemmas on `FlattenSeq` (`FlattenIs`, `FlattenAppend`, and
what taking an element out of the middle does), and that a count equal to the
length means every byte is there takes a lemma on cardinalities (`BytesFew`).

`HttpMonitorProofs` proves `TypeOK` (`HttpTypeOK`) for any exchanges whatsoever:
lines, fields, lengths and chunks may be malformed, the messages cut anywhere, a
packet come twice, an exchange break off.

`AssertsHold` is not so without a condition. `SetTransferType` asserts that a
message does not have both transfer fields, which nothing before it sees to, and
the monitor may take the end of one message for the start of the next, or the
response for more of the request. `HttpAssertsHold` proves it of an exchange on one
of two conditions, whatever the other exchanges are: its request begins as
`IsHttpRequest` expects (`BeginsWell`) and of the two transfer fields it uses one at
most (`OneField`), and then it may be sent anyhow; or its messages end where they
should (`Ends`, below) and are sent well, and then request and response may use a
field each. The first follows from `Inv`, the second from `CourseInv`.

The parsers are folds. A fold goes through states, one for each symbol
(`RequestLineIs`, `HeaderIs`, `ChunksIs`, ...), which gives for each parser a set it
never leaves (`FieldAdded`, `ChunkStepIs`: a hex size of at most `MaxHexSize`
digits, a chunk's size that does not fall below 0) and that it has consumed what
it says it has, no more than there is (`RequestLineStops`). A handler makes of a
session that goes on (`GoesOn`: in which states what was gathered is not empty,
what was told of it is nothing) one that goes on, or one that is told complete or
failed, or one in which an assertion failed because both fields were among what
was parsed (`Results`); `Told` takes the told ones out of the table. Every
symbol a session has gathered comes from the exchange that it was begun in
(`Words`), since the first packet of the next exchange replaces it; and keys of
fields are among the symbols.

`Recorded` (`HttpRecorded`) and `NotEarly` (`HttpNotEarly`) are proved for any
exchanges of which the good ones satisfy `Ends`; the others may be anything, and
may come before and after. `Ends(ex)` speaks of whole messages and of their
prefixes, not of sessions or packets:

* a header ends after h symbols and not before (`HeadEnds`), and the parsers take
  all of it and find nothing else (`IsHead`);
* a body is whole for the recombinder its fields ask for, if that is new and is
  given the body at once, and not before, but for the LF after the last CR of
  chunks (`BodyEnds`); what comes out is the size `Recorded` expects;
* no part of a request short of its end is complete for `IsCompleteHttpRequest`,
  but its header;
* only one of the two bodies has a content-length, because `appended_size_` is
  not reset between them.

`MCHttpMonitor` has TLC evaluate `Ends` for all of its seven good exchanges
(`ExchangesAre`). The theorems then say that the cuts do not matter: neither
where the packets begin, nor what an earlier exchange left in the table. The
argument has three steps. A parser that stopped is not moved by what follows, so
that a header is parsed the same with any part of the body behind it
(`RequestHolds`, `ResponseHolds`). Pieces
given to a recombinder one by one come to what all of them would at once
(`AppendedOn`, and `ChunkFsmSplit` for chunks), until it says that the body is
whole. And one used for the request is as good as new for the response, as far as
the response's kind of body is concerned (`SameTransfer`, with the count that is
kept in `Between`). The inductive invariant is `CourseInv`: in a good exchange that
was not sent badly, the session is a function of how much of the message was sent
(`Asked`, `Answered`), but for the state of the recombinder, which is that of one
given the same part at once (`Gathered`). TLC checked it on the instance of the
run `http` before it was proved. `NoneAssumption` says that the
values for no session and no record are no session and no record.

`LeftFolds` holds what these three have in common: that `FoldLeft`, which the
community modules define by way of a recursive function on sets, is the last of
a sequence of states in which each follows from the one before by the operator.

Not proved but model-checked: liveness (`EventuallyTaken`, `SlotsComeBack`,
`RingMoves`, `Forgotten`), out of the prover's reach. And what the parsers compute
of a given message, that is, whether it satisfies `Ends`: induction over data, of
which TLC evaluates the instances.

## 5. What the runs found

See `findings` in `PROJECT.json`. Shown by a run: the measure of
`HasEnoughSpace`, the acknowledgement number in `MakeChacedPktOrdered`,
sequence wrap-around, the stale handshake delay. Seen while modelling, and
reflected in the models where they change what happens:

* capture: the policy `ip-port` that is parsed and not stored, the empty
  round-robin batch, the batch loop that processes nothing;
* connections: cached packets that are still processed after their connection
  was abandoned, the premature close in LAST_ACK, one packet more than the
  limit before the handshake, lists of owning pointers that are cleared,
  payload that is passed up after its connection was removed;
* timers: `Start` posts the first wait after the thread was created, and the
  locks of the tables of sessions and of reassemblers are commented out;
* fragments: the list is scanned as if it descended, `meat_` counts bytes that
  were trimmed or repeated, an element is trimmed at a position of the packet,
  `last_frag_in` is never set, the header is refreshed after it was copied;
* HTTP: the length of a request's body is counted against its response's,
  trailing spaces are not stripped, a header of bare LFs is complete for one
  function and not for the next, a request's header that ends with a packet
  is taken for all of the request, and a message with both transfer fields, or a
  request with one each in two parses, fails an assertion and ends the process.

A further weakness is not stated as a property: when the SYN-ACK is never
captured, no packet of the server is ever in order and its list grows until
the connection times out; `S2BListLimited` speaks of a half once its sender
was heard.

## 6. Plan, and what is not modelled

Done: the queue and its batches, the capture pipeline, reordering, analysis
and state machine of a connection, the connection table with its timer and
pool, fragments, HTTP; proofs of every invariant the runs check: the queue, the
pipeline, the table, reordering, the connection, fragments, and the recording of
HTTP exchanges. Nothing of the plan is left.

Not modelled:

* loggers, observers, filters, recorders: they match a finished record against
  configured conditions and write it out; nothing is kept between two records;
* configuration: read once, its values are the constants of the modules;
* packet parsers, `EthMonitor`, `UdpMonitor`, `PktProcessor`: stateless links
  of the chain, modules work with decoded packets;
* `PcapPktCapturer`, `PktDistributor`: the capture path that netmap replaced;
* `CpuCoreManager`, `main`: start-up, in a single thread, and the orderly stop;
* who frees cached packets: memory, not behaviour, but for the finding on the
  lists that are cleared.

`code/branches` holds older copies of the same program and `code/trunk/tool`
vendored tools; only `code/trunk/src` is modelled, which is about a third of
the repository's lines.
