------------------------ MODULE Ipv4FragReassembler ------------------------
(***************************************************************************)
(* What Ipv4FragReassembler makes of the fragments of one IP packet, as    *)
(* operators from reassembler to reassembler.  A fragment is a range of    *)
(* the packet's bytes, which are told apart by their position: the data of *)
(* a fragment is a sequence of positions.                                  *)
(***************************************************************************)
EXTENDS Integers, Sequences, FiniteSets, SequencesExt

CONSTANTS
  MaxPktLen,   \* MAX_IP_PKT_LEN
  Word         \* 2^16: meat_ is an uint16, and what is trimmed stays counted

ASSUME ReassemblerAssumption == MaxPktLen \in Nat /\ Word \in Nat /\ MaxPktLen < Word

(* A fragment on the wire: off, len (l3_data_len) and mf. *)
BytesOf(off, len) == [i \in 1 .. len |-> off + i - 1]
Bytes(f) == Range(BytesOf(f.off, f.len))

(* meat_, pkt_end_ (read only after it was set), flag_, and pkt_frags_ in  *)
(* list order; seen is the fragments it did not refuse, oldest first.      *)
NewReassembler == [meat |-> 0, end |-> 0, flag |-> {}, frags |-> <<>>, seen |-> <<>>]

IfPktCompleted(r) == r.meat = r.end /\ r.flag = {"first", "last"}

(* ProcFrontPktFrag and ProcRearPktFrag refuse repeats.  A fragment at     *)
(* offset 0 is never taken for the last.                                   *)
Refused(r, f) ==
  \/ f.len = 0
  \/ f.off + f.len > MaxPktLen
  \/ f.off = 0 /\ "first" \in r.flag
  \/ f.off # 0 /\ ~ f.mf /\ "last" \in r.flag

Noted(r, f) ==
  LET noted == [r EXCEPT !.seen = Append(@, f)] IN
  IF f.off = 0 THEN [noted EXCEPT !.flag = @ \cup {"first"}]
  ELSE IF ~ f.mf THEN [noted EXCEPT !.flag = @ \cup {"last"}, !.end = f.off + f.len]
  ELSE noted

(* string::erase(pos, n), for pos within the string. *)
EraseData(data, pos, n) ==
  SubSeq(data, 1, pos) \o SubSeq(data, pos + n + 1, Len(data))

(* One turn of the loop of DoInsertPktFrag.  scan: the elements so far;    *)
(* left: how many stand before the place of insertion, -1 for the end of   *)
(* the list; go: whether the loop goes on, has stopped, or has returned.   *)
ScanFrag(scan, x, f) ==
  LET begin == x.off
      end   == x.off + Len(x.data)
      last  == f.off + f.len
      keep  == [scan EXCEPT !.list = Append(@, x)]
  IN
  CASE scan.go # "on" -> keep
    [] scan.go = "on" /\ end <= f.off   -> [keep EXCEPT !.go = "stop"]
    [] scan.go = "on" /\ begin >= last  -> [keep EXCEPT !.left = Len(scan.list)]
    [] scan.go = "on" /\ end > f.off /\ begin < last ->
         CASE begin <= f.off /\ end >= last -> [keep EXCEPT !.go = "return"]
           [] f.off <= begin /\ last >= end /\ last - f.off > end - begin -> scan
           [] begin < f.off /\ end < last ->
                [scan EXCEPT !.list = Append(@, [off |-> begin, data |-> EraseData(x.data, f.off, end - f.off)])]
           [] begin > f.off /\ end > last ->
                [scan EXCEPT !.list = Append(@, [off |-> last, data |-> EraseData(x.data, 0, last - begin)]),
                             !.left = Len(scan.list)]

ScanFrags(frags, f) ==
  FoldLeft(LAMBDA s, x : ScanFrag(s, x, f), [list |-> <<>>, left |-> -1, go |-> "on"], frags)

(* The element made of a fragment; those of a sequence of them. *)
Element(f)  == [off |-> f.off, data |-> BytesOf(f.off, f.len)]
Elements(s) == [k \in DOMAIN s |-> Element(s[k])]

(* Mutant: whatever the loop found, the fragment goes to the end. *)
DoInsertPktFragLast(r, f) ==
  [r EXCEPT !.meat = (@ + f.len) % Word,
            !.frags = Append(ScanFrags(@, f).list, Element(f))]

DoInsertPktFrag(r, f) ==
  LET scan == ScanFrags(r.frags, f)
      at   == IF scan.left = -1 THEN Len(scan.list) ELSE scan.left
  IN IF scan.go = "return" THEN [r EXCEPT !.frags = scan.list]
     ELSE [r EXCEPT !.meat = (@ + f.len) % Word, !.frags = InsertAt(scan.list, at + 1, Element(f))]

ProcFirstInPktFrag(r, f) ==
  [r EXCEPT !.meat = f.len, !.frags = <<Element(f)>>]

InsertPktFrag(r, f) ==
  CASE Refused(r, f)                          -> r
    [] ~ Refused(r, f) /\ r.frags = <<>>      -> ProcFirstInPktFrag(Noted(r, f), f)
    [] ~ Refused(r, f) /\ r.frags # <<>>      -> DoInsertPktFrag(Noted(r, f), f)

(* The data ReasmPktFrags copies into the packet it passes on. *)
DataOf(frags)    == FlattenSeq([i \in DOMAIN frags |-> frags[i].data])
ReasmPktFrags(r) == DataOf(r.frags)

=============================================================================
