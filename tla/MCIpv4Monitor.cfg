SPECIFICATION FairSpec
CONSTANTS
  p1 = p1
  p2 = p2
  PktIdx = {p1, p2}
  Frags <- MCFrags
  MaxIn <- MCMaxIn
  MaxPktLen = 4
  Word = 6
  NoReassembler = NoReassembler
INVARIANTS TypeOK Exact InOrder
PROPERTY Forgotten
