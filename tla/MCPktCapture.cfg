CONSTANTS
  NumSlots = 3
  Configs <- Machines

SPECIFICATION FairSpec

INVARIANTS
  TypeOK
  NoReuse
  NoSlotLost
  InOrder

PROPERTIES
  RingMoves
