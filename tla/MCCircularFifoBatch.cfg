CONSTANTS
  FifoSize = 5
  Items = {a, b}
  NoItem = NoItem
  RingSlots = 2

SPECIFICATION FairSpec

INVARIANTS
  TypeOK
  EnoughSpace

PROPERTIES
  IsLossyFifo
  SlotsComeBack
