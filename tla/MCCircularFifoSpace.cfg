CONSTANTS
  FifoSize = 5
  Items = {a, b}
  NoItem = NoItem
  RingSlots = 5

SPECIFICATION Spec

INVARIANT EnoughSpace
