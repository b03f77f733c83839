CONSTANTS
  Conversations <- Dialogues
  MaxCopies = 2
  MaxUnordered = 2
  MaxBefore = 3
  SeqRange = 16

SPECIFICATION Spec

INVARIANTS
  TypeOK
  StreamsInOrder
  AcknowledgedFirst
  AllPassedOn
  RetransmitsPassedOn
  BoundedBeforeHandshake

PROPERTIES
  S2BListLimited
