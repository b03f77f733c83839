CONSTANTS
  Conversations <- Wrapping
  MaxCopies = 2
  MaxUnordered = 2
  MaxBefore = 3
  SeqRange = 16

SPECIFICATION Spec

INVARIANT RetransmitsPassedOn
