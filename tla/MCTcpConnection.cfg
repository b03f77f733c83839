CONSTANTS
  Conversations <- Dialogues
  MaxCopies = 1
  MaxUnordered = 3
  MaxBefore = 4
  SeqRange = 16
  HandshakeTimeout = 1
  MaxClock = 2

SPECIFICATION ConnSpec

INVARIANTS
  ConnTypeOK
  NotAborted
  CloseComplete
  EndRecorded
  RecordedOnce
  FsmAgrees
