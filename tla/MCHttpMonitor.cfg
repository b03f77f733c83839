SPECIFICATION Spec
CONSTANTS
  Exchanges <- MCExchanges
  MaxHexSize = 2
  \* scaled down, so that 33 is too many
  MaxUint16 = 30
  MaxUint32 = 30
  NoSession = NoSession
  NoRecord = NoRecord
\* a failed assertion ends the process
CHECK_DEADLOCK FALSE
INVARIANTS TypeOK AssertsHold Recorded NotEarly
