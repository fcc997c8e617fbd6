SPECIFICATION Spec
CONSTANTS
  TxNum = 3
  TxSize = 4
  FifoSize = 16
  TfLimit = 1
  Oframes = {o1}
  Requesters = {q1}
  WriteLens = {6}
  MaxWrites = 2
  InitialSettings <- BlockingSetting
  Toggles = {"blocking_write"}
  MaxPurges = 1
  MaxOutages = 1
INVARIANTS TypeOK TxRingOwnership
