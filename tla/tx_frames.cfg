SPECIFICATION Spec
CONSTANTS
  TxNum = 3
  TxSize = 4
  FifoSize = 48
  TfLimit = 254
  Oframes = {o1, o2}
  Requesters = {q1}
  WriteLens = {0, 3, 6, 13}
  MaxWrites = 2
  InitialSettings <- WaitSettings
  Toggles = {"wait_on_write"}
  MaxPurges = 1
  MaxOutages = 1
SYMMETRY OframeSymmetry
INVARIANTS SentIntact WriteAllOrNothing TxPurgeDiscards
