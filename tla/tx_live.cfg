SPECIFICATION FairSpec
CONSTANTS
  TxNum = 3
  TxSize = 4
  FifoSize = 16
  TfLimit = 1
  Oframes = {o1}
  Requesters = {q1}
  WriteLens = {4, 9, 13}
  MaxWrites = 3
  InitialSettings <- BlockingSetting
  Toggles = {}
  MaxPurges = 0
  MaxOutages = 0
INVARIANTS SentInOrder
PROPERTIES AllSent
