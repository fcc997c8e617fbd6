SPECIFICATION Spec
CONSTANTS
  RxNum = 3
  RxSize = 4
  Traffic <- TrafficStream
  Arrivals = {1, 3}
  LinePace = 1
  Streaming = TRUE
  Readers = {r1, r2}
  ReadLens = {3, 6}
  MaxReads = 3
  InitialSettings <- PlainSetting
  Toggles = {}
  MaxPurges = 0
  MaxOutages = 0
SYMMETRY ReaderSymmetry
INVARIANTS StreamInOrder
