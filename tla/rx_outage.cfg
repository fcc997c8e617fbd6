SPECIFICATION Spec
CONSTANTS
  RxNum = 3
  RxSize = 4
  Traffic <- TrafficPair
  Arrivals = {3}
  LinePace = 1
  Streaming = FALSE
  Readers = {r1, r2}
  ReadLens = {6}
  MaxReads = 2
  InitialSettings <- BareSettings
  Toggles = {"append_status", "rx_multiple"}
  MaxPurges = 1
  MaxOutages = 1
SYMMETRY ReaderSymmetry
INVARIANTS TypeOK RingOwnership CopyInv ReadFitsBuffer FramesInOrder PurgeDiscards
