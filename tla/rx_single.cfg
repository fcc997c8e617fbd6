SPECIFICATION FairSpec
CONSTANTS
  RxNum = 3
  RxSize = 4
  Traffic <- TrafficWrap
  Arrivals = {2, 3}
  LinePace = 0
  Streaming = FALSE
  Readers = {r1}
  ReadLens = {4, 30}
  MaxReads = 2
  InitialSettings <- StampSettings
  Toggles = {}
  MaxPurges = 0
  MaxOutages = 0
INVARIANTS FramesIntact TimestampAfterReception
PROPERTIES NoStall
