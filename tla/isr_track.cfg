SPECIFICATION FairSpec
CONSTANTS
  Bits = {"RFE", "ALLS"}
  Masks <- TwoMasks
  Workers = {w1, w2}
  MaxRaises = 2
  MaxRequests = 3
INVARIANTS CompletedOnce
PROPERTIES SearchComplete SearchEnds
CHECK_DEADLOCK FALSE
