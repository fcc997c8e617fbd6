SPECIFICATION Spec
CONSTANTS
  TxNum = 2
  RxNum = 3
  Writes <- LongShort
  Arrivals <- ShortAndLong
  Reads = 2
  Purges = 1
  AtomicStop = FALSE
INVARIANTS
  
  StampedAfterArrival
PROPERTIES
  
  RxIsQueue
  ReadsServed
CHECK_DEADLOCK FALSE
