SPECIFICATION Spec
CONSTANTS
  Bar0 <- Columns
  Requests <- MixedRequests
  Defaults <- Factory
  HasDma = TRUE
  MaxCalls = 3
  MaxOutages = 1
INVARIANTS SetExact  
