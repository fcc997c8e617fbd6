SPECIFICATION Spec
CONSTANTS
  Calls <- MCCalls
  Mega = 10
  MaxR = 20
INVARIANTS
  EncodingFaithful
  BestDividers
  Nearest30702
CHECK_DEADLOCK FALSE
