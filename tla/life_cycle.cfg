SPECIFICATION Spec
CONSTANTS
  d1 = d1
  d2 = d2
  d3 = d3
  Devices = {d1, d2}
  RingNums = {0, 3}
  AddFaults = {"device", "numbered", "counted"}
  Resources <- PortCard
  MaxTimers = 2
SYMMETRY Symmetric
INVARIANTS
  NoLeak
  RingsClosed
  DmaIntoOwnedMemory
PROPERTY
  NumbersStay
