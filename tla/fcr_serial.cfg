SPECIFICATION Spec
CONSTANTS
  Ports = {p0, p1}
  Threads = {t1, t2}
  Ops = {"create", "close", "clock", "registers", "serial"}
  MaxCalls = 6
SYMMETRY Symmetric
INVARIANTS TypeOK BitsKept
CHECK_DEADLOCK FALSE
