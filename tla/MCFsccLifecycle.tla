-------------------------- MODULE MCFsccLifecycle ---------------------------
EXTENDS FsccLifecycle, TLC

CONSTANTS d1, d2, d3

PortCard   == <<"port", "private", "port", "private", "interrupt">>
MemoryCard == <<"memory", "private", "memory", "private", "interrupt">>

Symmetric == Permutations(Devices)
=============================================================================
