-------------------------- MODULE MCFsccClockBits ---------------------------
EXTENDS FsccClockBits

\* Frequencies of the ICS307-03 in tenths of a MHz: settings in every branch of the
\* tables, and frequencies that have none.
Calls03 == {[chip |-> "ICS30703", frequency |-> f, ppm |-> 1] :
              f \in {9, 100, 500, 1228, 2400, 2503, 3500}}

\* Rates of the ICS307-02 in Hz, over and at the limits of the output dividers too.
Calls02 == {[chip |-> "ICS30702", frequency |-> f, ppm |-> 0] :
              f \in {18432000, 36000001, 125000000, 180000001}}

MCCalls == Calls03 \cup Calls02
MCCalls180 == {[chip |-> "ICS30702", frequency |-> 180000000, ppm |-> 0]}
=============================================================================
