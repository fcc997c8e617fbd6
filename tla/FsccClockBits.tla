--------------------------- MODULE FsccClockBits ----------------------------
(***************************************************************************)
(* lib/raw/calculate-clock-bits.c: the searches for the dividers of the    *)
(* two clock chips, ICS307-03 and ICS307-02, and the words that program    *)
(* them.  A state is a position in the outer loops of a search; the inner  *)
(* loops are sets.  Frequencies of the -03 count in 1/Mega MHz, those of   *)
(* the -02 in Hz.  Doubles are exact rationals, except that a comparison   *)
(* whose two sides are equal may fall either way after rounding.  A        *)
(* program word is the set of its bits that are 1: byte b, bit i of        *)
(* progdata is 8 b + i.                                                    *)
(***************************************************************************)
EXTENDS Integers, FiniteSets, FiniteSetsExt

CONSTANTS
  Calls,      \* [chip, frequency, ppm]: the calls of the library
  Mega,       \* units of an ICS307-03 frequency in a MHz
  MaxR        \* bound on the reference dividers tried (1200 in the code)

\* The product ppm * desired of two 32-bit unsigned longs does not wrap.
ASSUME ClockAssumption ==
  /\ Mega \in Nat \ {0} /\ MaxR \in 1..1200
  /\ \A c \in Calls : c.chip = "ICS30703" => c.ppm * c.frequency < 4294 * Mega

VARIABLES
  call,       \* the call in progress
  pos,        \* loop counters: <<ppm, r>> for the -03, <<od, rdw>> for the -02
  low, hi,    \* -02: the best settings below and above the wanted frequency
  result      \* what the call returns, "none" while it searches

vars == <<call, pos, low, hi, result>>

None == [status |-> "none"]

\* w bits of n, the lowest of them bit lo of the word.
BitsOf(n, lo, w) == {lo + i : i \in {j \in 0..(w - 1) : (n \div 2^j) % 2 = 1}}

-----------------------------------------------------------------------------
(* GetICS30703Data: the search.                                            *)

inputfreq == 24 * Mega
min_V == 12
max_V == 2055
Million == 1000000

\* Steps of the output divider, from 8232 down to 2.
OutputDividers ==
  (2..1030) \cup {2 * i : i \in 516..1030} \cup {4 * i : i \in 516..1030} \cup {8 * i : i \in 516..1029}

\* allowable_error, in millionths of a unit.
AllowableError(ppm) == ppm * call.frequency

\* Rule 2: the phase detector runs at 20 kHz to 100 MHz.
rule2(r) == 50 * inputfreq >= Mega * r /\ inputfreq <= 100 * Mega * r

\* Rule 1: the range of the VCO depends on the output divider.
VcoLimit(od) ==
  IF od = 2 THEN 540 ELSE IF od = 3 THEN 720 ELSE IF od \in 38..1029 THEN 570 ELSE 730
rule1(r, od, v) == 90 * Mega * r <= inputfreq * v /\ inputfreq * v <= VcoLimit(od) * Mega * r

\* The loop filter: resistors in kOhm, currents in units of 1.25 uA, tried in
\* this order.
Rs  == <<64, 52, 16, 4>>
Icp == <<1, 2, 3, 4, 5, 6, 7, 8, 9, 10, 12, 14, 15, 16, 18, 20, 21, 24, 28, 32>>
Filters == 0..79
RsOf(n)  == Rs[(n \div 20) + 1]
IcpOf(n) == Icp[(n % 20) + 1]

\* Ten times pdf/nbw, rounded up as the code does it, is 70 to 300, and the
\* damping factor, here squared, 0.2 to 2.  (10 * pdf/nbw = 3891.518 v / (r Rs icp).)
FilterFits(r, v, n) ==
  LET tempint == ((3891 * v + (2007 * v) \div 3875) \div (r * RsOf(n) * IcpOf(n))) + 1
      df2     == 93 * RsOf(n) * RsOf(n) * IcpOf(n)
  IN /\ tempint <= 300 /\ tempint >= 70
     /\ df2 <= 12800 * v /\ df2 >= 128 * v

\* Mutant: starts one above the truncated quotient.
V_Divstart_Above(e, r, od) ==
  LET x == (call.frequency * r * od - ((e * r * od + Million - 1) \div Million)) \div inputfreq
  IN IF x + 1 < min_V THEN min_V ELSE IF x + 1 > max_V THEN max_V ELSE x + 1

\* The VCO divider just below the target.
V_Divstart(e, r, od) ==
  LET x == (call.frequency * r * od - ((e * r * od + Million - 1) \div Million)) \div inputfreq
  IN IF x < min_V THEN min_V ELSE IF x > max_V THEN max_V ELSE x

\* freq_err and allowable_error, multiplied by r * od.
FreqErr(r, od, v) ==
  LET diff == inputfreq * v - call.frequency * r * od IN IF diff < 0 THEN -diff ELSE diff
Within(e, r, od, v) == FreqErr(r, od, v) <= (e * r * od) \div Million

\* The VCO dividers the innermost loops can accept; above the last one looked at
\* here the frequency is too high already.
Accepted(e, r, od) ==
  LET last == (call.frequency * r * od + ((e * r * od) \div Million)) \div inputfreq
  IN {v \in V_Divstart(e, r, od)..(IF last < max_V THEN last ELSE max_V) :
        /\ rule1(r, od, v) /\ Within(e, r, od, v)
        /\ \E n \in Filters : FilterFits(r, v, n)}

\* Rounding decides only at equality: a damping factor of 0.2 (2 is never met), or
\* an error as large as allowed, unless v / (r od) has an exact double.
FilterCertain(r, v, n) ==
  FilterFits(r, v, n) /\ 93 * RsOf(n) * RsOf(n) * IcpOf(n) # 128 * v
ExactDouble(r, od, v) == (262144 * v) % (r * od) = 0
Certain(e, r, od, v) ==
  /\ \/ FreqErr(r, od, v) * Million < e * r * od
     \/ FreqErr(r, od, v) = 0 /\ ExactDouble(r, od, v)
  /\ \E n \in Filters : FilterCertain(r, v, n)

\* The order of the loops on od (down) and v (up).
Before(p, q) == p[1] > q[1] \/ (p[1] = q[1] /\ p[2] < q[2])

-----------------------------------------------------------------------------
(* GetICS30703Data: the program word.                                      *)

\* progdata before the tables: unused bytes, crystal, power up, CLK1 enabled.
FixedBits == (136..159) \cup {122, 112, 110}

\* Mutant: the middle range is off by one.
InputDividerBits_OffByOne(r) ==
  IF r = 1 THEN {} ELSE IF r = 2 THEN {0}
  ELSE IF r <= 17 THEN {1} \cup BitsOf(15 - (r - 3), 2, 4)
  ELSE {0, 1} \cup BitsOf(r - 8, 2, 11)

\* Table 1.
InputDividerBits(r) ==
  IF r = 1 THEN {} ELSE IF r = 2 THEN {0}
  ELSE IF r <= 17 THEN {1} \cup BitsOf(15 - (r - 2), 2, 4)
  ELSE {0, 1} \cup BitsOf(r - 8, 2, 11)

\* Table 2.
VcoDividerBits(v) == BitsOf(v - 8, 13, 11)

\* Table 4.
ResistorBits(rs) == CASE rs = 64 -> {} [] rs = 52 -> {90} [] rs = 16 -> {89} [] rs = 4 -> {89, 90}

\* Table 3.
PumpGroup(icp) ==
  CASE icp \in {1, 2, 3, 4} -> {91, 92, 93}
    [] icp \in {9, 12}      -> {91, 93}
    [] icp \in {5, 10, 15, 20} -> {91, 92}
    [] icp \in {6, 18}      -> {92}
    [] icp \in {7, 14, 21, 28} -> {91}
    [] icp \in {8, 16, 24, 32} -> {}
PumpFactor(icp) ==
  CASE icp \in {1, 5, 6, 7, 8}        -> {}
    [] icp \in {2, 10, 14, 16}        -> {127}
    [] icp \in {3, 9, 15, 18, 21, 24} -> {128}
    [] icp \in {4, 12, 20, 28, 32}    -> {127, 128}

\* Table 5: small dividers one by one, then a 5 bit counter, then
\* (2 (x + 3) + y) * 2^z with the smallest x that gives od.
SmallDividers == {2, 3, 4, 5, 6, 7, 9, 11, 13}
SmallDividerBits(od) ==
  CASE od = 2 -> {}             [] od = 3 -> {95}
    [] od = 4 -> {98}           [] od = 5 -> {96}
    [] od = 6 -> {95, 98}       [] od = 7 -> {95, 96}
    [] od = 9 -> {95, 96, 98}   [] od = 11 -> {95, 96, 99}
    [] od = 13 -> {95, 96, 98, 99}

Composes(od, x, y, z) == od = (2 * (x + 3) + y) * 2^z

OutputDividerBits(od) ==
  IF od \in SmallDividers THEN SmallDividerBits(od)
  ELSE IF od <= 37 THEN {97} \cup BitsOf(31 - (od - 6), 98, 5)
  ELSE LET z == Max({n \in 0..3 : \E y \in 0..1 : \E x \in 0..511 : Composes(od, x, y, n)})
           y == (od \div 2^z) % 2
           x == (od \div 2^z) \div 2 - 3
       IN {95, 97} \cup BitsOf(x, 101, 9) \cup BitsOf(z, 99, 2) \cup (IF y = 0 THEN {98} ELSE {})

ProgramWord(r, v, od, n) ==
  FixedBits \cup InputDividerBits(r) \cup VcoDividerBits(v) \cup ResistorBits(RsOf(n))
  \cup PumpGroup(IcpOf(n)) \cup PumpFactor(IcpOf(n)) \cup OutputDividerBits(od)

\* The settings the loops on od, v and the filter can stop at.
Found(e, r) ==
  UNION {{od} \X Accepted(e, r, od) :
           od \in {o \in OutputDividers : rule2(r) /\ Accepted(e, r, o) # {}}}
Sure(e, r, found) == {p \in found : Certain(e, r, p[1], p[2])}

\* One reference divider: the first setting in the order of the loops, or on to
\* the next divider, the next ppm, or the error "no solutions found".
Try30703 ==
  /\ call.chip = "ICS30703" /\ result = None
  /\ \E found \in {Found(AllowableError(pos[1]), pos[2])} :
     \E sure \in {Sure(AllowableError(pos[1]), pos[2], found)} :
       LET ppm == pos[1]
           r   == pos[2]
       IN \/ \E p \in {q \in found : \A s \in sure : ~Before(s, q)}, n \in Filters :
                /\ FilterFits(r, p[2], n)
                /\ \A m \in 0..(n - 1) : ~FilterCertain(r, p[2], m)
                /\ result' = [status |-> "ok", r |-> r, v |-> p[2], od |-> p[1], rs |-> RsOf(n),
                              icp |-> IcpOf(n), bits |-> ProgramWord(r, p[2], p[1], n),
                              frequency |-> (inputfreq * p[2]) \div (r * p[1])]
                /\ UNCHANGED pos
          \/ /\ sure = {}
             /\ pos' = IF r < MaxR THEN <<ppm, r + 1>> ELSE <<ppm + 1, 1>>
             /\ result' = IF r = MaxR /\ ppm + 1 > call.ppm THEN [status |-> "no_solution"]
                                                            ELSE result
  /\ UNCHANGED <<call, low, hi>>

-----------------------------------------------------------------------------
(* GetICS30702Data, with the 32-bit unsigned long of the target.           *)

inFreq2 == 36864000         \* inFreq * 2 = 2^15 * 1125
Saturated == 2147483647     \* stands for every larger check: far above any rate
NoSetting(f) == [clk |-> f, vdw |-> 1, rdw |-> 1, od |-> 1]

\* The highest rate for an output divider; 9 is not allowed.
MaxRate ==
  [od \in {2, 3, 4, 5, 6, 7, 8, 10} |->
     CASE od = 2 -> 180000000 [] od = 3 -> 120000000 [] od = 4 -> 90000000
       [] od = 5 -> 72000000  [] od = 6 -> 60000000  [] od = 7 -> 50000000
       [] od = 8 -> 45000000  [] od = 10 -> 36000000]
NextOd(od) == IF od = 8 THEN 10 ELSE od + 1

Check(od, rdw, vdw) ==
  LET step == inFreq2 \div ((rdw + 2) * od)
  IN IF step > Saturated \div (vdw + 8) THEN Saturated ELSE step * (vdw + 8)

\* inFreq * 2 * (vdw + 8) is 2^15 times this, and wraps at 2^32.
WrappedFactor(vdw) == (1125 * (vdw + 8)) % 131072
Range1(rdw, vdw) ==
  LET d == rdw + 2
      m == WrappedFactor(vdw)
  IN (32768 * (m \div d)) + ((32768 * (m % d)) \div d)
Range2(rdw) == (inFreq2 \div 2) \div (rdw + 2)

InRange(rdw, vdw) ==
  Range1(rdw, vdw) > 60000000 /\ Range1(rdw, vdw) < 360000000 /\ Range2(rdw) > 200000

\* A combination that repeats the best frequency replaces it if its reference
\* divider is smaller, or the same with a larger VCO divider.
Displaces(c, best) ==
  c.clk = best.clk /\ (best.rdw > c.rdw \/ (best.rdw = c.rdw /\ best.vdw < c.vdw))

\* The inner loop over vdw for one od and rdw.  The frequencies grow with vdw, so
\* the last below the rate and the first above it are what the loop leaves.
NewLow(row) ==
  LET rising == {c \in row : low.clk < c.clk /\ c.clk <= call.frequency /\ c.clk < hi.clk}
      ties   == {c \in row : Displaces(c, low)}
  IN IF rising # {} THEN CHOOSE c \in rising : \A d \in rising : d.clk <= c.clk
     ELSE IF ties # {} THEN CHOOSE c \in ties : TRUE ELSE low

\* Mutant: a new high replaces the old one whatever its distance.
NewHi_Any(row) ==
  LET above == {c \in row : call.frequency < c.clk /\ c.clk < call.frequency + (call.frequency \div 10)}
  IN IF above # {} THEN CHOOSE c \in above : \A d \in above : c.clk <= d.clk ELSE hi

NewHi(row) ==
  LET falling == {c \in row : call.frequency < c.clk /\ c.clk < hi.clk /\ low.clk < c.clk}
      ties    == {c \in row : c.clk # low.clk /\ Displaces(c, hi)}
  IN IF falling # {} THEN CHOOSE c \in falling : \A d \in falling : c.clk <= d.clk
     ELSE IF ties # {} THEN CHOOSE c \in ties : TRUE ELSE hi

Row(od, rdw) ==
  {[clk |-> Check(od, rdw, vdw), vdw |-> vdw, rdw |-> rdw, od |-> od] :
     vdw \in {w \in 4..511 : InRange(rdw, w)}}

\* One reference divider of one output divider, or on to the next output divider.
Try30702 ==
  /\ call.chip = "ICS30702" /\ result = None /\ pos[1] <= 10
  /\ LET od  == pos[1]
         rdw == pos[2]
     IN \/ /\ call.frequency <= MaxRate[od]
           /\ low' = NewLow(Row(od, rdw))
           /\ hi' = NewHi(Row(od, rdw))
           /\ pos' = IF rdw < 127 THEN <<od, rdw + 1>> ELSE <<NextOd(od), 1>>
        \/ /\ call.frequency > MaxRate[od]
           /\ pos' = <<NextOd(od), 1>>
           /\ UNCHANGED <<low, hi>>
  /\ UNCHANGED <<call, result>>

\* The output divider's code in the control word.
OdCode ==
  [od \in {2, 3, 4, 5, 6, 7, 8, 10} |->
     CASE od = 2 -> 17 [] od = 3 -> 22 [] od = 4 -> 19 [] od = 5 -> 20
       [] od = 6 -> 23 [] od = 7 -> 21 [] od = 8 -> 18 [] od = 10 -> 16]

\* The nearer of the two, the lower one on a tie; nothing found is an error.
Choose30702 ==
  /\ call.chip = "ICS30702" /\ result = None /\ pos[1] > 10
  /\ LET best == IF hi.clk - call.frequency < call.frequency - low.clk THEN hi ELSE low
     IN result' = IF best.od = 1 THEN [status |-> "no_solution"]
                  ELSE [status |-> "ok", rdw |-> best.rdw, vdw |-> best.vdw, od |-> best.od,
                        bits |-> (OdCode[best.od] * 512 + best.vdw) * 128 + best.rdw,
                        frequency |-> Check(best.od, best.rdw, best.vdw)]
  /\ UNCHANGED <<call, pos, low, hi>>

-----------------------------------------------------------------------------
(* The specification: one call.                                            *)

Init ==
  /\ call \in Calls
  /\ pos = IF call.chip = "ICS30703" THEN <<0, 1>> ELSE <<2, 1>>
  /\ low = NoSetting(call.frequency - (call.frequency \div 10))
  /\ hi = NoSetting(call.frequency + (call.frequency \div 10))
  /\ result = None

Next == Try30703 \/ Try30702 \/ Choose30702

Spec == Init /\ [][Next]_vars

-----------------------------------------------------------------------------
(* Correctness.  The reference: what a chip does with a word, and which    *)
(* settings of a chip are usable for a frequency.                          *)

Field(bits, lo, w) == MapThenSumSet(LAMBDA i : 2^(i - lo), bits \cap (lo..(lo + w - 1)))

ChipR(bits) ==
  LET f == Field(bits, 0, 2)
  IN IF f < 2 THEN f + 1 ELSE IF f = 2 THEN 17 - Field(bits, 2, 4) ELSE Field(bits, 2, 11) + 8
ChipV(bits)   == Field(bits, 13, 11) + 8
ChipRs(bits)  == <<64, 16, 52, 4>>[Field(bits, 89, 2) + 1]
ChipIcp(bits) == (8 - Field(bits, 91, 3)) * (Field(bits, 127, 2) + 1)
ChipOd(bits)  ==
  LET y == IF 98 \in bits THEN 0 ELSE 1
  IN IF 97 \in bits /\ 95 \in bits
     THEN (2 * (Field(bits, 101, 9) + 3) + y) * 2^Field(bits, 99, 2)
     ELSE IF 97 \in bits THEN 37 - Field(bits, 98, 5)
     ELSE CHOOSE od \in SmallDividers : SmallDividerBits(od) = bits \cap (95..109)

\* What was programmed is what was computed: the chip reads the dividers, the
\* resistor and the current back from the word as the search chose them, and the
\* reported frequency is theirs.
EncodingFaithful ==
  result.status = "ok" =>
    IF call.chip = "ICS30703"
    THEN /\ ChipR(result.bits) = result.r /\ ChipV(result.bits) = result.v
         /\ ChipRs(result.bits) = result.rs /\ ChipIcp(result.bits) = result.icp
         /\ ChipOd(result.bits) = result.od
         /\ result.frequency * result.r * result.od <= inputfreq * result.v
    ELSE /\ result.bits % 128 = result.rdw /\ (result.bits \div 128) % 512 = result.vdw
         /\ OdCode[result.od] = result.bits \div 65536
         /\ result.frequency \in {low.clk, hi.clk}

\* Output dividers that leave the VCO near its range.
NearDividers == {od \in OutputDividers : call.frequency * od \in (80 * Mega)..(740 * Mega)}

\* A setting that no rounding can refuse, whatever loop looks at it.
Usable(ppm, r, od) ==
  LET e      == AllowableError(ppm)
      middle == (call.frequency * r * od) \div inputfreq
      spread == ((e * r * od) \div (Million * inputfreq)) + 2
  IN /\ rule2(r)
     /\ \E v \in (middle - spread)..(middle + spread) :
          v \in min_V..max_V /\ rule1(r, od, v) /\ Certain(e, r, od, v)

\* "1st key best accuracy, 2nd key lowest reference divide, 3rd key highest VCO
\* frequency (OD)": no usable setting was passed over for the one chosen, and an
\* error means that there is none.
BestDividers ==
  call.chip = "ICS30703" /\ result # None =>
    \A ppm \in 0..call.ppm, r \in 1..MaxR, od \in NearDividers :
      \/ /\ result.status = "ok"
         /\ \/ ppm > pos[1]
            \/ ppm = pos[1] /\ r > result.r
            \/ ppm = pos[1] /\ r = result.r /\ od <= result.od
      \/ ~Usable(ppm, r, od)

Distance(f) == IF f > call.frequency THEN f - call.frequency ELSE call.frequency - f

\* Of all the combinations the -02 accepts within a tenth of the rate, the one
\* chosen has the nearest frequency.
Nearest30702 ==
  call.chip = "ICS30702" /\ result # None =>
    \A od \in {o \in DOMAIN MaxRate : call.frequency <= MaxRate[o]}, rdw \in 1..127 :
      \A c \in Row(od, rdw) :
        \/ Distance(c.clk) >= call.frequency \div 10
        \/ result.status = "ok" /\ Distance(result.frequency) <= Distance(c.clk)

\* "check operating ranges": the VCO of the setting chosen runs between 60 and
\* 360 MHz.
VcoInRange ==
  call.chip = "ICS30702" /\ result.status = "ok" =>
    LET n == 1125 * (result.vdw + 8)    \* VCO = 2^15 n / (rdw + 2)
    IN n * 32 > 58593 * (result.rdw + 2) /\ n * 32 < 351563 * (result.rdw + 2)

=============================================================================
