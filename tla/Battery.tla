------------------------------ MODULE Battery ------------------------------
(***************************************************************************)
(* The battery measurement of sensors/battery.c: a reading of the ADC      *)
(* becomes millivolts at the battery, before the divider, and millivolts   *)
(* become a state of charge by interpolation over a discharge curve.       *)
(*                                                                         *)
(* The driver of the ADC (external) delivers a signed reading: with an     *)
(* input near ground it may be a little below zero.  The state of charge   *)
(* is kept in hundredths of a percent, in which the double the code        *)
(* returns, a percentage after its last line divided by 100, is a whole    *)
(* number up to rounding.  battery.h:47 promises the hundredfold, parts    *)
(* per ten thousand; the two differ in the unit, which no state has.       *)
(***************************************************************************)
EXTENDS Integers, Sequences

CONSTANTS levels,       \* the discharge curve: records of pptt and mV
          output_ohm, full_ohm,     \* the divider
          Readings      \* what the ADC may deliver

\* "the first point has lvl_pptt set to 10000 and the last point has lvl_pptt
\* set to zero.  Both should be monotonic decreasing" (battery.h:27-31).
ASSUME CurveAssumption ==
    /\ levels \in Seq([pptt : Nat, mV : Nat])
    /\ Len(levels) > 1
    /\ levels[1].pptt = 10000 /\ levels[1].mV <= 65535
    /\ levels[Len(levels)].pptt = 0
    /\ \A i \in 1 .. Len(levels) - 1 : /\ levels[i].pptt > levels[i + 1].pptt
                                       /\ levels[i].mV > levels[i + 1].mV

ASSUME DividerAssumption ==
    /\ output_ohm \in Nat \ {0} /\ full_ohm \in Nat
    /\ Readings \subseteq Int

VARIABLES pc,           \* what the caller waits for
          battery_ok,   \* the divider is set up (and is_battery_init)
          raw,          \* history: the last reading
          batt_mV,      \* the last voltage
          soc           \* its state of charge

vars == <<pc, battery_ok, raw, batt_mV, soc>>

TypeOK ==
    /\ pc \in {"setup", "ready", "measured"}
    /\ battery_ok \in BOOLEAN
    /\ raw \in Readings \cup {0}
    /\ batt_mV \in Int /\ -32768 <= batt_mV /\ batt_mV <= 32767
    /\ soc \in Nat /\ soc <= 10000

Init == pc = "setup" /\ battery_ok = FALSE /\ raw = 0 /\ batt_mV = -1 /\ soc = 0

-----------------------------------------------------------------------------
(* From a reading to millivolts.                                           *)

\* adc_raw_to_millivolts: reference of 600 mV, gain of 1/6, 14 bits.
Millivolts(r) == (r * 600 * 6) \div 2^14

ToInt16(v) == ((v + 32768) % 65536) - 32768

\* Byte i of the 64-bit word that stands for -n (n positive, below 2^31).
Byte(n, i) == IF i > 3 THEN 255 ELSE ((-n) \div 256^i) % 256

\* A step of the long division by d: what it has so far goes on to the next byte.
\* Only the last 16 bits of the quotient are kept.
DivideByte(so_far, byte, d) ==
    LET rem == 256 * so_far.rem + byte
    IN  [quot |-> (256 * so_far.quot + rem \div d) % 65536, rem |-> rem % d]

\* The quotient of that word by d (below 2^23), to its last 16 bits.
WordQuotient(n, d) ==
    LET b7 == DivideByte([quot |-> 0, rem |-> 0], Byte(n, 7), d)
        b6 == DivideByte(b7, Byte(n, 6), d)
        b5 == DivideByte(b6, Byte(n, 5), d)
        b4 == DivideByte(b5, Byte(n, 4), d)
        b3 == DivideByte(b4, Byte(n, 3), d)
        b2 == DivideByte(b3, Byte(n, 2), d)
        b1 == DivideByte(b2, Byte(n, 1), d)
        b0 == DivideByte(b1, Byte(n, 0), d)
    IN  b0.quot

\* val * (uint64_t)full_ohm / output_ohm, assigned to an int16_t: the product
\* is unsigned, whatever the sign of val.
Undivided(val) ==
    ToInt16(IF val >= 0 THEN (val * full_ohm) \div output_ohm
                        ELSE WordQuotient(-val * full_ohm, output_ohm))

-----------------------------------------------------------------------------
(* From millivolts to the state of charge.                                 *)

\* Where the walk down the curve stops: at the first point that is not above
\* the voltage, or at a point of zero charge.
Below(mV) ==
    CHOOSE i \in 1 .. Len(levels) :
        /\ levels[i].pptt = 0 \/ mV >= levels[i].mV
        /\ \A j \in 1 .. i - 1 : levels[j].pptt > 0 /\ mV < levels[j].mV

\* Mutants of the next operator: the quotient taken before the product, and
\* the slope run backwards.
InterpolatedCoarse(a, b, mV) ==
    b.pptt + ((a.pptt - b.pptt) \div (a.mV - b.mV)) * (mV - b.mV)
InterpolatedBackwards(a, b, mV) ==
    b.pptt + ((a.pptt - b.pptt) * (a.mV - mV)) \div (a.mV - b.mV)

Interpolated(a, b, mV) ==
    b.pptt + ((a.pptt - b.pptt) * (mV - b.mV)) \div (a.mV - b.mV)

\* Mutant of the next operator: no floor under the last point.
SocWithoutFloor(mV) ==
    IF mV >= levels[1].mV THEN levels[1].pptt
    ELSE Interpolated(levels[Below(mV) - 1], levels[Below(mV)], mV)

sensor_get_battery_soc(mV) ==
    IF mV >= levels[1].mV THEN levels[1].pptt
    ELSE IF mV < levels[Below(mV)].mV THEN levels[Below(mV)].pptt
    ELSE Interpolated(levels[Below(mV) - 1], levels[Below(mV)], mV)

-----------------------------------------------------------------------------
(* The calls.                                                              *)

\* Run by the kernel before the application; any error leaves it not set up.
battery_setup ==
    /\ pc = "setup"
    /\ pc' = "ready"
    /\ battery_ok' \in BOOLEAN
    /\ UNCHANGED <<raw, batt_mV, soc>>

\* sensor_get_battery_mV, and the state of charge of what it returns.  -1
\* stands for every error.
sensor_get_battery_mV ==
    /\ pc = "ready"
    /\ \/ /\ battery_ok
          /\ raw' \in Readings
          /\ batt_mV' = Undivided(Millivolts(raw'))
       \/ raw' = 0 /\ batt_mV' = -1
    /\ soc' = sensor_get_battery_soc(batt_mV')
    /\ pc' = "measured"
    /\ UNCHANGED battery_ok

\* The caller is done with the result.
Used ==
    /\ pc = "measured"
    /\ pc' = "ready"
    /\ raw' = 0 /\ batt_mV' = -1 /\ soc' = 0
    /\ UNCHANGED battery_ok

Next == battery_setup \/ sensor_get_battery_mV \/ Used

Spec == Init /\ [][Next]_vars

-----------------------------------------------------------------------------
(* Properties.                                                             *)

\* The reference: s is the point of the broken line through the levels at mV,
\* rounded down, and constant beyond its ends.
OnCurve(mV, s) ==
    \/ mV >= levels[1].mV /\ s = 10000
    \/ mV < levels[Len(levels)].mV /\ s = 0
    \/ \E i \in 1 .. Len(levels) - 1 :
          LET a  == levels[i]
              b  == levels[i + 1]
              dx == a.mV - b.mV
              dy == a.pptt - b.pptt
          IN  /\ b.mV <= mV /\ mV <= a.mV
              /\ (s - b.pptt) * dx <= dy * (mV - b.mV)
              /\ (s - b.pptt + 1) * dx > dy * (mV - b.mV)

\* The walk down the curve, the choice of the two neighbours and the integer
\* division give the point of the discharge curve, at its joints and beyond
\* its ends too, for the voltage measured and the next millivolt.
SocOnCurve ==
    \A mV \in {batt_mV, batt_mV + 1} : OnCurve(mV, sensor_get_battery_soc(mV))

\* A battery with more voltage never shows less charge, within a segment of
\* the curve and from one to the next.
SocMonotonic ==
    \A mV \in {batt_mV, batt_mV + 1} :
        sensor_get_battery_soc(mV) <= sensor_get_battery_soc(mV + 1)

\* "the battery voltage in millivolts, or a negative error code" (battery.h:20):
\* a reading is never taken for a voltage the ADC cannot see.
VoltageOrError ==
    pc = "measured" =>
        batt_mV < 0 \/ (raw >= 0 /\ batt_mV = (Millivolts(raw) * full_ohm) \div output_ohm)
=============================================================================
