--------------------------- MODULE Battery_proofs ---------------------------
(***************************************************************************)
(* Proofs about the battery measurement, for every discharge curve and     *)
(* divider of the kind battery.h asks for, and every set of readings.      *)
(*                                                                         *)
(* The argument: on a falling curve the walk stops where it should, so     *)
(* that the voltage lies between the two points it interpolates; there the *)
(* integer division is within one of the line, and grows with the voltage. *)
(***************************************************************************)
EXTENDS Battery, SequenceTheorems, WellFoundedInduction, TLAPS

-----------------------------------------------------------------------------
(* Numbers.                                                                *)

\* A set of natural numbers has a smallest element.  (What follows uses it in
\* place of induction: there is no smallest counterexample.)
LEMMA Smallest ==
    ASSUME NEW S \in SUBSET Nat, S # {}
    PROVE  \E x \in S : \A y \in S : x <= y
<1>1. \E x \in S : \A y \in S : ~(<<y, x>> \in OpToRel(<, Nat))
  BY WFMin, NatLessThanWellFounded, Zenon
<1>2. \A x, y \in Nat : y < x => <<y, x>> \in OpToRel(<, Nat)
  BY Zenon DEF OpToRel
<1>3. \E x \in S : \A y \in S : ~(y < x)
  BY <1>1, <1>2, Zenon
<1> QED BY <1>3

\* Division is within one of the quotient.
LEMMA Division ==
    ASSUME NEW p \in Int, NEW d \in Nat \ {0}
    PROVE  /\ p \div d \in Int
           /\ (p \div d) * d <= p
           /\ p < (p \div d + 1) * d
OBVIOUS

\* It grows with what is divided.
LEMMA DivisionGrows ==
    ASSUME NEW p \in Int, NEW q \in Int, NEW d \in Nat \ {0}, p <= q
    PROVE  p \div d <= q \div d
OBVIOUS

\* A part of k in d is between nothing and all.
LEMMA Part ==
    ASSUME NEW h \in Nat, NEW d \in Nat \ {0}, NEW k \in 0 .. d
    PROVE  (h * k) \div d \in 0 .. h
<1>1. h * k \in Nat /\ h * k <= h * d
  OBVIOUS
<1>2. (h * k) \div d \in Nat
  BY <1>1
<1>3. (h * d) \div d = h
  OBVIOUS
<1> QED BY <1>1, <1>2, <1>3, DivisionGrows

-----------------------------------------------------------------------------
(* The curve.                                                              *)

Last     == Len(levels)
Pptt(i)  == levels[i].pptt
Volts(i) == levels[i].mV

\* The assumption, in these words.
LEMMA Curve ==
    /\ Last \in Nat /\ Last > 1
    /\ \A i \in 1 .. Last : Pptt(i) \in Nat /\ Volts(i) \in Nat
    /\ Pptt(1) = 10000 /\ Pptt(Last) = 0
    /\ \A i \in 1 .. Last - 1 : Pptt(i) > Pptt(i + 1) /\ Volts(i) > Volts(i + 1)
<1>1. levels \in Seq([pptt : Nat, mV : Nat]) /\ Last > 1
  BY CurveAssumption DEF Last
<1>2. Last \in Nat
  BY <1>1 DEF Last
<1>3. ASSUME NEW i \in 1 .. Last PROVE Pptt(i) \in Nat /\ Volts(i) \in Nat
  <2>1. levels[i] \in [pptt : Nat, mV : Nat]
    BY <1>1, <1>3, ElementOfSeq, Zenon DEF Last
  <2> QED BY <2>1 DEF Pptt, Volts
<1>4. Pptt(1) = 10000 /\ Pptt(Last) = 0
  BY CurveAssumption DEF Last, Pptt
<1>5. ASSUME NEW i \in 1 .. Last - 1
      PROVE  Pptt(i) > Pptt(i + 1) /\ Volts(i) > Volts(i + 1)
  BY <1>5, CurveAssumption DEF Last, Pptt, Volts
<1> QED BY <1>1, <1>2, <1>3, <1>4, <1>5

\* The curve falls, from each point to all that follow.
LEMMA Falls ==
    ASSUME NEW i \in 1 .. Last, NEW j \in 1 .. Last, i < j
    PROVE  Pptt(i) > Pptt(j) /\ Volts(i) > Volts(j)
<1> DEFINE Lower(k) == Pptt(i) > Pptt(k) /\ Volts(i) > Volts(k)
           Bad == {k \in i + 1 .. Last : ~Lower(k)}
<1>1. Bad = {}
  <2> SUFFICES ASSUME Bad # {} PROVE FALSE
    OBVIOUS
  <2>1. Bad \in SUBSET Nat
    BY Curve
  <2>2. PICK k \in Bad : \A m \in Bad : k <= m
    BY <2>1, Smallest
  <2>3. k \in i + 1 .. Last /\ ~Lower(k)
    BY <2>2
  <2>4. k - 1 \in 1 .. Last - 1 /\ (k - 1) + 1 = k /\ k \in 1 .. Last
    BY <2>3, Curve
  <2>5. k - 1 = i \/ Lower(k - 1)
    <3>1. k - 1 = i \/ k - 1 \in i + 1 .. Last
      BY <2>3, <2>4, Curve
    <3> QED BY <2>2, <2>4, <3>1
  <2>6. Pptt(k - 1) > Pptt(k) /\ Volts(k - 1) > Volts(k)
    BY <2>4, Curve
  <2>7. /\ Pptt(k) \in Nat /\ Pptt(k - 1) \in Nat /\ Pptt(i) \in Nat
        /\ Volts(k) \in Nat /\ Volts(k - 1) \in Nat /\ Volts(i) \in Nat
    BY <2>4, Curve
  <2> QED BY <2>3, <2>5, <2>6, <2>7
<1>2. j \in i + 1 .. Last
  BY Curve
<1> QED BY <1>1, <1>2

\* Only its last point has no charge, and none has more than all.
LEMMA Ends ==
    ASSUME NEW i \in 1 .. Last
    PROVE  /\ Pptt(i) = 0 => i = Last
           /\ Pptt(i) <= 10000
<1>1. Last \in 1 .. Last /\ 1 \in 1 .. Last
  BY Curve
<1>2. i < Last => Pptt(i) > Pptt(Last)
  BY <1>1, Falls
<1>3. i > 1 => Pptt(1) > Pptt(i)
  BY <1>1, Falls
<1> QED BY <1>1, <1>2, <1>3, Curve

\* The walk down the curve ends at the first point that ends it.
LEMMA WalkEnds ==
    ASSUME NEW mV \in Int
    PROVE  /\ Below(mV) \in 1 .. Last
           /\ Pptt(Below(mV)) = 0 \/ mV >= Volts(Below(mV))
           /\ \A j \in 1 .. Below(mV) - 1 : Pptt(j) > 0 /\ mV < Volts(j)
<1> DEFINE Stop(i) == Pptt(i) = 0 \/ mV >= Volts(i)
           Stops == {i \in 1 .. Last : Stop(i)}
           First(i) == Stop(i) /\ \A j \in 1 .. i - 1 : Pptt(j) > 0 /\ mV < Volts(j)
<1>1. Last \in Stops /\ Stops \in SUBSET Nat
  BY Curve
<1>2. PICK i \in Stops : \A j \in Stops : i <= j
  BY <1>1, Smallest
<1>3. i \in 1 .. Last /\ Stop(i)
  BY <1>2
<1>4. ASSUME NEW j \in 1 .. i - 1 PROVE Pptt(j) > 0 /\ mV < Volts(j)
  <2>1. j \in 1 .. Last /\ j < i
    BY <1>3, Curve
  <2>2. ~Stop(j)
    BY <1>2, <2>1
  <2> QED BY <2>1, <2>2, Curve
<1>5. Below(mV) = CHOOSE k \in 1 .. Last : First(k)
  BY DEF Below, Last, Pptt, Volts
<1>6. \E k \in 1 .. Last : First(k)
  BY <1>3, <1>4
<1> HIDE DEF Stop
<1>7. Below(mV) \in 1 .. Last /\ First(Below(mV))
  BY <1>5, <1>6
<1> QED BY <1>7 DEF Stop

-----------------------------------------------------------------------------
(* The state of charge.                                                    *)

\* The charge between point i + 1 and point i, at k millivolts above the lower.
Between(i, k) ==
    Pptt(i + 1) + ((Pptt(i) - Pptt(i + 1)) * k) \div (Volts(i) - Volts(i + 1))

\* A segment of the curve, in these numbers.
LEMMA Segment ==
    ASSUME NEW i \in 1 .. Last - 1
    PROVE  /\ i \in 1 .. Last /\ i + 1 \in 1 .. Last
           /\ Volts(i) - Volts(i + 1) \in Nat \ {0}
           /\ Pptt(i) - Pptt(i + 1) \in Nat
           /\ Pptt(i) \in Nat /\ Pptt(i + 1) \in Nat
           /\ Volts(i) \in Nat /\ Volts(i + 1) \in Nat
BY Curve

\* The charge is that of the lower point at its voltage, does not exceed that of
\* the upper one, and grows in between.
LEMMA BetweenRange ==
    ASSUME NEW i \in 1 .. Last - 1, NEW k \in 0 .. Volts(i) - Volts(i + 1)
    PROVE  /\ Between(i, k) \in Nat
           /\ Pptt(i + 1) <= Between(i, k) /\ Between(i, k) <= Pptt(i)
           /\ Between(i, 0) = Pptt(i + 1)
<1> DEFINE h == Pptt(i) - Pptt(i + 1)
           d == Volts(i) - Volts(i + 1)
           q == (h * k) \div d
<1>1. h \in Nat /\ d \in Nat \ {0} /\ Pptt(i) \in Nat /\ Pptt(i + 1) \in Nat
  BY Segment
<1>2. k \in 0 .. d
  OBVIOUS
<1> HIDE DEF d
<1>3. (h * k) \div d \in 0 .. h
  <2> HIDE DEF h
  <2> QED BY <1>1, <1>2, Part
<1>4. Between(i, 0) = Pptt(i + 1)
  <2>1. Between(i, 0) = Pptt(i + 1) + (h * 0) \div d
    BY DEF Between, d
  <2> HIDE DEF h
  <2> QED BY <1>1, <2>1
<1>5. Between(i, k) = Pptt(i + 1) + q
  BY DEF Between, d
<1>6. q \in Nat /\ q <= h
  BY <1>1, <1>3
<1> HIDE DEF q
<1> QED BY <1>1, <1>4, <1>5, <1>6

\* The charge has only these three forms.
LEMMA SocForms ==
    ASSUME NEW mV \in Int
    PROVE  \/ mV >= Volts(1) /\ sensor_get_battery_soc(mV) = 10000
           \/ mV < Volts(Last) /\ mV < Volts(1) /\ sensor_get_battery_soc(mV) = 0
           \/ \E i \in 1 .. Last - 1 :
                 /\ Volts(i + 1) <= mV /\ mV < Volts(i)
                 /\ sensor_get_battery_soc(mV) = Between(i, mV - Volts(i + 1))
<1> DEFINE b == Below(mV)
<1>1. sensor_get_battery_soc(mV) =
          IF mV >= Volts(1) THEN Pptt(1)
          ELSE IF mV < Volts(b) THEN Pptt(b)
          ELSE Pptt(b) + ((Pptt(b - 1) - Pptt(b)) * (mV - Volts(b)))
                              \div (Volts(b - 1) - Volts(b))
  BY DEF sensor_get_battery_soc, Interpolated, Pptt, Volts
<1>2. /\ b \in 1 .. Last
      /\ Pptt(b) = 0 \/ mV >= Volts(b)
      /\ \A j \in 1 .. b - 1 : Pptt(j) > 0 /\ mV < Volts(j)
  BY WalkEnds
<1> HIDE DEF b
<1>3. CASE mV >= Volts(1)
  BY <1>1, <1>3, Curve
<1>4. CASE mV < Volts(1) /\ mV < Volts(b)
  <2>1. Pptt(b) = 0
    BY <1>2, <1>4, Curve
  <2>2. b = Last
    BY <1>2, <2>1, Ends
  <2> QED BY <1>1, <1>4, <2>1, <2>2, Curve
<1>5. CASE mV < Volts(1) /\ mV >= Volts(b)
  <2>1. b # 1
    BY <1>5, Curve
  <2>2. b - 1 \in 1 .. Last - 1 /\ (b - 1) + 1 = b /\ b - 1 \in 1 .. b - 1
    BY <1>2, <2>1, Curve
  <2>3. mV < Volts(b - 1)
    BY <1>2, <2>2
  <2>4. sensor_get_battery_soc(mV) = Between(b - 1, mV - Volts((b - 1) + 1))
    BY <1>1, <1>2, <1>5, <2>2, Curve DEF Between
  <2> QED BY <1>5, <2>2, <2>3, <2>4 DEF b
<1>6. Volts(1) \in Nat /\ Volts(b) \in Nat
  BY <1>2, Curve
<1> QED BY <1>3, <1>4, <1>5, <1>6

\* It is a charge.
LEMMA SocRange ==
    ASSUME NEW mV \in Int
    PROVE  sensor_get_battery_soc(mV) \in Nat /\ sensor_get_battery_soc(mV) <= 10000
<1>1. ASSUME NEW i \in 1 .. Last - 1, Volts(i + 1) <= mV, mV < Volts(i)
      PROVE  /\ Between(i, mV - Volts(i + 1)) \in Nat
             /\ Between(i, mV - Volts(i + 1)) <= 10000
  <2>1. mV - Volts(i + 1) \in 0 .. Volts(i) - Volts(i + 1)
    BY <1>1, Segment
  <2>2. Between(i, mV - Volts(i + 1)) \in Nat /\ Between(i, mV - Volts(i + 1)) <= Pptt(i)
    BY <2>1, BetweenRange
  <2>3. Pptt(i) \in Nat /\ Pptt(i) <= 10000
    BY Segment, Ends
  <2> QED BY <2>2, <2>3
<1> QED BY <1>1, SocForms

\* What it means to be on a segment of the curve.
LEMMA OnSegment ==
    ASSUME NEW mV \in Int, NEW s \in Int, NEW i \in 1 .. Last - 1,
           Volts(i + 1) <= mV, mV <= Volts(i),
           (s - Pptt(i + 1)) * (Volts(i) - Volts(i + 1))
               <= (Pptt(i) - Pptt(i + 1)) * (mV - Volts(i + 1)),
           (s - Pptt(i + 1) + 1) * (Volts(i) - Volts(i + 1))
               > (Pptt(i) - Pptt(i + 1)) * (mV - Volts(i + 1))
    PROVE  OnCurve(mV, s)
<1> DEFINE On(j) == /\ levels[j + 1].mV <= mV /\ mV <= levels[j].mV
                    /\ (s - levels[j + 1].pptt) * (levels[j].mV - levels[j + 1].mV)
                          <= (levels[j].pptt - levels[j + 1].pptt) * (mV - levels[j + 1].mV)
                    /\ (s - levels[j + 1].pptt + 1) * (levels[j].mV - levels[j + 1].mV)
                          > (levels[j].pptt - levels[j + 1].pptt) * (mV - levels[j + 1].mV)
<1>1. On(i)
  BY Zenon DEF Pptt, Volts
<1>2. i \in 1 .. Len(levels) - 1
  BY DEF Last
<1>3. (\E j \in 1 .. Len(levels) - 1 : On(j)) => OnCurve(mV, s)
  BY Zenon DEF OnCurve
<1> HIDE DEF On
<1> QED BY <1>1, <1>2, <1>3, Zenon

\* It is the point of the discharge curve, rounded down, at every voltage.
LEMMA SocIsOnCurve ==
    ASSUME NEW mV \in Int
    PROVE  OnCurve(mV, sensor_get_battery_soc(mV))
<1> DEFINE s == sensor_get_battery_soc(mV)
<1>1. CASE mV >= Volts(1) /\ s = 10000
  BY <1>1 DEF OnCurve, Volts
<1>2. CASE mV < Volts(Last) /\ s = 0
  BY <1>2 DEF OnCurve, Volts, Last
<1>3. ASSUME NEW i \in 1 .. Last - 1, Volts(i + 1) <= mV, mV < Volts(i),
             s = Between(i, mV - Volts(i + 1))
      PROVE  OnCurve(mV, s)
  <2> DEFINE dx == Volts(i) - Volts(i + 1)
             dy == Pptt(i) - Pptt(i + 1)
             k  == mV - Volts(i + 1)
  <2>1. /\ dx \in Nat \ {0} /\ dy \in Nat /\ k \in Int
        /\ Pptt(i + 1) \in Nat /\ Volts(i) \in Int
    BY Segment
  <2>2. s = Pptt(i + 1) + (dy * k) \div dx
    BY <1>3 DEF Between
  <2>3. (s - Pptt(i + 1)) * dx <= dy * k /\ (s - Pptt(i + 1) + 1) * dx > dy * k
    <3> HIDE DEF dx, dy, k, s
    <3>1. dy * k \in Int
      BY <2>1
    <3> DEFINE q == (dy * k) \div dx
    <3>2. q \in Int /\ q * dx <= dy * k /\ dy * k < (q + 1) * dx
      BY <2>1, <3>1, Division
    <3>3. s - Pptt(i + 1) = q
      <4> HIDE DEF q
      <4> QED BY <2>1, <2>2, <3>2 DEF q
    <3> HIDE DEF q
    <3> QED BY <2>1, <3>1, <3>2, <3>3
  <2>4. mV <= Volts(i)
    BY <1>3, <2>1
  <2> QED BY <1>3, <2>3, <2>4, SocRange, OnSegment
<1> QED BY <1>1, <1>2, <1>3, SocForms

\* It does not fall with a rising voltage.
LEMMA SocGrows ==
    ASSUME NEW mV \in Int
    PROVE  sensor_get_battery_soc(mV) <= sensor_get_battery_soc(mV + 1)
<1> DEFINE s == sensor_get_battery_soc(mV)
           n == mV + 1
           t == sensor_get_battery_soc(n)
<1> SUFFICES s <= t
  OBVIOUS
<1> HIDE DEF s, t
<1>0. n \in Int
  OBVIOUS
<1>1. s \in Nat /\ t \in Nat /\ s <= 10000
  BY <1>0, SocRange DEF s, t
<1>2. ASSUME NEW i \in 1 .. Last, NEW j \in 1 .. Last, i <= j
      PROVE  Volts(i) >= Volts(j)
  BY <1>2, Falls, Curve
<1>3. ASSUME NEW i \in 1 .. Last - 1, Volts(i + 1) <= mV, mV < Volts(i),
             s = Between(i, mV - Volts(i + 1)),
             NEW j \in 1 .. Last - 1, Volts(j + 1) <= n, n < Volts(j),
             t = Between(j, n - Volts(j + 1))
      PROVE  s <= t
  <2>1. /\ i \in 1 .. Last /\ i + 1 \in 1 .. Last /\ j \in 1 .. Last /\ j + 1 \in 1 .. Last
        /\ Volts(i) \in Nat /\ Volts(i + 1) \in Nat /\ Volts(j) \in Nat /\ Volts(j + 1) \in Nat
        /\ Pptt(i) \in Nat
    BY Segment
  <2>2. mV - Volts(i + 1) \in 0 .. Volts(i) - Volts(i + 1)
    BY <1>3, <2>1
  <2>3. ~(j > i)
    BY <1>2, <1>3, <2>1
  <2>4. CASE j = i
    <3> DEFINE h == Pptt(i) - Pptt(i + 1)
               d == Volts(i) - Volts(i + 1)
               k == mV - Volts(i + 1)
    <3>1. h \in Nat /\ d \in Nat \ {0} /\ k \in Nat /\ Pptt(i + 1) \in Nat
      BY <2>2, Segment
    <3>2. n - Volts(i + 1) = k + 1
      BY <2>1
    <3>3. s = Pptt(i + 1) + (h * k) \div d /\ t = Pptt(i + 1) + (h * (k + 1)) \div d
      BY <1>3, <2>4, <3>2 DEF Between
    <3> HIDE DEF h, d, k
    <3>4. h * k \in Int /\ h * (k + 1) \in Int /\ h * k <= h * (k + 1)
      BY <3>1
    <3>5. (h * k) \div d <= (h * (k + 1)) \div d
      BY <3>1, <3>4, DivisionGrows
    <3>6. (h * k) \div d \in Int /\ (h * (k + 1)) \div d \in Int
      BY <3>1, <3>4, Division
    <3> QED BY <3>1, <3>3, <3>5, <3>6
  <2>5. CASE j < i
    <3>1. j + 1 = i
      <4>1. j + 1 < i => Volts(j + 1) > Volts(i)
        BY <2>1, Falls
      <4> QED BY <1>3, <2>1, <2>5, <4>1
    <3>2. n - Volts(j + 1) = 0
      BY <1>3, <2>1, <3>1
    <3>3. t = Pptt(i)
      <4>1. 0 \in 0 .. Volts(j) - Volts(j + 1)
        BY Segment
      <4> QED BY <1>3, <3>1, <3>2, <4>1, BetweenRange
    <3>4. s <= Pptt(i)
      BY <1>3, <2>2, BetweenRange
    <3> QED BY <3>3, <3>4
  <2> QED BY <2>3, <2>4, <2>5
<1>4. ASSUME NEW i \in 1 .. Last - 1, Volts(i + 1) <= mV, mV < Volts(i),
             n < Volts(Last)
      PROVE  FALSE
  <2>1. i + 1 \in 1 .. Last /\ Last \in 1 .. Last /\ i + 1 <= Last
    BY Curve
  <2> QED BY <1>2, <1>4, <2>1, Curve
<1>5. mV >= Volts(1) => t = 10000
  <2>1. mV >= Volts(1) => n >= Volts(1)
    BY Curve
  <2> QED BY <2>1, Curve DEF sensor_get_battery_soc, Volts, Pptt, t
<1> HIDE DEF n
<1>6. \/ mV >= Volts(1) \/ s = 0
      \/ \E i \in 1 .. Last - 1 : /\ Volts(i + 1) <= mV /\ mV < Volts(i)
                                  /\ s = Between(i, mV - Volts(i + 1))
  BY SocForms DEF s
<1>7. \/ t = 10000 \/ n < Volts(Last)
      \/ \E j \in 1 .. Last - 1 : /\ Volts(j + 1) <= n /\ n < Volts(j)
                                  /\ t = Between(j, n - Volts(j + 1))
  BY <1>0, SocForms DEF t
<1>8. CASE mV >= Volts(1) \/ s = 0 \/ t = 10000
  BY <1>1, <1>5, <1>8
<1>9. CASE ~(mV >= Volts(1) \/ s = 0 \/ t = 10000)
  <2>1. PICK i \in 1 .. Last - 1 : /\ Volts(i + 1) <= mV /\ mV < Volts(i)
                                   /\ s = Between(i, mV - Volts(i + 1))
    BY <1>6, <1>9
  <2>2. PICK j \in 1 .. Last - 1 : /\ Volts(j + 1) <= n /\ n < Volts(j)
                                   /\ t = Between(j, n - Volts(j + 1))
    BY <1>4, <1>7, <1>9, <2>1
  <2> QED BY <1>3, <2>1, <2>2
<1> QED BY <1>8, <1>9

-----------------------------------------------------------------------------
(* From a reading to millivolts.                                           *)

\* The cast keeps an int16_t, and leaves alone what is one already.
LEMMA Cast ==
    ASSUME NEW v \in Int
    PROVE  /\ ToInt16(v) \in Int /\ -32768 <= ToInt16(v) /\ ToInt16(v) <= 32767
           /\ -32768 <= v /\ v <= 32767 => ToInt16(v) = v
BY DEF ToInt16

LEMMA MillivoltsAreInt ==
    ASSUME NEW r \in Int
    PROVE  Millivolts(r) \in Int /\ (r >= 0 => Millivolts(r) >= 0)
<1>1. 2^14 \in Nat \ {0}
  OBVIOUS
<1> DEFINE d == 2^14
<1> HIDE DEF d
<1>2. d \in Nat \ {0}
  BY <1>1 DEF d
<1>3. r * 600 * 6 \in Int /\ (r >= 0 => r * 600 * 6 >= 0)
  OBVIOUS
<1>4. Millivolts(r) = (r * 600 * 6) \div d
  BY DEF Millivolts, d
<1> QED BY <1>2, <1>3, <1>4

LEMMA ByteIsInt ==
    ASSUME NEW n \in Int, NEW i \in 0 .. 7
    PROVE  Byte(n, i) \in Int
<1>1. ASSUME NEW d \in Nat \ {0} PROVE ((-n) \div d) % 256 \in Int
  <2>1. (-n) \div d \in Int
    BY Division
  <2> QED BY <2>1
<1>2. 256^0 \in Nat \ {0} /\ 256^1 \in Nat \ {0} /\ 256^2 \in Nat \ {0} /\ 256^3 \in Nat \ {0}
  OBVIOUS
<1>3. i \in {0, 1, 2, 3} \/ i > 3
  OBVIOUS
<1>4. CASE i > 3
  BY <1>4 DEF Byte
<1>5. CASE i \in {0, 1, 2, 3}
  <2>1. 256^i \in Nat \ {0}
    BY <1>2, <1>5
  <2>2. ((-n) \div 256^i) % 256 \in Int
    BY <1>1, <2>1
  <2>3. Byte(n, i) = ((-n) \div 256^i) % 256
    <3>1. ~(i > 3)
      BY <1>5
    <3> QED BY <3>1, Zenon DEF Byte
  <2> QED BY <2>2, <2>3, Zenon
<1> QED BY <1>3, <1>4, <1>5

\* What a step of the long division works on.
Partial == [quot : Int, rem : Int]

LEMMA DividesOn ==
    ASSUME NEW so_far \in Partial, NEW byte \in Int, NEW d \in Nat \ {0}
    PROVE  DivideByte(so_far, byte, d) \in Partial
<1> DEFINE rem == 256 * so_far.rem + byte
           quot == 256 * so_far.quot + rem \div d
<1>1. so_far.quot \in Int /\ so_far.rem \in Int
  BY DEF Partial
<1>2. rem \in Int
  BY <1>1
<1>3. DivideByte(so_far, byte, d) = [quot |-> quot % 65536, rem |-> rem % d]
  BY DEF DivideByte
<1> HIDE DEF rem
<1>4. rem \div d \in Int /\ rem % d \in Int
  BY <1>2
<1>5. quot \in Int
  BY <1>1, <1>4
<1> HIDE DEF quot
<1>6. quot % 65536 \in Int
  BY <1>5
<1> QED BY <1>3, <1>4, <1>6 DEF Partial

LEMMA QuotientIsInt ==
    ASSUME NEW n \in Int, NEW d \in Nat \ {0}
    PROVE  WordQuotient(n, d) \in Int
<1> DEFINE b7 == DivideByte([quot |-> 0, rem |-> 0], Byte(n, 7), d)
           b6 == DivideByte(b7, Byte(n, 6), d)
           b5 == DivideByte(b6, Byte(n, 5), d)
           b4 == DivideByte(b5, Byte(n, 4), d)
           b3 == DivideByte(b4, Byte(n, 3), d)
           b2 == DivideByte(b3, Byte(n, 2), d)
           b1 == DivideByte(b2, Byte(n, 1), d)
           b0 == DivideByte(b1, Byte(n, 0), d)
<1>1. WordQuotient(n, d) = b0.quot
  BY Zenon DEF WordQuotient
<1>2. \A i \in 0 .. 7 : Byte(n, i) \in Int
  BY ByteIsInt
<1>3. [quot |-> 0, rem |-> 0] \in Partial
  BY DEF Partial
<1>4. \A p \in Partial, i \in 0 .. 7 : DivideByte(p, Byte(n, i), d) \in Partial
  BY <1>2, DividesOn
<1>5. 0 \in 0 .. 7 /\ 1 \in 0 .. 7 /\ 2 \in 0 .. 7 /\ 3 \in 0 .. 7
      /\ 4 \in 0 .. 7 /\ 5 \in 0 .. 7 /\ 6 \in 0 .. 7 /\ 7 \in 0 .. 7
  OBVIOUS
<1>6. b0 \in Partial
  BY <1>3, <1>4, <1>5, Zenon
<1> QED BY <1>1, <1>6 DEF Partial

\* Whatever the sign of the reading, the result is an int16_t.
LEMMA UndividedRange ==
    ASSUME NEW val \in Int
    PROVE  /\ Undivided(val) \in Int
           /\ -32768 <= Undivided(val) /\ Undivided(val) <= 32767
<1>1. output_ohm \in Nat \ {0} /\ full_ohm \in Nat
  BY DividerAssumption
<1>2. val * full_ohm \in Int /\ -val * full_ohm \in Int
  BY <1>1
<1>3. (val * full_ohm) \div output_ohm \in Int
  BY <1>1, <1>2, Division
<1>4. WordQuotient(-val * full_ohm, output_ohm) \in Int
  BY <1>1, <1>2, QuotientIsInt
<1> DEFINE v == IF val >= 0 THEN (val * full_ohm) \div output_ohm
                            ELSE WordQuotient(-val * full_ohm, output_ohm)
<1>5. v \in Int
  BY <1>3, <1>4
<1>6. Undivided(val) = ToInt16(v)
  BY Zenon DEF Undivided
<1> HIDE DEF v
<1> QED BY <1>5, <1>6, Cast

-----------------------------------------------------------------------------
(* The theorems.                                                           *)

\* Types: a voltage is an int16_t and a charge at most all, whatever the ADC
\* delivers and whatever the curve (battery.c:227-297).
THEOREM TypeCorrect == Spec => []TypeOK
<1>1. Init => TypeOK
  <2> SUFFICES ASSUME Init PROVE TypeOK
    OBVIOUS
  <2>1. battery_ok \in BOOLEAN
    BY Zenon DEF Init
  <2> QED BY <2>1 DEF Init, TypeOK
<1>2. TypeOK /\ [Next]_vars => TypeOK'
  <2> SUFFICES ASSUME TypeOK, [Next]_vars PROVE TypeOK'
    OBVIOUS
  <2>1. CASE battery_setup
    BY <2>1 DEF battery_setup, TypeOK
  <2>2. CASE sensor_get_battery_mV
    <3>1. /\ raw' \in Readings \cup {0}
          /\ batt_mV' \in Int /\ -32768 <= batt_mV' /\ batt_mV' <= 32767
      <4>1. CASE raw' \in Readings /\ batt_mV' = Undivided(Millivolts(raw'))
        <5>1. Millivolts(raw') \in Int
          BY <4>1, DividerAssumption, MillivoltsAreInt
        <5> QED BY <4>1, <5>1, UndividedRange
      <4>2. CASE raw' = 0 /\ batt_mV' = -1
        BY <4>2
      <4>3. \/ raw' \in Readings /\ batt_mV' = Undivided(Millivolts(raw'))
            \/ raw' = 0 /\ batt_mV' = -1
        BY <2>2, Zenon DEF sensor_get_battery_mV
      <4> QED BY <4>1, <4>2, <4>3
    <3>2. soc' \in Nat /\ soc' <= 10000
      <4>1. soc' = sensor_get_battery_soc(batt_mV')
        BY <2>2 DEF sensor_get_battery_mV
      <4> QED BY <3>1, <4>1, SocRange
    <3> QED BY <2>2, <3>1, <3>2 DEF sensor_get_battery_mV, TypeOK
  <2>3. CASE Used
    BY <2>3 DEF Used, TypeOK
  <2>4. CASE UNCHANGED vars
    BY <2>4 DEF vars, TypeOK
  <2> QED BY <2>1, <2>2, <2>3, <2>4 DEF Next
<1> QED BY <1>1, <1>2, PTL DEF Spec

\* The charge shown is the point of the discharge curve at the voltage, rounded
\* down, at the joints of the curve and beyond its ends too (battery.c:263-297).
THEOREM SocCorrect == Spec => []SocOnCurve
<1>1. TypeOK => SocOnCurve
  <2> SUFFICES ASSUME TypeOK PROVE SocOnCurve
    OBVIOUS
  <2>1. batt_mV \in Int /\ batt_mV + 1 \in Int
    BY DEF TypeOK
  <2> QED BY <2>1, SocIsOnCurve, Zenon DEF SocOnCurve
<1> QED BY <1>1, TypeCorrect, PTL

\* A battery with more voltage never shows less charge (battery.c:274-291).
THEOREM SocNeverFalls == Spec => []SocMonotonic
<1>1. TypeOK => SocMonotonic
  <2> SUFFICES ASSUME TypeOK PROVE SocMonotonic
    OBVIOUS
  <2>1. batt_mV \in Int /\ batt_mV + 1 \in Int
    BY DEF TypeOK
  <2> QED BY <2>1, SocGrows DEF SocMonotonic
<1> QED BY <1>1, TypeCorrect, PTL

\* An ADC that delivers nothing below zero, before a divider whose voltage fits
\* an int16_t.
Quiet ==
    \A r \in Readings : /\ r >= 0
                        /\ (Millivolts(r) * full_ohm) \div output_ohm <= 32767

\* What battery.h:20 promises does hold with such an ADC: the negative reading is
\* all that is wrong with the product at battery.c:253.
THEOREM NoNoiseNoError == Quiet => (Spec => []VoltageOrError)
<1> SUFFICES ASSUME Quiet PROVE Spec => []VoltageOrError
  OBVIOUS
<1>1. Init => VoltageOrError
  BY DEF Init, VoltageOrError
<1>2. VoltageOrError /\ [Next]_vars => VoltageOrError'
  <2> SUFFICES ASSUME VoltageOrError, [Next]_vars PROVE VoltageOrError'
    OBVIOUS
  <2>1. CASE battery_setup
    BY <2>1 DEF battery_setup, VoltageOrError
  <2>2. CASE sensor_get_battery_mV
    <3>1. CASE raw' \in Readings /\ batt_mV' = Undivided(Millivolts(raw'))
      <4> DEFINE val == Millivolts(raw')
                 v == (val * full_ohm) \div output_ohm
      <4>1. raw' \in Int /\ raw' >= 0
        BY <3>1, DividerAssumption DEF Quiet
      <4>2. val \in Int /\ val >= 0
        BY <4>1, MillivoltsAreInt
      <4>3. v <= 32767
        BY <3>1 DEF Quiet
      <4>4. batt_mV' = ToInt16(v)
        <5>2. batt_mV' = Undivided(val)
          BY <3>1
        <5> HIDE DEF val
        <5>1. Undivided(val) = ToInt16((val * full_ohm) \div output_ohm)
          BY <4>2 DEF Undivided
        <5> QED BY <5>1, <5>2, Zenon
      <4>5. v \in Int /\ v >= 0
        <5> HIDE DEF val
        <5>1. output_ohm \in Nat \ {0} /\ full_ohm \in Nat
          BY DividerAssumption
        <5>2. val * full_ohm \in Nat
          BY <4>2, <5>1
        <5> QED BY <5>1, <5>2
      <4>6. batt_mV' = v
        <5> HIDE DEF v
        <5> QED BY <4>3, <4>4, <4>5, Cast
      <4>7. batt_mV' = (Millivolts(raw') * full_ohm) \div output_ohm
        BY <4>6, Zenon
      <4> HIDE DEF v, val
      <4> QED BY <4>1, <4>7, Zenon DEF VoltageOrError
    <3>2. CASE raw' = 0 /\ batt_mV' = -1
      BY <3>2 DEF VoltageOrError
    <3>3. \/ raw' \in Readings /\ batt_mV' = Undivided(Millivolts(raw'))
          \/ raw' = 0 /\ batt_mV' = -1
      BY <2>2, Zenon DEF sensor_get_battery_mV
    <3> QED BY <3>1, <3>2, <3>3, Zenon
  <2>3. CASE Used
    BY <2>3 DEF Used, VoltageOrError
  <2>4. CASE UNCHANGED vars
    BY <2>4 DEF vars, VoltageOrError
  <2> QED BY <2>1, <2>2, <2>3, <2>4 DEF Next
<1> QED BY <1>1, <1>2, PTL DEF Spec
=============================================================================
