---------------------------- MODULE SamplerProofs ----------------------------
(***************************************************************************)
(* The overhead that the sampling loop reports, for every length of the    *)
(* second and every duration of a measure: the nanoseconds of two readings *)
(* of the clock give the duration modulo a second.                         *)
(***************************************************************************)
EXTENDS Sampler, TLAPS

-----------------------------------------------------------------------------
(* Arithmetic *)

LEMMA Division ==
    ASSUME NEW m \in Nat \ {0}, NEW a \in Int
    PROVE  /\ a \div m \in Int /\ a % m \in 0 .. m - 1
           /\ a = (a \div m) * m + (a % m)
OBVIOUS

\* The quotient and the remainder are the only ones.
LEMMA Remainder ==
    ASSUME NEW m \in Nat \ {0}, NEW q \in Int, NEW r \in 0 .. m - 1
    PROVE  (q * m + r) % m = r
<1> DEFINE a == q * m + r
<1> DEFINE k == a \div m
<1>1. a \in Int
    OBVIOUS
<1>2. k \in Int /\ a % m \in 0 .. m - 1 /\ a = k * m + (a % m)
    BY <1>1, Division
<1>3. a = q * m + r
    OBVIOUS
<1> HIDE DEF a, k
<1>4. (q - k) * m = (a % m) - r
    <2>1. (q - k) * m = q * m - k * m
        BY <1>2
    <2> QED BY <1>1, <1>2, <1>3, <2>1
<1>5. CASE q - k >= 1
    <2>1. (q - k) * m >= m
        BY <1>2, <1>5
    <2> QED BY <1>2, <1>4, <2>1
<1>6. CASE q - k =< -1
    <2>1. (q - k) * m =< -m
        BY <1>2, <1>6
    <2> QED BY <1>2, <1>4, <2>1
<1>7. CASE q - k = 0
    BY <1>2, <1>3, <1>4, <1>7 DEF a
<1> QED BY <1>2, <1>5, <1>6, <1>7

LEMMA SmallRemainder ==
    ASSUME NEW m \in Nat \ {0}, NEW r \in 0 .. m - 1
    PROVE  r % m = r
<1>1. (0 * m + r) % m = r
    BY Remainder
<1> QED BY <1>1

\* What Overhead makes of the nanoseconds of two moments d apart.
LEMMA Difference ==
    ASSUME NEW a \in 0 .. Second - 1, NEW d \in Nat, NEW b \in 0 .. Second - 1,
           b = (a + d) % Second
    PROVE  (IF b >= a THEN b - a ELSE Second + b - a) = d % Second
<1> DEFINE q == d \div Second
<1> DEFINE r == d % Second
<1>1. q \in Int /\ r \in 0 .. Second - 1 /\ d = q * Second + r
    BY Division, TicksAssumption
<1> HIDE DEF q, r
<1>2. CASE a + r < Second
    <2>1. a + d = q * Second + (a + r)
        BY <1>1, TicksAssumption
    <2>2. (q * Second + (a + r)) % Second = a + r
        BY <1>1, <1>2, Remainder, TicksAssumption
    <2>3. b = a + r
        BY <2>1, <2>2
    <2> QED BY <2>3, <1>1 DEF r
<1>3. CASE a + r >= Second
    <2>1. a + d = (q + 1) * Second + (a + r - Second)
        BY <1>1, TicksAssumption
    <2>2. a + r - Second \in 0 .. Second - 1 /\ q + 1 \in Int
        BY <1>1, <1>3, TicksAssumption
    <2>3. ((q + 1) * Second + (a + r - Second)) % Second = a + r - Second
        BY <2>2, Remainder, TicksAssumption
    <2>4. b = a + r - Second
        BY <2>1, <2>3
    <2> QED BY <2>4, <1>1, TicksAssumption DEF r
<1> QED BY <1>1, <1>2, <1>3, TicksAssumption

-----------------------------------------------------------------------------
(* The inductive invariant *)

Options ==
    /\ frequency \in Nat /\ total_time \in Nat \ {0}
    /\ delta \in {0, 1} /\ stat_mode \in {0, 1}

\* The loop goes on only while there are samples to take, so that the
\* frequency is not 0 when the period is computed.
CountInv ==
    pc \in {"get", "stat", "row", "sleep"} => temps < total_time * frequency

\* The two readings of the clock, and what is made of them, are the duration
\* modulo a second.
MeasureInv ==
    /\ pc = "get" => tv_nsec = ts_ref
    /\ pc = "stat" => tv_nsec = (ts_ref + spent) % Second
    /\ pc \in {"row", "sleep"} /\ stat_mode = 0 => stat_data = spent % Second
    /\ stat_mode = 1 => stat_data = 0

ColumnsInv ==
    /\ pc # "header" => header = 1 + NbSensors + (IF stat_mode = 0 THEN 1 ELSE 0)
    /\ pc = "sleep" => row = Row

IInv == TypeOK /\ Options /\ CountInv /\ MeasureInv /\ ColumnsInv

\* Nothing but the clock moves while time passes.
LEMMA ElapseType ==
    ASSUME TypeOK, NEW d \in Nat, Elapse(d)
    PROVE  tv_nsec' \in 0 .. Second - 1 /\ inSecond' \in Nat
BY TicksAssumption DEF TypeOK, Elapse

LEMMA InitIInv == Init => IInv
<1> SUFFICES ASSUME Init PROVE IInv
    OBVIOUS
<1>1. frequency \in Nat /\ stat_mode \in {0, 1} /\ total_time \in Nat \ {0}
          /\ delta \in {0, 1}
    BY TicksAssumption DEF Init
<1>2. total_time * frequency \in Nat
    BY <1>1
<1>3. TypeOK
    BY <1>1, <1>2, TicksAssumption DEF Init, TypeOK
<1> QED
    BY <1>1, <1>3 DEF Init, IInv, Options, CountInv, MeasureInv, ColumnsInv

LEMMA StepIInv == IInv /\ [Next]_vars => IInv'
<1> SUFFICES ASSUME IInv, [Next]_vars PROVE IInv'
    OBVIOUS
<1> USE DEF IInv, Options
<1>1. CASE PrintHeader
    BY <1>1, TicksAssumption
    DEF PrintHeader, options, TypeOK, CountInv, MeasureInv, ColumnsInv
<1>2. CASE Loop
    BY <1>2, TicksAssumption
    DEF Loop, options, TypeOK, CountInv, MeasureInv, ColumnsInv
<1>3. CASE GetValues
    <2>1. spent' \in 0 .. MaxCost /\ spent' \in Nat
        BY <1>3, TicksAssumption DEF GetValues
    <2>2. tv_nsec' \in 0 .. Second - 1 /\ inSecond' \in Nat
        BY <1>3, <2>1, ElapseType DEF GetValues
    <2>3. ts_ref = tv_nsec
        BY <1>3 DEF GetValues, MeasureInv
    <2>4. tv_nsec' = (ts_ref' + spent') % Second
        BY <1>3, <2>3 DEF GetValues, Elapse
    <2> QED
        BY <1>3, <2>1, <2>2, <2>4
        DEF GetValues, options, TypeOK, CountInv, MeasureInv, ColumnsInv
<1>4. CASE Measure
    <2>1. Overhead = spent % Second
        BY <1>4, Difference DEF Measure, Overhead, MeasureInv, TypeOK
    <2>2. spent % Second \in 0 .. Second - 1
        BY TicksAssumption DEF TypeOK
    <2> QED
        BY <1>4, <2>1, <2>2
        DEF Measure, options, TypeOK, CountInv, MeasureInv, ColumnsInv
<1>5. CASE PrintRow
    <2>1. PICK late \in 0 .. MaxLate : Elapse(late)
        BY <1>5 DEF PrintRow
    <2>2. tv_nsec' \in 0 .. Second - 1 /\ inSecond' \in Nat
        BY <2>1, ElapseType, TicksAssumption
    <2>3. row' = Row' /\ row' \in Nat
        BY <1>5, TicksAssumption DEF PrintRow, Row
    <2> QED
        BY <1>5, <2>2, <2>3
        DEF PrintRow, options, TypeOK, CountInv, MeasureInv, ColumnsInv
<1>6. CASE Sleep
    <2>1. CASE Period = 0
        BY <1>6, <2>1
        DEF Sleep, options, TypeOK, CountInv, MeasureInv, ColumnsInv
    <2>2. CASE Period # 0
        <3>1. PICK late \in 0 .. MaxLate : SleepUntilNext(late)
            BY <1>6, <2>2 DEF Sleep
        <3>2. frequency > 0
            BY <1>6 DEF Sleep, CountInv, TypeOK
        <3>3. Period \in Nat \ {0}
            BY <2>2, <3>2, TicksAssumption DEF Period
        <3>4. (Period - (tv_nsec % Period)) + late \in Nat
            BY <3>1, <3>3, TicksAssumption DEF TypeOK
        <3>5. tv_nsec' \in 0 .. Second - 1 /\ inSecond' \in Nat
            BY <3>1, <3>4, ElapseType DEF SleepUntilNext
        <3>6. temps' \in 0 .. total_time' * frequency'
            <4>1. temps < total_time * frequency /\ total_time * frequency \in Nat
                BY <1>6 DEF Sleep, CountInv
            <4>2. temps' = temps + delta /\ total_time' = total_time /\ frequency' = frequency
                BY <1>6, <3>1 DEF Sleep, SleepUntilNext, options
            <4> QED BY <4>1, <4>2 DEF TypeOK
        <3> QED
            BY <1>6, <3>1, <3>5, <3>6
            DEF Sleep, SleepUntilNext, options, TypeOK, CountInv, MeasureInv, ColumnsInv
    <2> QED BY <2>1, <2>2
<1>7. CASE UNCHANGED vars
    BY <1>7 DEF vars, options, TypeOK, CountInv, MeasureInv, ColumnsInv, Row
<1>8. CASE Terminated
    BY <1>7, <1>8 DEF Terminated
<1> QED
    BY <1>1, <1>2, <1>3, <1>4, <1>5, <1>6, <1>7, <1>8 DEF Next

LEMMA IInvReported == IInv => OverheadReported
<1> SUFFICES ASSUME IInv PROVE OverheadReported
    OBVIOUS
<1>1. spent \in Nat /\ stat_data \in Nat
    BY TicksAssumption DEF IInv, TypeOK
<1>2. ASSUME spent < Second PROVE spent % Second = spent
    BY <1>1, <1>2, SmallRemainder, TicksAssumption
<1>3. ASSUME pc = "row", stat_mode = 0, spent < Second PROVE stat_data = spent
    BY <1>2, <1>3 DEF IInv, MeasureInv
<1>4. ASSUME pc = "sleep", spent % Second # 0 PROVE row = header
    <2>1. stat_mode = 0 => stat_data # 0
        BY <1>4 DEF IInv, MeasureInv
    <2>2. stat_mode = 1 => stat_data = 0
        BY DEF IInv, MeasureInv
    <2> QED
        BY <1>4, <2>1, <2>2 DEF IInv, Options, ColumnsInv, Row
<1> QED BY <1>3, <1>4 DEF OverheadReported

-----------------------------------------------------------------------------
(* The grid *)

\* When the frequency divides the second, the time behind the last multiple of
\* the period is what the process was late.
GridInv ==
    /\ pc = "header" => row = 0
    /\ pc \in {"loop", "get"} /\ row # 0 /\ Divides => tv_nsec % Period <= MaxLate

LEMMA DividesPeriod ==
    ASSUME frequency \in Nat, Divides
    PROVE  Period \in Nat \ {0} /\ Second = frequency * Period
<1>1. frequency \in Nat \ {0} /\ Second \in Nat \ {0} /\ Second % frequency = 0
    BY TicksAssumption DEF Divides
<1>2. Period \in Int /\ Second = Period * frequency
    BY <1>1, Division DEF Period
<1>3. Period > 0
    <2>1. CASE Period =< 0
        <3>1. Period * frequency =< 0
            BY <1>1, <1>2, <2>1
        <3> QED BY <1>1, <1>2, <3>1
    <2> QED BY <1>2, <2>1
<1> QED BY <1>1, <1>2, <1>3

\* Sleeping to the next multiple of the period, and late ticks longer, ends
\* late ticks, or fewer, behind a multiple, also in the next second.
LEMMA NextMultiple ==
    ASSUME NEW p \in Nat \ {0}, NEW f \in Nat, f * p \in Nat \ {0},
           NEW t \in Nat, NEW late \in Nat
    PROVE  ((t + ((p - (t % p)) + late)) % (f * p)) % p <= late
<1> DEFINE k == t \div p
<1> DEFINE l == late \div p
<1> DEFINE r == late % p
<1> DEFINE x == t + ((p - (t % p)) + late)
<1> DEFINE q == x \div (f * p)
<1>1. k \in Int /\ t % p \in 0 .. p - 1 /\ t = k * p + (t % p)
    BY Division
<1>2. l \in Int /\ r \in 0 .. p - 1 /\ late = l * p + r
    BY Division
<1>3. x \in Int
    BY <1>1
<1>4. x = (k + 1) * p + (l * p + r)
    BY <1>1, <1>2
<1>5. q \in Int /\ x % (f * p) \in Int /\ x = q * (f * p) + (x % (f * p))
    <2> HIDE DEF x
    <2> DEFINE m == f * p
    <2>1. m \in Nat \ {0}
        OBVIOUS
    <2> HIDE DEF m
    <2>2. x \div m \in Int /\ x % m \in Int /\ x = (x \div m) * m + (x % m)
        BY <1>3, <2>1, Division
    <2> QED BY <2>2 DEF m
<1>6. r <= late
    <2>1. CASE l >= 0
        <3>1. l * p >= 0
            BY <1>2, <2>1
        <3> QED BY <1>2, <3>1
    <2>2. CASE l =< -1
        <3>1. l * p =< -p
            BY <1>2, <2>2
        <3> QED BY <1>2, <3>1
    <2> QED BY <1>2, <2>1, <2>2
<1> HIDE DEF k, l, r, x, q
<1>7. x % (f * p) = (((k + 1) + l) - q * f) * p + r
    <2>1. q * (f * p) = (q * f) * p
        BY <1>5
    <2>2. (((k + 1) + l) - q * f) * p = ((k + 1) * p + l * p) - (q * f) * p
        BY <1>1, <1>2, <1>5
    <2>3. (q * f) * p \in Int /\ (k + 1) * p \in Int /\ l * p \in Int
        BY <1>1, <1>2, <1>5
    <2> QED BY <1>2, <1>5, <1>4, <2>1, <2>2, <2>3
<1>8. ((k + 1) + l) - q * f \in Int
    BY <1>1, <1>2, <1>5
<1>9. (x % (f * p)) % p = r
    BY <1>2, <1>7, <1>8, Remainder
<1> QED BY <1>6, <1>9 DEF x

LEMMA GridStep == IInv /\ IInv' /\ GridInv /\ [Next]_vars => GridInv'
<1> SUFFICES ASSUME IInv, IInv', GridInv, [Next]_vars PROVE GridInv'
    OBVIOUS
<1>1. CASE PrintHeader
    BY <1>1 DEF PrintHeader, GridInv
<1>2. CASE Loop
    BY <1>2 DEF Loop, options, GridInv, Divides, Period
<1>3. CASE GetValues
    BY <1>3 DEF GetValues, GridInv
<1>4. CASE Measure
    BY <1>4 DEF Measure, GridInv
<1>5. CASE PrintRow
    BY <1>5 DEF PrintRow, GridInv
<1>6. CASE Sleep
    <2>1. CASE Period = 0
        BY <1>6, <2>1 DEF Sleep, GridInv
    <2>2. CASE Period # 0
        <3>1. PICK late \in 0 .. MaxLate : SleepUntilNext(late)
            BY <1>6, <2>2 DEF Sleep
        <3>2. pc' = "loop" /\ Divides' = Divides /\ Period' = Period
            BY <1>6, <3>1 DEF Sleep, SleepUntilNext, options, Divides, Period
        <3>3. ASSUME Divides PROVE tv_nsec' % Period <= MaxLate
            <4>1. Period \in Nat \ {0} /\ Second = frequency * Period
                BY <3>3, DividesPeriod DEF IInv, Options
            <4>2. tv_nsec' = (tv_nsec + ((Period - (tv_nsec % Period)) + late)) % Second
                BY <3>1 DEF SleepUntilNext, Elapse
            <4>3. frequency \in Nat /\ tv_nsec \in Nat /\ late \in Nat
                      /\ Second \in Nat \ {0}
                BY <3>1, TicksAssumption DEF IInv, Options, TypeOK
            <4>4. tv_nsec' % Period <= late
                BY <4>1, <4>2, <4>3, NextMultiple
            <4>5. tv_nsec' % Period \in Int
                BY <4>1, Division DEF IInv, TypeOK
            <4> QED BY <3>1, <4>4, <4>5, TicksAssumption
        <3> QED BY <3>2, <3>3 DEF GridInv
    <2> QED BY <2>1, <2>2
<1>7. CASE UNCHANGED vars
    BY <1>7 DEF vars, options, GridInv, Divides, Period
<1>8. CASE Terminated
    BY <1>7, <1>8 DEF Terminated
<1> QED
    BY <1>1, <1>2, <1>3, <1>4, <1>5, <1>6, <1>7, <1>8 DEF Next

LEMMA GridInit == Init => GridInv
BY DEF Init, GridInv

LEMMA IInvGrid == IInv /\ GridInv => OnTheGrid
BY DEF IInv, MeasureInv, GridInv, OnTheGrid

-----------------------------------------------------------------------------
(* The number of samples of a second *)

\* Behind the q-th multiple of m at least q whole multiples have passed.
LEMMA Quotient ==
    ASSUME NEW m \in Nat \ {0}, NEW q \in Int, NEW a \in Int, q * m <= a
    PROVE  q <= a \div m
<1> DEFINE k == a \div m
<1> DEFINE r == a % m
<1>1. k \in Int /\ r \in 0 .. m - 1 /\ a = k * m + r
    BY Division
<1> HIDE DEF k, r
<1>2. CASE k <= q - 1
    <2>1. k * m <= (q - 1) * m
        BY <1>1, <1>2
    <2>2. (q - 1) * m = q * m - m
        OBVIOUS
    <2>3. k * m \in Int /\ q * m \in Int
        BY <1>1
    <2> QED BY <1>1, <2>1, <2>2, <2>3
<1> QED BY <1>1, <1>2 DEF k

\* The loop sleeps, for a period that is not 0.
Sampled == frequency > 0 /\ Period > 0

LEMMA SampledPeriod ==
    ASSUME frequency \in Nat, Sampled
    PROVE  Period \in Nat \ {0}
<1>1. Period \in Int
    BY TicksAssumption, Division DEF Sampled, Period
<1> QED BY <1>1 DEF Sampled

\* No more samples begin in a second than periods, and in front of the next
\* one the current period has none yet.
RateInv ==
    Sampled => /\ inSecond <= (tv_nsec \div Period) + 1
               /\ pc \in {"header", "loop"} => inSecond <= tv_nsec \div Period

LEMMA RateInit == Init /\ IInv => RateInv
<1> SUFFICES ASSUME Init, IInv, Sampled PROVE inSecond <= tv_nsec \div Period
    BY Division, SampledPeriod DEF RateInv, Init, IInv, Options, TypeOK
<1>1. Period \in Nat \ {0} /\ tv_nsec \in Nat /\ inSecond = 0
    BY SampledPeriod DEF Init, IInv, Options, TypeOK
<1>2. 0 * Period <= tv_nsec
    BY <1>1
<1> QED BY <1>1, <1>2, Quotient

\* Time that passes in a second brings no sample and may end a period; the
\* next second begins with none.
LEMMA RateElapse ==
    ASSUME IInv, Sampled, NEW t \in Nat, Elapse(t), NEW n \in 0 .. 1,
           t + (tv_nsec % Period) >= n * Period,
           inSecond <= (tv_nsec \div Period) + 1
    PROVE  inSecond' <= (tv_nsec' \div Period) + (1 - n)
<1>1. /\ Period \in Nat \ {0} /\ Second \in Nat \ {0}
      /\ tv_nsec \in 0 .. Second - 1 /\ inSecond \in Nat
    BY SampledPeriod, TicksAssumption DEF IInv, Options, TypeOK
<1>2. tv_nsec' \in 0 .. Second - 1
    BY ElapseType DEF IInv
<1> DEFINE k == tv_nsec \div Period
<1> DEFINE r == tv_nsec % Period
<1>3. k \in Int /\ r \in 0 .. Period - 1 /\ tv_nsec = k * Period + r
    BY <1>1, Division
<1>4. tv_nsec' \div Period \in Int
    BY <1>1, <1>2, Division
<1>5. CASE tv_nsec + t >= Second
    <2>1. inSecond' = 0
        BY <1>5 DEF Elapse
    <2>2. 0 * Period <= tv_nsec'
        BY <1>1, <1>2
    <2>3. 0 <= tv_nsec' \div Period
        <3>1. 0 \in Int /\ tv_nsec' \in Int /\ Period \in Nat \ {0}
            BY <1>1, <1>2
        <3> QED BY <2>2, <3>1, Quotient
    <2> QED BY <1>4, <2>1, <2>3
<1>6. CASE tv_nsec + t < Second
    <2>1. inSecond' = inSecond /\ tv_nsec' = (tv_nsec + t) % Second
        BY <1>1, <1>6 DEF Elapse
    <2>2. tv_nsec' = tv_nsec + t
        BY <1>1, <1>6, <2>1, SmallRemainder
    <2> HIDE DEF k, r
    <2>3. (k + n) * Period = k * Period + n * Period
        BY <1>1, <1>3
    <2>4. (k + n) * Period <= tv_nsec'
        <3>1. k * Period \in Int /\ n * Period \in Int
            BY <1>1, <1>3
        <3>2. t + r >= n * Period
            BY DEF r
        <3> QED BY <1>1, <1>3, <2>2, <2>3, <3>1, <3>2
    <2>5. k + n <= tv_nsec' \div Period
        BY <1>1, <1>2, <1>3, <2>4, Quotient
    <2>6. inSecond <= k + 1
        BY DEF k
    <2> QED BY <1>1, <1>3, <1>4, <2>1, <2>5, <2>6
<1> QED BY <1>1, <1>5, <1>6

LEMMA RateStep == IInv /\ RateInv /\ [Next]_vars => RateInv'
<1> SUFFICES ASSUME IInv, RateInv, [Next]_vars, Sampled' PROVE RateInv'
    BY DEF RateInv
<1>o. Sampled /\ Period' = Period /\ UNCHANGED options
    BY DEF Next, PrintHeader, Loop, GetValues, Measure, PrintRow, Sleep,
       Terminated, vars, options, Sampled, Period
<1>t. /\ tv_nsec \in Nat /\ inSecond \in Nat /\ Period \in Nat \ {0}
      /\ tv_nsec \div Period \in Int /\ tv_nsec % Period \in Nat
    <2>1. /\ tv_nsec \in Nat /\ inSecond \in Nat
          /\ Period \in Nat \ {0}
        BY <1>o, SampledPeriod, TicksAssumption DEF IInv, Options, TypeOK
    <2>2. /\ tv_nsec \div Period \in Int
          /\ tv_nsec % Period \in 0 .. Period - 1
        BY <2>1, Division
    <2> QED BY <2>1, <2>2
<1>r. /\ inSecond <= (tv_nsec \div Period) + 1
      /\ pc \in {"header", "loop"} => inSecond <= tv_nsec \div Period
    BY <1>o DEF RateInv
<1>e. ASSUME NEW t \in Nat, Elapse(t)
      PROVE  inSecond' <= (tv_nsec' \div Period) + 1
    <2>1. t + (tv_nsec % Period) >= 0 * Period
        BY <1>t
    <2>2. inSecond' <= (tv_nsec' \div Period) + (1 - 0)
        BY <1>e, <1>o, <1>r, <2>1, RateElapse
    <2> QED BY <2>2
<1>1. CASE PrintHeader \/ Measure \/ Terminated \/ UNCHANGED vars
    BY <1>1, <1>o, <1>r
    DEF PrintHeader, Measure, Terminated, vars, RateInv
<1>2. CASE Loop
    BY <1>2, <1>o, <1>r, <1>t DEF Loop, RateInv
<1>3. CASE GetValues
    <2>1. spent' \in Nat /\ Elapse(spent') /\ pc' = "stat"
        BY <1>3, TicksAssumption DEF GetValues
    <2> QED BY <1>e, <1>o, <2>1 DEF RateInv
<1>4. CASE PrintRow
    <2>1. PICK late \in 0 .. MaxLate : Elapse(late)
        BY <1>4 DEF PrintRow
    <2>2. late \in Nat /\ pc' = "sleep"
        BY <1>4, TicksAssumption DEF PrintRow
    <2> QED BY <1>e, <1>o, <2>1, <2>2 DEF RateInv
<1>5. CASE Sleep
    <2>1. PICK late \in 0 .. MaxLate : SleepUntilNext(late)
        BY <1>5, <1>t DEF Sleep
    <2> DEFINE rest == (Period - (tv_nsec % Period)) + late
    <2>2. rest \in Nat /\ Elapse(rest)
        <3>1. tv_nsec % Period \in 0 .. Period - 1
            BY <1>t, Division
        <3> QED BY <1>t, <2>1, <3>1, TicksAssumption DEF SleepUntilNext
    <2>3. rest + (tv_nsec % Period) >= 1 * Period
        BY <1>t
    <2> HIDE DEF rest
    <2>4. inSecond' <= (tv_nsec' \div Period) + (1 - 1)
        BY <1>o, <1>r, <2>2, <2>3, RateElapse
    <2>5. inSecond' <= (tv_nsec' \div Period) + 1
        BY <1>e, <2>2
    <2>6. tv_nsec' \div Period \in Int
        BY <1>t, <2>2, ElapseType, Division DEF IInv
    <2> QED BY <1>o, <2>4, <2>5, <2>6 DEF RateInv
<1> QED
    BY <1>1, <1>2, <1>3, <1>4, <1>5 DEF Next

LEMMA RateBound == IInv /\ RateInv => AtMostFrequency
<1> SUFFICES ASSUME IInv, RateInv, Sampled
             PROVE  /\ inSecond <= (Second - 1) \div Period + 1
                    /\ Divides => inSecond <= frequency
    BY DEF AtMostFrequency, Sampled
<1>1. /\ Period \in Nat \ {0} /\ frequency \in Nat /\ Second \in Nat
      /\ tv_nsec \in 0 .. Second - 1 /\ inSecond \in Nat
    BY SampledPeriod, TicksAssumption DEF IInv, Options, TypeOK
<1> DEFINE k == tv_nsec \div Period
<1> DEFINE r == tv_nsec % Period
<1>2. k \in Int /\ r \in 0 .. Period - 1 /\ tv_nsec = k * Period + r
    BY <1>1, Division
<1>3. inSecond <= k + 1
    BY DEF RateInv
<1> HIDE DEF k, r
<1>4. k <= (Second - 1) \div Period /\ (Second - 1) \div Period \in Int
    <2>1. k * Period \in Int /\ Second - 1 \in Int
        BY <1>1, <1>2
    <2>2. k * Period <= Second - 1
        BY <1>1, <1>2, <2>1
    <2> QED BY <1>1, <1>2, <2>1, <2>2, Quotient, Division
<1>5. ASSUME Divides PROVE k < frequency
    <2>1. Second = frequency * Period
        BY <1>1, <1>5, DividesPeriod
    <2>2. CASE k >= frequency
        <3>1. k * Period >= frequency * Period
            BY <1>1, <1>2, <2>2
        <3> QED BY <1>1, <1>2, <2>1, <3>1
    <2> QED BY <1>1, <1>2, <2>2
<1> QED BY <1>1, <1>2, <1>3, <1>4, <1>5

-----------------------------------------------------------------------------
(* The theorems *)

LEMMA Invariance == Spec => []IInv
BY InitIInv, StepIInv, PTL DEF Spec

\* Every variable of the loop keeps its type: the overhead is below a second
\* and the loop never takes more samples than were asked for.
THEOREM TypeCorrect == Spec => []TypeOK
<1>1. IInv => TypeOK
    BY DEF IInv
<1> QED BY <1>1, Invariance, PTL

\* For every length of a second and every cost of a measure, the overhead of a
\* measure shorter than a second is exact and the row has its column.
THEOREM OverheadCorrect == Spec => []OverheadReported
BY IInvReported, Invariance, PTL

\* When the frequency divides the second, samples stay on the multiples of the
\* period, for every period, cost of a sample and delay: lateness does not add
\* up from one sample to the next.
THEOREM SamplesOnTheGrid == Spec => []OnTheGrid
<1>1. Init => IInv /\ GridInv
    BY InitIInv, GridInit
<1>2. (IInv /\ GridInv) /\ [Next]_vars => (IInv /\ GridInv)'
    BY StepIInv, GridStep
<1> QED BY <1>1, <1>2, IInvGrid, PTL DEF Spec

\* For every frequency, cost of a sample and delay, no second has more samples
\* than multiples of the period, which are as many as the frequency says when
\* it divides the second: a process that wakes up late skips periods and never
\* makes up for them.
THEOREM SamplesBounded == Spec => []AtMostFrequency
<1>1. Init => IInv /\ RateInv
    BY InitIInv, RateInit
<1>2. (IInv /\ RateInv) /\ [Next]_vars => (IInv /\ RateInv)'
    BY StepIInv, RateStep
<1> QED BY <1>1, <1>2, RateBound, PTL DEF Spec
=============================================================================
