------------------------ MODULE CyclicSensorsProofs ------------------------
(***************************************************************************)
(* The two subtractions of util.c undo a cyclic increment, for every size  *)
(* of word and every maximum of a RAPL zone; hence every sensor whose      *)
(* counter wraps where its subtraction assumes it reports exact increases. *)
(***************************************************************************)
EXTENDS CyclicSensors, TLAPS

\* a + d, for a counter that takes m values.
Wrap(a, d, m) == IF a + d >= m THEN a + d - m ELSE a + d

-----------------------------------------------------------------------------
(* The subtractions *)

\* modulo_substraction() recovers d from a counter of 64 bits.
LEMMA FullWordDifference ==
    ASSUME NEW a \in 0 .. Word - 1, NEW d \in 0 .. Word - 1
    PROVE  modulo_substraction(Wrap(a, d, Word), a) = d
BY WordAssumption DEF modulo_substraction, Wrap, UINT64_MAX

\* modulo_substraction_bound() recovers d from a counter whose last value is
\* the modulo it is given.
LEMMA BoundDifference ==
    ASSUME NEW max \in Nat, NEW a \in 0 .. max, NEW d \in 0 .. max
    PROVE  modulo_substraction_bound(Wrap(a, d, max + 1), a, max) = d
BY DEF modulo_substraction_bound, Wrap

\* A further increment that keeps the sum below one turn adds up.
LEMMA WrapAdds ==
    ASSUME NEW m \in Nat, NEW a \in 0 .. m - 1,
           NEW g \in Nat, NEW d \in Nat, g + d < m
    PROVE  /\ Wrap(a, g, m) \in 0 .. m - 1
           /\ Wrap(a, g + d, m) = Wrap(Wrap(a, g, m), d, m)
BY DEF Wrap

LEMMA ModulusType ==
    ASSUME NEW s \in Sensors
    PROVE  Modulus(s) \in 1 .. Word
BY WordAssumption, SensorsAssumption DEF Modulus, AllSensors

-----------------------------------------------------------------------------
(* The inductive invariant: the counter stands where the last read left it, *)
(* plus what it gained.                                                     *)

SensorTypeOK(s) ==
    /\ hw[s] \in 0 .. Modulus(s) - 1
    /\ gained[s] \in 0 .. Modulus(s) - 1
    /\ values[s] \in 0 .. Modulus(s) - 1

Tracks(s) ==
    /\ pc[s] # "off" => hw[s] = Wrap(values[s], gained[s], Modulus(s))
    /\ pc[s] \in {"first", "later"} => results[s] = truth[s]

Functions ==
    /\ pc \in [Sensors -> {"off", "on", "first", "later"}]
    /\ hw = [s \in Sensors |-> hw[s]] /\ values = [s \in Sensors |-> values[s]]
    /\ results = [s \in Sensors |-> results[s]]
    /\ gained = [s \in Sensors |-> gained[s]]
    /\ truth = [s \in Sensors |-> truth[s]]

IInv == Functions /\ \A s \in Sensors : SensorTypeOK(s) /\ Tracks(s)

\* Each of these sensors is read without conversion.
LEMMA GetDifference ==
    ASSUME NEW s \in Sensors, s # "amd_rapl",
           NEW a \in 0 .. Modulus(s) - 1, NEW d \in 0 .. Modulus(s) - 1
    PROVE  Difference(s, Wrap(a, d, Modulus(s)), a) = d
<1>1. CASE s = "rapl"
  <2>1. Modulus(s) = RaplMax + 1 /\ RaplMax \in Nat
    BY <1>1, WordAssumption DEF Modulus
  <2>2. a \in 0 .. RaplMax /\ d \in 0 .. RaplMax
    BY <2>1
  <2>3. Difference(s, Wrap(a, d, Modulus(s)), a)
            = modulo_substraction_bound(Wrap(a, d, RaplMax + 1), a, RaplMax)
    BY <1>1, <2>1 DEF Difference
  <2> QED
    BY <2>1, <2>2, <2>3, BoundDifference
<1>2. CASE s # "rapl"
  <2>1. Modulus(s) = Word
    BY <1>2 DEF Modulus
  <2>2. Difference(s, Wrap(a, d, Modulus(s)), a)
            = modulo_substraction(Wrap(a, d, Word), a)
    BY <1>2, <2>1 DEF Difference
  <2> QED
    BY <2>1, <2>2, FullWordDifference
<1> QED
  BY <1>1, <1>2

LEMMA InitIInv ==
    ASSUME "amd_rapl" \notin Sensors, Init
    PROVE  IInv
<1>1. Functions
  BY DEF Init, Functions
<1>2. ASSUME NEW s \in Sensors
      PROVE  SensorTypeOK(s) /\ Tracks(s)
  <2>1. hw[s] \in 0 .. Modulus(s) - 1
    BY WordAssumption, ModulusType DEF Init
  <2> QED
    BY <2>1, ModulusType DEF Init, SensorTypeOK, Tracks
<1> QED
  BY <1>1, <1>2 DEF IInv

\* Under each action, the sensor that takes the step and the others apart.
LEMMA StepIInv ==
    ASSUME "amd_rapl" \notin Sensors, IInv, [Next]_vars
    PROVE  IInv'
<1>1. ASSUME NEW t \in Sensors, InitSensor(t)
      PROVE  IInv'
  <2>1. Functions'
    BY <1>1 DEF InitSensor, IInv, Functions
  <2>2. ASSUME NEW s \in Sensors
        PROVE  SensorTypeOK(s)' /\ Tracks(s)'
    <3>1. SensorTypeOK(s) /\ Tracks(s) /\ Functions /\ Modulus(s) \in 1 .. Word
      BY ModulusType DEF IInv
    <3>2. CASE s = t
      <4>1. hw'[s] = hw[s] /\ gained'[s] = 0 /\ values'[s] = hw[s]
              /\ pc'[s] = "on"
        BY <1>1, <3>1, <3>2 DEF InitSensor, Functions, Read
      <4> QED
        BY <3>1, <4>1 DEF SensorTypeOK, Tracks, Wrap
    <3>3. CASE s # t
      <4>1. hw'[s] = hw[s] /\ gained'[s] = gained[s] /\ values'[s] = values[s]
              /\ pc'[s] = pc[s] /\ results'[s] = results[s]
              /\ truth'[s] = truth[s]
        BY <1>1, <3>1, <3>3 DEF InitSensor, Functions
      <4> QED
        BY <3>1, <4>1 DEF SensorTypeOK, Tracks
    <3> QED
      BY <3>2, <3>3
  <2> QED
    BY <2>1, <2>2 DEF IInv
<1>2. ASSUME NEW t \in Sensors, Get(t)
      PROVE  IInv'
  <2>1. Functions'
    BY <1>2 DEF Get, IInv, Functions
  <2>2. ASSUME NEW s \in Sensors
        PROVE  SensorTypeOK(s)' /\ Tracks(s)'
    <3>1. SensorTypeOK(s) /\ Tracks(s) /\ Functions /\ Modulus(s) \in 1 .. Word
      BY ModulusType DEF IInv
    <3>2. CASE s = t
      <4>1. /\ hw'[s] = hw[s] /\ gained'[s] = 0 /\ values'[s] = hw[s]
            /\ truth'[s] = gained[s]
            /\ results'[s] = Difference(s, hw[s], values[s])
        BY <1>2, <3>1, <3>2 DEF Get, Functions, Read
      <4>2. hw[s] = Wrap(values[s], gained[s], Modulus(s))
        BY <1>2, <3>1, <3>2 DEF Get, Tracks
      <4>3. Difference(s, hw[s], values[s]) = gained[s]
        BY <3>1, <4>2, GetDifference DEF SensorTypeOK
      <4> QED
        BY <3>1, <4>1, <4>3 DEF SensorTypeOK, Tracks, Wrap
    <3>3. CASE s # t
      <4>1. hw'[s] = hw[s] /\ gained'[s] = gained[s] /\ values'[s] = values[s]
              /\ pc'[s] = pc[s] /\ results'[s] = results[s]
              /\ truth'[s] = truth[s]
        BY <1>2, <3>1, <3>3 DEF Get, Functions
      <4> QED
        BY <3>1, <4>1 DEF SensorTypeOK, Tracks
    <3> QED
      BY <3>2, <3>3
  <2> QED
    BY <2>1, <2>2 DEF IInv
<1>3. ASSUME NEW t \in Sensors, NEW d \in 1 .. MaxStep, Count(t, d)
      PROVE  IInv'
  <2>1. Functions'
    BY <1>3 DEF Count, IInv, Functions
  <2>2. ASSUME NEW s \in Sensors
        PROVE  SensorTypeOK(s)' /\ Tracks(s)'
    <3>1. SensorTypeOK(s) /\ Tracks(s) /\ Functions /\ Modulus(s) \in 1 .. Word
      BY ModulusType DEF IInv
    <3>2. CASE s = t
      <4>1. /\ hw'[s] = Wrap(hw[s], d, Modulus(s))
            /\ gained'[s] = gained[s] + d /\ gained[s] + d < Modulus(s)
            /\ values'[s] = values[s] /\ pc'[s] = pc[s]
            /\ results'[s] = results[s] /\ truth'[s] = truth[s]
        BY <1>3, <3>1, <3>2 DEF Count, Functions, Wrap
      <4>2. d \in Nat /\ Modulus(s) \in Nat
        BY <3>1, WordAssumption
      <4>3. hw'[s] \in 0 .. Modulus(s) - 1 /\ gained'[s] \in 0 .. Modulus(s) - 1
        BY <3>1, <4>1, <4>2 DEF SensorTypeOK, Wrap
      <4>4. pc[s] # "off"
              => hw'[s] = Wrap(values[s], gained[s] + d, Modulus(s))
        <5>1. Wrap(values[s], gained[s] + d, Modulus(s))
                = Wrap(Wrap(values[s], gained[s], Modulus(s)), d, Modulus(s))
          <6>1. values[s] \in 0 .. Modulus(s) - 1 /\ gained[s] \in Nat
            BY <3>1, <4>2 DEF SensorTypeOK
          <6> QED
            BY <4>1, <4>2, <6>1, WrapAdds
        <5> QED
          BY <3>1, <4>1, <5>1 DEF Tracks
      <4> QED
        BY <3>1, <4>1, <4>3, <4>4 DEF SensorTypeOK, Tracks
    <3>3. CASE s # t
      <4>1. hw'[s] = hw[s] /\ gained'[s] = gained[s] /\ values'[s] = values[s]
              /\ pc'[s] = pc[s] /\ results'[s] = results[s]
              /\ truth'[s] = truth[s]
        BY <1>3, <3>1, <3>3 DEF Count, Functions
      <4> QED
        BY <3>1, <4>1 DEF SensorTypeOK, Tracks
    <3> QED
      BY <3>2, <3>3
  <2> QED
    BY <2>1, <2>2 DEF IInv
<1>4. CASE UNCHANGED vars
  BY <1>4 DEF vars, IInv, Functions, SensorTypeOK, Tracks
<1> QED
  BY <1>1, <1>2, <1>3, <1>4 DEF Next

\* Every sample of a sensor of counters.c, network.c, infiniband.c, disk.c,
\* load.c or rapl.c reports what its counter gained since the sample before,
\* for every word size, every maximum and every pace of the counters that
\* wraps at most once between two samples.
THEOREM IncrementsExact ==
    ASSUME "amd_rapl" \notin Sensors
    PROVE  Spec => []ExactIncrements
<1>1. Init => IInv
  BY InitIInv
<1>2. IInv /\ [Next]_vars => IInv'
  BY StepIInv
<1>3. IInv => ExactIncrements
  BY DEF IInv, Tracks, ExactIncrements
<1> QED
  BY <1>1, <1>2, <1>3, PTL DEF Spec
=============================================================================
