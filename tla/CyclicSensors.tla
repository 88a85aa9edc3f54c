--------------------------- MODULE CyclicSensors ---------------------------
(***************************************************************************)
(* The sensors that report the increase of a hardware or kernel counter    *)
(* between two samples, with the two subtractions of src/util.c.  The      *)
(* counters run on between the reads, and from one sensor of a sample to   *)
(* the next; each wraps at a modulus of its own.                           *)
(*                                                                         *)
(* A counter is one column of its sensor.  2^64 is abstracted to Word.     *)
(***************************************************************************)
EXTENDS Naturals

CONSTANTS
    Sensors,       \* the sensors under study
    Word,          \* number of values of an uint64_t
    RaplMax,       \* max_energy_range_uj of an Intel RAPL zone
    RawRange,      \* number of values of AMD's energy status (2^32)
    UnitNum, UnitDen, \* micro-joules of one unit: UnitNum / UnitDen
    MaxStep        \* bound on what a counter gains in one step

AllSensors ==
    {"counters", "network", "infiniband", "disk", "load", "rapl", "amd_rapl"}

ASSUME SensorsAssumption == Sensors \subseteq AllSensors
ASSUME WordAssumption ==
    /\ Word \in Nat \ {0} /\ RaplMax \in Nat /\ RaplMax < Word
    /\ RawRange \in 1 .. Word
    /\ UnitNum \in Nat /\ UnitDen \in Nat \ {0}
    /\ RawRange * UnitNum < Word * UnitDen
    /\ MaxStep \in Nat

VARIABLES
    pc,       \* sensor -> "off", "on" once initialised, then "first" or
              \* "later" after the first sample and the following ones
    hw,       \* sensor -> the counter in the hardware or the kernel
    values,   \* sensor -> what the previous read returned
    results,  \* sensor -> what the last sample reported
    gained,   \* sensor -> true increase since the previous read
    truth     \* history: true increase over the last sampled interval

vars == <<pc, hw, values, results, gained, truth>>

UINT64_MAX == Word - 1

modulo_substraction(lhs, rhs) ==
    IF lhs >= rhs THEN lhs - rhs ELSE (UINT64_MAX - rhs + 1) + lhs

\* Fault: modulo is taken for the number of values, not for the last one.
substraction_bound_off(lhs, rhs, modulo) ==
    IF lhs >= rhs THEN lhs - rhs ELSE (modulo - rhs) + lhs

modulo_substraction_bound(lhs, rhs, modulo) ==
    IF lhs >= rhs THEN lhs - rhs ELSE (modulo - rhs + 1) + lhs

raw_to_microjoule(raw) == (raw * UnitNum) \div UnitDen

\* Number of values the counter of s takes before it starts again at 0.
Modulus(s) == CASE s = "rapl" -> RaplMax + 1
              [] s = "amd_rapl" -> RawRange
              [] OTHER -> Word

\* What a read of the counter gives to the sensor.
Read(s) == IF s = "amd_rapl" THEN raw_to_microjoule(hw[s]) ELSE hw[s]

\* disk and load subtract two uint64_t, which is modulo_substraction.
Difference(s, new, old) ==
    IF s = "rapl" THEN modulo_substraction_bound(new, old, RaplMax)
                  ELSE modulo_substraction(new, old)

Init ==
    /\ pc = [s \in Sensors |-> "off"]
    /\ hw \in [Sensors -> 0 .. Word - 1]
    /\ \A s \in Sensors : hw[s] < Modulus(s)
    /\ values = [s \in Sensors |-> 0]
    /\ results = [s \in Sensors |-> 0]
    /\ gained = [s \in Sensors |-> 0]
    /\ truth = [s \in Sensors |-> 0]

\* The counter gains d; it wraps at most once between two reads.
Count(s, d) ==
    /\ gained[s] + d < Modulus(s)
    /\ hw' = [hw EXCEPT ![s] = IF @ + d >= Modulus(s) THEN @ + d - Modulus(s)
                                                   ELSE @ + d]
    /\ gained' = [gained EXCEPT ![s] = @ + d]
    /\ UNCHANGED <<pc, values, results, truth>>

\* init_<sensor>() reads the counter once, as the base of the first sample;
\* amd_rapl does not, and starts from the 0 of calloc().
InitSensor(s) ==
    /\ pc[s] = "off"
    /\ pc' = [pc EXCEPT ![s] = "on"]
    /\ values' = [values EXCEPT ![s] = IF s = "amd_rapl" THEN 0 ELSE Read(s)]
    /\ gained' = [gained EXCEPT ![s] = 0]
    /\ UNCHANGED <<hw, results, truth>>

\* get_<sensor>(): read, subtract, keep what was read for the next time.
Get(s) ==
    /\ pc[s] # "off"
    /\ pc' = [pc EXCEPT ![s] = IF @ = "on" THEN "first" ELSE "later"]
    /\ results' = [results EXCEPT ![s] = Difference(s, Read(s), values[s])]
    /\ values' = [values EXCEPT ![s] = Read(s)]
    /\ truth' = [truth EXCEPT ![s] = gained[s]]
    /\ gained' = [gained EXCEPT ![s] = 0]
    /\ UNCHANGED hw

Next == \E s \in Sensors : \/ InitSensor(s)
                           \/ Get(s)
                           \/ \E d \in 1 .. MaxStep : Count(s, d)

Spec == Init /\ [][Next]_vars

-----------------------------------------------------------------------------
(* Properties *)

TypeOK ==
    /\ pc \in [Sensors -> {"off", "on", "first", "later"}]
    /\ \A s \in Sensors :
        /\ hw[s] \in 0 .. Modulus(s) - 1
        /\ values[s] \in 0 .. Word - 1 /\ results[s] \in 0 .. Word - 1
        /\ gained[s] \in 0 .. Modulus(s) - 1
        /\ truth[s] \in 0 .. Modulus(s) - 1

\* A sample reports what the counter gained since the previous sample, or
\* since the sensor was initialised, also when the counter wrapped: the
\* unsigned subtraction is right for a 64-bit counter, the bounded one for
\* a RAPL zone whose maximum is the last value it takes.
ExactIncrements ==
    \A s \in Sensors :
        pc[s] \in {"first", "later"} => results[s] = truth[s]

\* util.h, lines 39 and 40: "Substracts lhs by rhs, assuming that lhs is a
\* cyclic increment from rhs, meaning that if rhs is greater, lhs's value
\* overflowed".  For amd_rapl, up to the rounding to micro-joules and leaving
\* the first sample aside: the report is the energy consumed in the interval.
AmdIncrements ==
    "amd_rapl" \in Sensors /\ pc["amd_rapl"] = "later" =>
        LET reported == results["amd_rapl"] * UnitDen
            consumed == truth["amd_rapl"] * UnitNum
        IN  /\ reported < consumed + UnitDen
            /\ consumed < reported + UnitDen
=============================================================================
