------------------------------- MODULE Sampler -------------------------------
(***************************************************************************)
(* The sampling loop of src/mojitos.c with the rows of                     *)
(* src/display_manager.c: when samples are taken, how many, what the       *)
(* overhead measure reports and how many columns a row has.                *)
(*                                                                         *)
(* The clock is read in ticks, Second of them a second.  The code looks at *)
(* tv_nsec alone, so that the model keeps the tick within the second, and  *)
(* next to it what really happened: the duration of the measure and the    *)
(* number of samples of the current second.                                *)
(***************************************************************************)
EXTENDS Integers

CONSTANTS
    Second,       \* ticks of a second
    Frequencies,  \* values of -f
    Times,        \* values of -t
    StatModes,    \* stat_mode: 0 iff -s was given, 1 for -1
    NbSensors,    \* columns of the sensors
    MaxCost,      \* longest moj_get_values(), in ticks
    MaxLate       \* longest delay in printing and in waking up, in ticks

ASSUME TicksAssumption ==
    /\ Second \in Nat \ {0} /\ NbSensors \in Nat
    /\ MaxCost \in Nat /\ MaxLate \in Nat
    /\ Frequencies \subseteq Nat /\ Times \subseteq Nat
    /\ StatModes \subseteq {0, 1}

VARIABLES
    pc,
    frequency, total_time, delta, stat_mode,  \* the options, as main sets them
    tv_nsec,    \* the clock, within the second
    ts_ref,     \* tv_nsec when the sample began
    spent,      \* true duration of moj_get_values()
    stat_data,
    temps,
    header,     \* columns of the header, 0 before it is printed
    row,        \* columns of the last row, 0 before it is printed
    inSecond    \* samples begun in the current second

options == <<frequency, total_time, delta, stat_mode>>
vars == <<pc, options, tv_nsec, ts_ref, spent, stat_data, temps, header, row,
          inSecond>>

\* -t 0 asks for a loop without end: delta stays 0.
Init ==
    /\ frequency \in Frequencies /\ stat_mode \in StatModes
    /\ \E t \in Times : /\ total_time = IF t = 0 THEN 1 ELSE t
                        /\ delta = IF t = 0 THEN 0 ELSE 1
    /\ tv_nsec \in 0 .. Second - 1
    /\ pc = "header" /\ ts_ref = 0 /\ spent = 0 /\ stat_data = 0 /\ temps = 0
    /\ header = 0 /\ row = 0 /\ inSecond = 0

\* d ticks pass; a new second starts the count of its samples.
Elapse(d) ==
    /\ tv_nsec' = (tv_nsec + d) % Second
    /\ inSecond' = IF tv_nsec + d >= Second THEN 0 ELSE inSecond

\* init_manager(): the timestamp, the sensors and, with -s, the overhead.
PrintHeader ==
    /\ pc = "header"
    /\ header' = 1 + NbSensors + (IF stat_mode = 0 THEN 1 ELSE 0)
    /\ pc' = "loop"
    /\ UNCHANGED <<options, tv_nsec, ts_ref, spent, stat_data, temps, row,
                   inSecond>>

\* The loop test and the first clock_gettime.
Loop ==
    /\ pc = "loop"
    /\ IF temps < total_time * frequency
       THEN /\ pc' = "get"
            /\ ts_ref' = tv_nsec
            /\ inSecond' = inSecond + 1
       ELSE pc' = "done" /\ UNCHANGED <<ts_ref, inSecond>>
    /\ UNCHANGED <<options, tv_nsec, spent, stat_data, temps, header, row>>

\* moj_get_values() takes its time.
GetValues ==
    /\ pc = "get"
    /\ spent' \in 0 .. MaxCost
    /\ Elapse(spent')
    /\ pc' = "stat"
    /\ UNCHANGED <<options, ts_ref, stat_data, temps, header, row>>

\* Fault: the end of the second is forgotten.
NoCarry == tv_nsec - ts_ref

\* The seconds of the two times are not looked at.
Overhead == IF tv_nsec >= ts_ref THEN tv_nsec - ts_ref
                                 ELSE Second + tv_nsec - ts_ref

Measure ==
    /\ pc = "stat"
    /\ stat_data' = IF stat_mode = 0 THEN Overhead ELSE stat_data
    /\ pc' = "row"
    /\ UNCHANGED <<options, tv_nsec, ts_ref, spent, temps, header, row,
                   inSecond>>

\* use_manager(): an overhead of 0 has no column.
Row == 1 + NbSensors + (IF stat_data # 0 THEN 1 ELSE 0)

PrintRow ==
    /\ pc = "row"
    /\ row' = Row
    /\ \E late \in 0 .. MaxLate : Elapse(late)
    /\ pc' = "sleep"
    /\ UNCHANGED <<options, ts_ref, spent, stat_data, temps, header>>

Period == Second \div frequency

\* Fault: a whole period is slept, whatever the time.
SleepWholePeriod(late) ==
    /\ Elapse(Period + late)
    /\ temps' = temps + delta
    /\ pc' = "loop"

\* Fault: what is over of the period is slept, not what is left of it.
SleepRemainder(late) ==
    /\ Elapse((tv_nsec % Period) + late)
    /\ temps' = temps + delta
    /\ pc' = "loop"

\* Up to the next multiple of the period, counted from the second.
SleepUntilNext(late) ==
    /\ Elapse((Period - (tv_nsec % Period)) + late)
    /\ temps' = temps + delta
    /\ pc' = "loop"

\* A period of 0 is divided by, which ends the program.
Sleep ==
    /\ pc = "sleep"
    /\ IF Period = 0
       THEN pc' = "crash" /\ UNCHANGED <<tv_nsec, inSecond, temps>>
       ELSE \E late \in 0 .. MaxLate : SleepUntilNext(late)
    /\ UNCHANGED <<options, ts_ref, spent, stat_data, header, row>>

Terminated == pc \in {"done", "crash"} /\ UNCHANGED vars

Next == \/ PrintHeader \/ Loop \/ GetValues \/ Measure \/ PrintRow \/ Sleep
        \/ Terminated

Spec == Init /\ [][Next]_vars

-----------------------------------------------------------------------------
(* Properties *)

TypeOK ==
    /\ pc \in {"header", "loop", "get", "stat", "row", "sleep", "done", "crash"}
    /\ delta \in {0, 1} /\ total_time \in Nat \ {0}
    /\ tv_nsec \in 0 .. Second - 1 /\ ts_ref \in 0 .. Second - 1
    /\ spent \in 0 .. MaxCost
    /\ stat_data \in 0 .. Second - 1
    /\ temps \in 0 .. total_time * frequency
    /\ header \in Nat /\ row \in Nat /\ inSecond \in Nat

\* A measure shorter than a second is reported exactly, also across the end
\* of a second, and each row has the columns of the header, unless the
\* measure took no time or whole seconds.
OverheadReported ==
    /\ pc = "row" /\ stat_mode = 0 /\ spent < Second => stat_data = spent
    /\ pc = "sleep" /\ spent % Second # 0 => row = header

Divides == frequency > 0 /\ Second % frequency = 0

\* No second has more samples than there are multiples of the period in it,
\* however late the process is woken up: a delay never brings two samples into
\* one period.  These are as many as the frequency says when it divides the
\* second, and more when it does not.
AtMostFrequency ==
    frequency > 0 /\ Period > 0 =>
        /\ inSecond <= (Second - 1) \div Period + 1
        /\ Divides => inSecond <= frequency

\* When the frequency divides the second the samples stay on the multiples of
\* the period: what a sample costs and how late the process is woken up do
\* not add up.  (The first sample is taken at once.)
OnTheGrid ==
    pc = "get" /\ row # 0 /\ Divides => ts_ref % Period <= MaxLate
=============================================================================
