------------------------------ MODULE Registry ------------------------------
(***************************************************************************)
(* src/libmojitos.c: the table of sources that moj_init() builds from the  *)
(* command line, that moj_get_values() reads at every sample and that      *)
(* moj_clean() takes down, under the callers of src/mojitos.c: the         *)
(* sampling loop, exit() called by a sensor or by a signal handler, and    *)
(* flushexit().                                                            *)
(*                                                                         *)
(* A source is an occurrence of an option; its resource (files, counters,  *)
(* malloced state) is abstracted to the rank of that occurrence.           *)
(***************************************************************************)
EXTENDS Naturals, Sequences, FiniteSets

CONSTANTS
    Opts,         \* _moj_opts: [sensor, short, fn], in the order of sensors[]
    Outcomes,     \* sensor -> numbers of columns its init may return
    Fatal,        \* sensors whose init or get may call exit()
    Static,       \* sensors that keep their state in static variables
    Keeps,        \* sensors whose init may return 0 with something open
    MaxRequests,  \* bound on the options of the command line
    Signals       \* signals that may be sent, each caught at most once

ASSUME OptsAssumption ==
    Opts \in Seq([sensor : DOMAIN Outcomes, short : STRING, fn : BOOLEAN])
ASSUME OutcomesAssumption ==
    \A s \in DOMAIN Outcomes : Outcomes[s] \subseteq Nat
\* load, the one with static state, either has its two columns or exits.
ASSUME KeepsAssumption == Keeps \subseteq DOMAIN Outcomes \ Static

VARIABLES
    pc,          \* next statement of the main thread
    asked,       \* options served so far
    src,         \* the source add_source() is working on
    nb,          \* what its init returned
    nb_sources, nb_sensors,
    states,      \* one source per slot
    getter, cleaner, \* one function (named by its source) per slot
    labels,      \* the source and rank behind each column label
    values,      \* the source, rank and sample of each value
    i, current,  \* loop indices of moj_get_values() and moj_clean()
    sample,      \* parity of the current sample
    caught,      \* signals caught
    open,        \* resources opened and not closed
    lost,        \* history: those of sources that were dropped
    closed,      \* history: closes, in order
    left         \* history: the pc at which exit() was called, or "none"

table == <<nb_sources, nb_sensors, states, getter, cleaner, labels, values>>
loop  == <<i, current, sample>>
hist  == <<caught, open, lost, closed, left>>
vars  == <<pc, asked, src, nb, table, loop, hist>>

NoSource == [id |-> 0, sensor |-> "none"]

\* Columns of a source, as its labeler writes them.
Columns(s, n) == [k \in 1 .. n |-> [id |-> s.id, k |-> k]]

\* The values its getter writes.
Reading(s, n) == [k \in 1 .. n |-> [id |-> s.id, k |-> k, at |-> sample]]

\* A slot that realloc() has made and nothing has written.
Unwritten(n) == [k \in 1 .. n |-> [id |-> 0, k |-> 0, at |-> 0]]

\* Number of columns source s registered (its getter and labeler agree).
Width(s) == Cardinality({c \in 1 .. Len(labels) : labels[c].id = s.id})

Init ==
    /\ pc = "options" /\ asked = 0 /\ src = NoSource /\ nb = 0
    /\ nb_sources = 0 /\ nb_sensors = 0
    /\ states = <<>> /\ getter = <<>> /\ cleaner = <<>>
    /\ labels = <<>> /\ values = <<>>
    /\ i = 0 /\ current = 0 /\ sample = 0
    /\ caught = {} /\ open = {} /\ lost = {} /\ closed = <<>> /\ left = "none"

\* Fault: moj_clean() starts with the second source.
ExitFromSecond(from) ==
    /\ pc' = "clean"
    /\ i' = 1
    /\ left' = from

\* exit() called at statement "from": flushexit() comes to moj_clean().
Exit(from) ==
    /\ pc' = "clean"
    /\ i' = 0
    /\ left' = from

-----------------------------------------------------------------------------
(* moj_init() *)

\* The two loops over sensors[] and their options stop at the first option
\* whose short name is opt.
Selected(opt) == CHOOSE o \in 1 .. Len(Opts) :
                    /\ Opts[o].short = opt
                    /\ \A p \in 1 .. (o - 1) : Opts[p].short # opt

\* The user names option o, by its long or short name; optparse_long gives
\* back its short name.  fn, where there is one, lists choices and exits.
NextOption(o) ==
    /\ pc = "options"
    /\ asked < MaxRequests
    /\ asked' = asked + 1
    /\ LET sel == Opts[Selected(Opts[o].short)]
       IN  IF sel.fn
           THEN /\ Exit(pc)
                /\ UNCHANGED <<src, nb, table, current, sample,
                               caught, open, lost, closed>>
           ELSE /\ src' = [id |-> asked + 1, sensor |-> sel.sensor]
                /\ pc' = "grow"
                /\ UNCHANGED <<nb, table, loop, hist>>

EndOptions ==
    /\ pc = "options"
    /\ pc' = "get"
    /\ i' = 0 /\ current' = 0
    /\ UNCHANGED <<asked, src, nb, table, sample, hist>>

-----------------------------------------------------------------------------
(* add_source(), statement by statement: a signal may come between two *)

\* Fault: nb_sources is decremented.
GrowStatesDown ==
    /\ pc = "grow"
    /\ nb_sources' = nb_sources - 1
    /\ states' = Append(states, NoSource)
    /\ pc' = "init"
    /\ UNCHANGED <<asked, src, nb, nb_sensors, getter, cleaner, labels, values,
                   loop, hist>>

GrowStates ==
    /\ pc = "grow"
    /\ nb_sources' = nb_sources + 1
    /\ states' = Append(states, NoSource)
    /\ pc' = "init"
    /\ UNCHANGED <<asked, src, nb, nb_sensors, getter, cleaner, labels, values,
                   loop, hist>>

\* init() opens the source and stores its state, or gives up with exit().  One
\* that returns 0 may hold all the same: the file of memory_counters asked for
\* no counter it knows, NVML, what it has malloced.
InitSource ==
    /\ pc = "init"
    /\ \/ /\ nb' \in Outcomes[src.sensor]
          /\ states' = [states EXCEPT ![nb_sources] = src]
          /\ \/ (nb' = 0 => src.sensor \in Keeps) /\ open' = open \cup {src.id}
             \/ nb' = 0 /\ UNCHANGED open
          /\ pc' = IF nb' = 0 THEN "drop" ELSE "getter"
          /\ UNCHANGED <<loop, caught, lost, closed, left>>
       \/ /\ src.sensor \in Fatal
          /\ Exit(pc)
          /\ UNCHANGED <<nb, states, current, sample, caught, open, lost, closed>>
    /\ UNCHANGED <<asked, src, nb_sources, nb_sensors, getter, cleaner,
                   labels, values>>

\* Fault: nb_sources-- is missing.
DropSourceKept ==
    /\ pc = "drop"
    /\ states' = SubSeq(states, 1, nb_sources - 1)
    /\ lost' = lost \cup (open \cap {src.id})
    /\ pc' = "options"
    /\ UNCHANGED <<asked, src, nb, nb_sources, nb_sensors, getter, cleaner,
                   labels, values, loop, caught, open, closed, left>>

\* A source without columns gives its slot back; nobody cleans it.
DropSource ==
    /\ pc = "drop"
    /\ nb_sources' = nb_sources - 1
    /\ states' = SubSeq(states, 1, nb_sources - 1)
    /\ lost' = lost \cup (open \cap {src.id})
    /\ pc' = "options"
    /\ UNCHANGED <<asked, src, nb, nb_sensors, getter, cleaner, labels, values,
                   loop, caught, open, closed, left>>

SetGetter ==
    /\ pc = "getter"
    /\ getter' = Append(getter, src)
    /\ pc' = "cleaner"
    /\ UNCHANGED <<asked, src, nb, nb_sources, nb_sensors, states, cleaner,
                   labels, values, loop, hist>>

SetCleaner ==
    /\ pc = "cleaner"
    /\ cleaner' = Append(cleaner, src)
    /\ pc' = "label"
    /\ UNCHANGED <<asked, src, nb, nb_sources, nb_sensors, states, getter,
                   labels, values, loop, hist>>

\* Fault: labeler is given labels instead of &labels[nb_sensors].
SetLabelsAtStart ==
    /\ pc = "label"
    /\ labels' = Columns(src, nb) \o SubSeq(labels, 1, nb_sensors)
    /\ pc' = "value"
    /\ UNCHANGED <<asked, src, nb, nb_sources, nb_sensors, states, getter,
                   cleaner, values, loop, hist>>

\* realloc to nb_sensors + nb slots, the last nb of which labeler fills.
SetLabels ==
    /\ pc = "label"
    /\ labels' = SubSeq(labels, 1, nb_sensors) \o Columns(src, nb)
    /\ pc' = "value"
    /\ UNCHANGED <<asked, src, nb, nb_sources, nb_sensors, states, getter,
                   cleaner, values, loop, hist>>

GrowValues ==
    /\ pc = "value"
    /\ values' = SubSeq(values, 1, nb_sensors) \o Unwritten(nb)
    /\ nb_sensors' = nb_sensors + nb
    /\ pc' = "options"
    /\ UNCHANGED <<asked, src, nb, nb_sources, states, getter, cleaner, labels,
                   loop, hist>>

-----------------------------------------------------------------------------
(* The sampling loop: moj_get_values(), then the manager reads values *)

\* Fault: current is not advanced.
GetSourceInPlace ==
    /\ pc = "get"
    /\ i < nb_sources
    /\ LET s == states[i + 1]
           w == Width(getter[i + 1])
       IN  values' = Reading(s, w) \o SubSeq(values, w + 1, Len(values))
    /\ i' = i + 1
    /\ UNCHANGED <<pc, asked, src, nb, nb_sources, nb_sensors, states, getter,
                   cleaner, labels, current, sample, hist>>

\* getter[i](&values[current], states[i]); a sensor that cannot be read exits.
GetSource ==
    /\ pc = "get"
    /\ i < nb_sources
    /\ LET s == states[i + 1]
           w == Width(getter[i + 1])
           r == Reading(s, w)
       IN  \/ /\ values' = [c \in 1 .. Len(values) |->
                               IF c \in current + 1 .. current + w
                               THEN r[c - current] ELSE values[c]]
              /\ current' = current + w
              /\ i' = i + 1
              /\ UNCHANGED <<pc, left>>
           \/ /\ s.sensor \in Fatal
              /\ Exit(pc)
              /\ UNCHANGED <<values, current>>
    /\ UNCHANGED <<asked, src, nb, nb_sources, nb_sensors, states, getter,
                   cleaner, labels, sample, caught, open, lost, closed>>

EndGet ==
    /\ pc = "get"
    /\ i >= nb_sources
    /\ pc' = "use"
    /\ UNCHANGED <<asked, src, nb, table, loop, hist>>

\* use_manager() and usleep(); then another sample, or main returns.
UseValues ==
    /\ pc = "use"
    /\ \/ /\ pc' = "get"
          /\ i' = 0 /\ current' = 0
          /\ sample' = 1 - sample
          /\ UNCHANGED left
       \/ /\ Exit(pc)
          /\ UNCHANGED <<current, sample>>
    /\ UNCHANGED <<asked, src, nb, table, caught, open, lost, closed>>

-----------------------------------------------------------------------------
(* moj_clean() and the signals *)

\* What the cleaner of source s closes: its own resource, or whatever its
\* static variables point to, which is the last one opened.
Resource(s) ==
    IF s.sensor \notin Static THEN s.id
    ELSE LET ids == {states[k].id : k \in {j \in 1 .. Len(states) :
                                            states[j].sensor = s.sensor}}
         IN  CHOOSE id \in ids : \A other \in ids : other <= id

\* cleaner[i](states[i]); a slot of cleaner that was never written is called
\* all the same, and the program dies of it.
CleanSource ==
    /\ pc = "clean"
    /\ i < nb_sources
    /\ IF i < Len(cleaner)
       THEN LET id == Resource(states[i + 1])
            IN  /\ closed' = Append(closed, id)
                /\ open' = open \ {id}
                /\ i' = i + 1
                /\ UNCHANGED pc
       ELSE /\ pc' = "crash"
            /\ UNCHANGED <<i, open, closed>>
    /\ UNCHANGED <<asked, src, nb, table, current, sample, caught, lost, left>>

EndClean ==
    /\ pc = "clean"
    /\ i >= nb_sources
    /\ pc' = "dead"
    /\ UNCHANGED <<asked, src, nb, table, loop, hist>>

Over == {"dead", "crash"}

\* flush(): exit(0).  A signal caught during moj_clean() ends the program
\* there, since no exit function is left to run.
Signal(s) ==
    /\ pc \notin Over
    /\ s \notin caught
    /\ caught' = caught \cup {s}
    /\ IF pc = "clean" THEN pc' = "dead" /\ UNCHANGED <<i, left>>
                       ELSE Exit(pc)
    /\ UNCHANGED <<asked, src, nb, table, current, sample, open, lost, closed>>

Terminated == pc \in Over /\ UNCHANGED vars

-----------------------------------------------------------------------------
AddSource == GrowStates \/ InitSource \/ DropSource \/ SetGetter
                 \/ SetCleaner \/ SetLabels \/ GrowValues

Main == \/ \E o \in 1 .. Len(Opts) : NextOption(o)
        \/ EndOptions \/ AddSource
        \/ GetSource \/ EndGet \/ UseValues
        \/ CleanSource \/ EndClean

Next == Main \/ (\E s \in Signals : Signal(s)) \/ Terminated

Spec == Init /\ [][Next]_vars

-----------------------------------------------------------------------------
(* Properties *)

Sources == [id : Nat, sensor : DOMAIN Outcomes \cup {"none"}]
Labels == [id : Nat, k : Nat]
Values == [id : Nat, k : Nat, at : {0, 1}]

InitFailed == {"init", "drop", "getter", "cleaner"}
PC == {"options", "grow", "label", "value", "get", "use", "clean"}
          \cup InitFailed \cup Over

ControlTypeOK ==
    /\ pc \in PC /\ left \in PC \cup {"none"}
    /\ asked \in Nat /\ src \in Sources /\ nb \in Nat
    /\ i \in Nat /\ current \in Nat /\ sample \in {0, 1}

TableTypeOK ==
    /\ nb_sources \in Nat /\ nb_sensors \in Nat
    /\ states \in Seq(Sources) /\ getter \in Seq(Sources)
    /\ cleaner \in Seq(Sources)
    /\ labels \in Seq(Labels) /\ values \in Seq(Values)

HistoryTypeOK ==
    /\ caught \subseteq Signals
    /\ open \subseteq Nat /\ lost \subseteq Nat /\ closed \in Seq(Nat)

TypeOK == ControlTypeOK /\ TableTypeOK /\ HistoryTypeOK

\* Between two options and during the sampling loop the parallel arrays agree:
\* slot k of each belongs to the same source, and there are as many labels as
\* values.  moj_get_values() indexes all of them with the same i.
Aligned ==
    pc \in {"options", "get", "use"} =>
        /\ Len(states) = nb_sources
        /\ getter = states /\ cleaner = states
        /\ Len(labels) = nb_sensors /\ Len(values) = nb_sensors

\* What the manager prints under a label is the value that very source read
\* for that very sample: no column is shifted, shared or left from before.
ColumnsMatch ==
    pc = "use" =>
        \A c \in 1 .. nb_sensors :
            values[c] = [id |-> labels[c].id, k |-> labels[c].k, at |-> sample]

\* moj_clean() runs off the array of cleaners only when exit() struck inside
\* add_source(), between the increment of nb_sources and the store of the
\* cleaner: by a sensor that gave up in its init, or by a signal.
CrashOnlyInInit == pc = "crash" => left \in InitFailed

StaticTwice ==
    \E k, l \in 1 .. Len(states) :
        k # l /\ states[k].sensor = states[l].sensor
              /\ states[k].sensor \in Static

\* moj_clean() closes nothing twice and, when it reaches its end, has closed
\* what every source of the table holds; what stays open is what add_source()
\* dropped, and all of it does.  This provided no sensor with static state was
\* asked for twice.
ClosedOnce ==
    ~StaticTwice =>
        /\ \A k, l \in 1 .. Len(closed) : closed[k] = closed[l] => k = l
        /\ pc = "dead" /\ i >= nb_sources => open = lost

\* A column keeps the label it was registered with, whatever is added later
\* or dropped: the header line, printed once, stays right.
StableColumns == [][\A c \in 1 .. nb_sensors : labels'[c] = labels[c]]_vars
=============================================================================
