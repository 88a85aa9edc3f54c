--------------------------- MODULE RegistryProofs ---------------------------
(***************************************************************************)
(* The safety properties of Registry, for every table of options, every    *)
(* command line and every moment at which exit() may strike.               *)
(***************************************************************************)
EXTENDS Registry, FiniteSetTheorems, SequenceTheorems, WellFoundedInduction,
        TLAPS

-----------------------------------------------------------------------------
(* Facts about sets of naturals, sequences and the table of options *)

LEMMA Least ==
    ASSUME NEW T, T \subseteq Nat, T # {}
    PROVE  \E x \in T : \A y \in T : x <= y
<1>1. PICK x \in T : \A y \in T : ~(<<y, x>> \in OpToRel(<, Nat))
  BY NatLessThanWellFounded, WFMin
<1>2. ASSUME NEW y \in T PROVE x <= y
  <2>1. ~(y < x)
    BY <1>1 DEF OpToRel
  <2> QED
    BY <2>1
<1> QED
  BY <1>2

LEMMA Greatest ==
    ASSUME NEW b \in Nat, NEW T, T \subseteq 0 .. b, T # {}
    PROVE  \E x \in T : \A y \in T : y <= x
<1> DEFINE D == {b - x : x \in T}
<1>1. D \subseteq Nat /\ D # {}
  OBVIOUS
<1>2. PICK m \in D : \A y \in D : m <= y
  BY <1>1, Least
<1>3. PICK x \in T : m = b - x
  OBVIOUS
<1>4. ASSUME NEW y \in T PROVE y <= x
  <2>1. b - x <= b - y
    BY <1>2, <1>3
  <2> QED
    BY <2>1
<1> QED
  BY <1>4

\* Whatever option is named, moj_init() finds one with its short name.
LEMMA SelectedType ==
    ASSUME NEW o \in 1 .. Len(Opts)
    PROVE  Selected(Opts[o].short) \in 1 .. Len(Opts)
<1> DEFINE T == {p \in 1 .. Len(Opts) : Opts[p].short = Opts[o].short}
<1>1. T \subseteq Nat /\ T # {}
  BY OptsAssumption
<1>2. PICK x \in T : \A y \in T : x <= y
  BY <1>1, Least
<1>3. \A p \in 1 .. (x - 1) : Opts[p].short # Opts[o].short
  BY <1>2, OptsAssumption
<1> QED
  BY <1>2, <1>3 DEF Selected

LEMMA SelectedSensor ==
    ASSUME NEW o \in 1 .. Len(Opts)
    PROVE  Opts[Selected(Opts[o].short)].sensor \in DOMAIN Outcomes
<1>1. Selected(Opts[o].short) \in 1 .. Len(Opts)
  BY SelectedType
<1> DEFINE R == [sensor : DOMAIN Outcomes, short : STRING, fn : BOOLEAN]
<1>2. \A r \in R : r.sensor \in DOMAIN Outcomes
  OBVIOUS
<1> HIDE DEF R
<1>3. Opts \in Seq(R)
  BY OptsAssumption DEF R
<1>4. \A q \in 1 .. Len(Opts) : Opts[q] \in R
  BY <1>3
<1> QED
  BY <1>1, <1>2, <1>4

LEMMA ExceptType ==
    ASSUME NEW S, NEW s \in Seq(S), NEW j, NEW x \in S
    PROVE  /\ [s EXCEPT ![j] = x] \in Seq(S)
           /\ Len([s EXCEPT ![j] = x]) = Len(s)
           /\ \A k \in 1 .. Len(s) :
                  [s EXCEPT ![j] = x][k] = IF k = j THEN x ELSE s[k]
<1> DEFINE t == [s EXCEPT ![j] = x]
<1>0. s \in [1 .. Len(s) -> S] /\ Len(s) \in Nat
  OBVIOUS
<1>1. \A k \in 1 .. Len(s) : t[k] = IF k = j THEN x ELSE s[k]
  BY <1>0
<1>2. t \in [1 .. Len(s) -> S]
  BY <1>0
<1> HIDE DEF t
<1>3. t \in Seq(S) /\ Len(t) = Len(s)
  BY <1>0, <1>2
<1> USE DEF t
<1> QED
  BY <1>1, <1>3

-----------------------------------------------------------------------------
(* The inductive invariant *)

Exited == pc \in {"clean"} \cup Over
Adding == {"grow", "label", "value"} \cup InitFailed

\* The statement at which the tables stand: exit() leaves them as they are.
at == IF Exited THEN left ELSE pc

\* Sources whose getter and cleaner are stored.
Getters  == IF at \in {"init", "drop", "getter"} THEN nb_sources - 1
                                                 ELSE nb_sources
Cleaners == IF at \in InitFailed THEN nb_sources - 1 ELSE nb_sources

\* The arrays grow in the order of the statements of add_source().
TableInv ==
    /\ at \in {"options", "get", "use"} \cup Adding
    /\ ~Exited => left = "none"
    /\ Len(states) = nb_sources
    /\ at \in InitFailed \cup {"label", "value"} => nb_sources > 0
    /\ at \in Adding => src.sensor \in DOMAIN Outcomes
    /\ at \in {"drop", "getter", "cleaner", "label", "value"} =>
           states[nb_sources] = src
    /\ Len(getter) = Getters /\ Len(cleaner) = Cleaners
    /\ \A k \in 1 .. Getters : getter[k] = states[k]
    /\ \A k \in 1 .. Cleaners : cleaner[k] = states[k]
    /\ Len(labels) = IF at = "value" THEN nb_sensors + nb ELSE nb_sensors
    /\ Len(values) = nb_sensors

\* Sources are numbered in the order of the slots.
IdInv ==
    /\ \A k \in 1 .. nb_sources : states[k].id <= asked
    /\ at \in Adding => src.id = asked
    /\ at \in {"grow"} \cup InitFailed =>
           \A k \in 1 .. Cleaners : states[k].id < asked
    /\ \A k, l \in 1 .. Cleaners : k < l => states[k].id < states[l].id

\* The slots of the sources whose resource may be open.
OpenSlots == IF at = "init" THEN nb_sources - 1 ELSE nb_sources

\* No source of the table holds what a dropped one does.
LostInv ==
    \A d \in lost :
        /\ d <= asked
        /\ at \in Adding => d < asked
        /\ \A k \in 1 .. Cleaners : states[k].id # d

\* moj_clean() has closed the first i sources; open are others and what was
\* dropped.
ClosedInv ==
    /\ ~Exited => /\ closed = <<>> /\ lost \subseteq open
                  /\ open \ lost \subseteq {states[k].id : k \in 1 .. OpenSlots}
    /\ Exited => Len(closed) = i /\ i <= Cleaners
    /\ Exited /\ ~StaticTwice =>
           /\ \A k \in 1 .. i : closed[k] = states[k].id
           /\ lost \subseteq open
           /\ open \ lost \subseteq {states[k].id : k \in i + 1 .. OpenSlots}
    /\ pc = "crash" => left \in InitFailed

\* The sources whose labels are written.
Labelled == IF at \in InitFailed \cup {"label"} THEN nb_sources - 1
                                                ELSE nb_sources

\* The labels are one block per source, in the order of the slots; off[j] is
\* where the block of slot j begins.
Blocks(off) ==
    /\ off[1] = 0 /\ off[Labelled + 1] = Len(labels)
    /\ \A j \in 1 .. Labelled :
           /\ off[j] <= off[j + 1] /\ off[j + 1] <= Len(labels)
           /\ \A c \in off[j] + 1 .. off[j + 1] :
                  labels[c] = [id |-> states[j].id, k |-> c - off[j]]
    /\ \A c \in 1 .. Len(labels) :
           \E j \in 1 .. Labelled : c \in off[j] + 1 .. off[j + 1]

\* moj_get_values() stands at the first column of source i.
BlockInv ==
    ~Exited => \E off \in [1 .. Labelled + 1 -> Nat] :
                   /\ Blocks(off)
                   /\ pc = "get" => i <= nb_sources /\ current = off[i + 1]

Fresh(c) == values[c] = [id |-> labels[c].id, k |-> labels[c].k, at |-> sample]

\* The columns behind it are those of the current sample.
ValueInv ==
    /\ pc = "get" => \A c \in 1 .. current : Fresh(c)
    /\ pc = "use" => \A c \in 1 .. nb_sensors : Fresh(c)

IInv == /\ TypeOK /\ TableInv /\ IdInv /\ LostInv /\ ClosedInv
        /\ BlockInv /\ ValueInv

LEMMA InitIInv == Init => IInv
<1> SUFFICES ASSUME Init PROVE IInv
  OBVIOUS
<1>0. ~Exited /\ at = "options"
  BY DEF Init, Exited, Over, at
<1>1. TypeOK
  BY DEF Init, TypeOK, ControlTypeOK, TableTypeOK, HistoryTypeOK, PC,
     InitFailed, Over, Sources, NoSource
<1>2. TableInv /\ IdInv
  BY <1>0 DEF Init, TableInv, IdInv, Getters, Cleaners, InitFailed, Adding
<1>3. LostInv /\ ClosedInv /\ ValueInv
  BY <1>0 DEF Init, LostInv, ClosedInv, ValueInv
<1>4. BlockInv
  <2> DEFINE off == [j \in 1 .. 1 |-> 0]
  <2>1. Labelled = 0 /\ Len(labels) = 0
    BY <1>0 DEF Init, Labelled, InitFailed
  <2>2. off \in [1 .. Labelled + 1 -> Nat] /\ Blocks(off)
    BY <2>1 DEF Blocks
  <2> QED
    BY <1>0, <2>2 DEF BlockInv, Init
<1> QED
  BY <1>1, <1>2, <1>3, <1>4 DEF IInv

LEMMA ColumnsType ==
    ASSUME NEW s \in Sources, NEW m \in Nat
    PROVE  /\ Columns(s, m) \in Seq(Labels) /\ Len(Columns(s, m)) = m
           /\ \A c \in 1 .. m : Columns(s, m)[c] = [id |-> s.id, k |-> c]
  BY DEF Columns, Sources, Labels

LEMMA UnwrittenType ==
    ASSUME NEW m \in Nat
    PROVE  /\ Unwritten(m) \in Seq(Values)
           /\ Len(Unwritten(m)) = m
  BY DEF Unwritten, Values

LEMMA WidthType ==
    ASSUME TypeOK, NEW s
    PROVE  Width(s) \in Nat
<1> DEFINE C == {c \in 1 .. Len(labels) : labels[c].id = s.id}
<1>1. IsFiniteSet(1 .. Len(labels)) /\ C \subseteq 1 .. Len(labels)
  BY FS_Interval DEF TypeOK, TableTypeOK
<1>2. Cardinality(C) \in Nat
  BY <1>1, FS_Subset, FS_CardinalityType
<1> QED
  BY <1>2 DEF Width

\* What the cleaner of a source closes, when no two sources share a static
\* state, is its own resource.
LEMMA ResourceType ==
    ASSUME IInv, NEW j \in 1 .. nb_sources
    PROVE  /\ Resource(states[j]) \in Nat
           /\ ~StaticTwice => Resource(states[j]) = states[j].id
<1> DEFINE s == states[j]
           ids == {states[k].id : k \in {m \in 1 .. Len(states) :
                                            states[m].sensor = s.sensor}}
<1>1. states \in Seq(Sources) /\ Len(states) = nb_sources /\ asked \in Nat
  BY DEF IInv, TypeOK, TableTypeOK, ControlTypeOK, TableInv
<1>2. s.id \in ids /\ \A id \in ids : id \in 0 .. asked
  <2>1. ASSUME NEW k \in 1 .. nb_sources PROVE states[k].id \in 0 .. asked
    <3>1. states[k] \in Sources /\ states[k].id <= asked
      BY <1>1 DEF IInv, IdInv
    <3>2. states[k].id \in Nat
      BY <3>1 DEF Sources
    <3> QED
      BY <1>1, <3>1, <3>2
  <2> QED
    BY <1>1, <2>1
<1>3. CASE s.sensor \notin Static
  BY <1>1, <1>2, <1>3 DEF Resource
<1>4. CASE s.sensor \in Static
  <2>1. Resource(s) = CHOOSE id \in ids : \A other \in ids : other <= id
    BY <1>4 DEF Resource
  <2>2. \E id \in ids : \A other \in ids : other <= id
    BY <1>1, <1>2, Greatest
  <2>3. Resource(s) \in ids
    BY <2>1, <2>2
  <2>4. ASSUME ~StaticTwice PROVE ids = {s.id}
    BY <1>1, <1>4, <2>4 DEF StaticTwice
  <2> HIDE DEF ids
  <2>5. Resource(s) \in Nat
    BY <1>1, <1>2, <2>3
  <2> QED
    BY <2>3, <2>4, <2>5
<1> QED
  BY <1>3, <1>4

LEMMA ControlStep == IInv /\ [Next]_vars => ControlTypeOK'
<1> SUFFICES ASSUME IInv, [Next]_vars PROVE ControlTypeOK'
  OBVIOUS
<1> USE DEF ControlTypeOK, loop, hist
<1>0. TypeOK
  BY DEF IInv
<1>e. ASSUME Exit(pc), UNCHANGED <<src, nb, current, sample>>, asked' \in Nat
      PROVE  ControlTypeOK'
  BY <1>0, <1>e DEF Exit, TypeOK, PC
<1>1. ASSUME NEW o \in 1 .. Len(Opts), NextOption(o)
      PROVE  ControlTypeOK'
  <2> DEFINE sel == Opts[Selected(Opts[o].short)]
             new == [id |-> asked + 1, sensor |-> sel.sensor]
  <2>1. new \in Sources
    BY <1>0, <1>1, SelectedSensor DEF Sources, TypeOK
  <2>2. asked' = asked + 1 /\ asked' \in Nat
    BY <1>0, <1>1 DEF NextOption, TypeOK
  <2>3. CASE sel.fn
    BY <1>e, <1>1, <2>2, <2>3 DEF NextOption
  <2>4. CASE ~sel.fn
    <3> HIDE DEF new
    <3>1. src' = new /\ pc' = "grow" /\ UNCHANGED <<nb, loop, hist>>
      BY <1>1, <2>4 DEF NextOption, new
    <3> QED
      BY <1>0, <2>1, <2>2, <3>1 DEF TypeOK, PC
  <2> QED
    BY <2>3, <2>4
<1>2. CASE \/ EndOptions \/ GrowStates \/ DropSource \/ SetGetter
           \/ SetCleaner \/ SetLabels \/ GrowValues \/ EndGet \/ EndClean
  BY <1>0, <1>2 DEF EndOptions, GrowStates, DropSource, SetGetter, SetCleaner,
     SetLabels, GrowValues, EndGet, EndClean, TypeOK, PC, InitFailed, Over
<1>3. CASE InitSource
  <2>1. CASE Exit(pc)
    BY <1>0, <1>3, <2>1, <1>e DEF InitSource, Exit, TypeOK
  <2>2. CASE nb' \in Outcomes[src.sensor] /\ pc' \in {"drop", "getter"}
    <3>1. src.sensor \in DOMAIN Outcomes
      BY <1>3 DEF InitSource, IInv, TableInv, at, Exited, Adding, InitFailed,
         Over
    <3>2. nb' \in Nat
      BY <2>2, <3>1, OutcomesAssumption
    <3> QED
      BY <1>0, <1>3, <2>2, <3>2 DEF InitSource, Exit, TypeOK, PC, InitFailed
  <2> QED
    BY <1>3, <2>1, <2>2 DEF InitSource
<1>4. CASE GetSource
  <2>1. CASE Exit(pc) /\ current' = current
    BY <1>0, <1>4, <2>1, <1>e DEF GetSource, TypeOK
  <2>2. CASE /\ current' = current + Width(getter[i + 1]) /\ i' = i + 1
             /\ UNCHANGED <<pc, left>>
    BY <1>0, <1>4, <2>2, WidthType DEF GetSource, TypeOK
  <2> QED
    BY <1>4, <2>1, <2>2 DEF GetSource
<1>5. CASE UseValues
  BY <1>0, <1>5, <1>e DEF UseValues, TypeOK, PC
<1>6. CASE CleanSource
  BY <1>0, <1>6 DEF CleanSource, TypeOK, PC, Over
<1>7. ASSUME NEW s \in Signals, Signal(s)
      PROVE  ControlTypeOK'
  BY <1>0, <1>7, <1>e DEF Signal, TypeOK, PC, Over
<1>8. CASE UNCHANGED vars
  BY <1>0, <1>8 DEF vars, TypeOK
<1> QED
  BY <1>1, <1>2, <1>3, <1>4, <1>5, <1>6, <1>7, <1>8
  DEF Next, Main, AddSource, Terminated

LEMMA TableTypeStep == IInv /\ [Next]_vars => TableTypeOK'
<1> SUFFICES ASSUME IInv, [Next]_vars PROVE TableTypeOK'
  OBVIOUS
<1> USE DEF TableTypeOK, table
<1>0. TypeOK
  BY DEF IInv
<1>1. CASE \/ UNCHANGED table
           \/ \E o \in 1 .. Len(Opts) : NextOption(o)
           \/ EndOptions \/ EndGet \/ UseValues \/ CleanSource \/ EndClean
           \/ \E s \in Signals : Signal(s)
  BY <1>0, <1>1 DEF NextOption, EndOptions, EndGet, UseValues, CleanSource,
     EndClean, Signal, TypeOK
<1>2. CASE GrowStates
  <2>1. NoSource \in Sources
    BY DEF NoSource, Sources
  <2> QED
    BY <1>0, <1>2, <2>1 DEF GrowStates, TypeOK
<1>3. CASE InitSource
  <2>1. src \in Sources
    BY <1>0 DEF TypeOK, ControlTypeOK
  <2>2. states' = states \/ states' = [states EXCEPT ![nb_sources] = src]
    BY <1>3 DEF InitSource
  <2>3. [states EXCEPT ![nb_sources] = src] \in Seq(Sources)
    BY <1>0, <2>1, ExceptType DEF TypeOK
  <2> QED
    BY <1>0, <1>3, <2>2, <2>3 DEF InitSource, TypeOK
<1>4. CASE DropSource
  <2>1. nb_sources > 0 /\ Len(states) = nb_sources
    BY <1>4 DEF DropSource, IInv, TableInv, at, Exited, InitFailed, Over
  <2> QED
    BY <1>0, <1>4, <2>1 DEF DropSource, TypeOK
<1>5. CASE SetGetter \/ SetCleaner
  <2>1. src \in Sources
    BY <1>0 DEF TypeOK, ControlTypeOK
  <2>2. /\ Append(getter, src) \in Seq(Sources)
        /\ Append(cleaner, src) \in Seq(Sources)
    BY <1>0, <2>1 DEF TypeOK
  <2> QED
    BY <1>0, <1>5, <2>2 DEF SetGetter, SetCleaner, TypeOK
<1>6. CASE SetLabels
  <2>1. Columns(src, nb) \in Seq(Labels)
    BY <1>0, ColumnsType DEF TypeOK, ControlTypeOK
  <2>2. Len(labels) = nb_sensors
    BY <1>6 DEF SetLabels, IInv, TableInv, at, Exited, Over
  <2> QED
    BY <1>0, <1>6, <2>1, <2>2 DEF SetLabels, TypeOK
<1>7. CASE GrowValues
  <2>1. Unwritten(nb) \in Seq(Values)
    BY <1>0, UnwrittenType DEF TypeOK, ControlTypeOK
  <2>2. Len(values) = nb_sensors
    BY <1>7 DEF GrowValues, IInv, TableInv, at, Exited, Over
  <2> QED
    BY <1>0, <1>7, <2>1, <2>2 DEF GrowValues, TypeOK, ControlTypeOK
<1>8. CASE GetSource
  <2> DEFINE s == states[i + 1]
             w == Width(getter[i + 1])
             new == [c \in 1 .. Len(values) |->
                        IF c \in current + 1 .. current + w
                        THEN Reading(s, w)[c - current] ELSE values[c]]
  <2>1. w \in Nat
    BY <1>0, WidthType
  <2>2. s \in Sources
    BY <1>0, <1>8 DEF GetSource, TypeOK, ControlTypeOK, IInv, TableInv
  <2>3. ASSUME NEW c \in 1 .. w PROVE Reading(s, w)[c] \in Values
    BY <1>0, <2>2 DEF Reading, Sources, Values, TypeOK, ControlTypeOK
  <2> HIDE DEF s, w
  <2>4. ASSUME NEW c \in 1 .. Len(values) PROVE new[c] \in Values
    BY <1>0, <2>1, <2>3 DEF TypeOK, ControlTypeOK
  <2>5. new \in Seq(Values)
    BY <1>0, <2>4 DEF TypeOK
  <2>6. values' = new \/ values' = values
    BY <1>8 DEF GetSource, s, w
  <2> HIDE DEF new
  <2> QED
    BY <1>0, <1>8, <2>5, <2>6 DEF GetSource, TypeOK
<1> QED
  BY <1>1, <1>2, <1>3, <1>4, <1>5, <1>6, <1>7, <1>8
  DEF Next, Main, AddSource, Terminated, vars

LEMMA HistoryTypeStep == IInv /\ [Next]_vars => HistoryTypeOK'
<1> SUFFICES ASSUME IInv, [Next]_vars PROVE HistoryTypeOK'
  OBVIOUS
<1> USE DEF HistoryTypeOK, hist
<1>0. TypeOK
  BY DEF IInv
<1>1. CASE \/ UNCHANGED hist \/ EndOptions \/ GrowStates \/ DropSource
           \/ SetGetter \/ SetCleaner \/ SetLabels \/ GrowValues \/ EndGet
           \/ GetSource \/ UseValues \/ EndClean
           \/ \E o \in 1 .. Len(Opts) : NextOption(o)
           \/ \E s \in Signals : Signal(s)
  BY <1>0, <1>1 DEF EndOptions, GrowStates, DropSource, SetGetter, SetCleaner,
     SetLabels, GrowValues, EndGet, GetSource, UseValues, EndClean,
     NextOption, Signal, TypeOK
<1>2. CASE InitSource
  <2>1. src.id \in Nat
    BY <1>0 DEF TypeOK, ControlTypeOK, Sources
  <2> QED
    BY <1>0, <1>2, <2>1 DEF InitSource, TypeOK
<1>3. CASE CleanSource
  <2>1. i + 1 \in 1 .. nb_sources
    BY <1>0, <1>3 DEF CleanSource, TypeOK, ControlTypeOK, TableTypeOK
  <2>2. Resource(states[i + 1]) \in Nat
    BY <2>1, ResourceType
  <2> DEFINE id == Resource(states[i + 1])
  <2>3. \/ closed' = Append(closed, id) /\ open' = open \ {id}
        \/ UNCHANGED <<open, closed>>
    BY <1>3 DEF CleanSource
  <2> HIDE DEF id
  <2>4. id \in Nat => Append(closed, id) \in Seq(Nat)
    BY <1>0 DEF TypeOK
  <2> QED
    BY <1>0, <1>3, <2>2, <2>3, <2>4 DEF CleanSource, TypeOK, id
<1> QED
  BY <1>1, <1>2, <1>3 DEF Next, Main, AddSource, Terminated, vars

-----------------------------------------------------------------------------
(* exit() keeps the tables *)

\* exit() called, moj_clean() going on, and the steps after it.
Leaving ==
    \/ Exited /\ Exited' /\ UNCHANGED <<asked, left>>
    \/ /\ ~Exited /\ Exit(pc) /\ UNCHANGED <<open, lost, closed>>
       /\ asked' = asked \/ (asked' = asked + 1 /\ pc = "options")

\* A step of moj_init() or of the sampling loop, exit() apart.
Going ==
    /\ ~Exited /\ ~Exited' /\ UNCHANGED left
    /\ \/ AddSource \/ GetSource \/ EndOptions \/ EndGet \/ UseValues
       \/ \E o \in 1 .. Len(Opts) : NextOption(o) /\ pc' = "grow"

LEMMA LeavingAt ==
    ASSUME Leaving
    PROVE  Exited' /\ at' = at
  BY DEF Leaving, Exited, Over, Exit, at

LEMMA Leaves ==
    ASSUME IInv, [Next]_vars
    PROVE  \/ Leaving /\ UNCHANGED <<src, nb, table>>
           \/ ~Exited /\ UNCHANGED vars
           \/ Going
<1> USE DEF Exited, Over, table, hist, Going
<1>1. ASSUME NEW o \in 1 .. Len(Opts), NextOption(o)
      PROVE  \/ Leaving /\ UNCHANGED <<src, nb, table>>
             \/ ~Exited /\ ~Exited' /\ UNCHANGED left /\ pc' = "grow"
  BY <1>1 DEF NextOption, Leaving
<1>2. CASE InitSource
  <2>1. CASE Exit(pc) /\ UNCHANGED <<nb, states, open, lost, closed>>
    <3>1. ~Exited
      BY <1>2 DEF InitSource
    <3>2. UNCHANGED <<asked, src, nb, table>>
      BY <1>2, <2>1 DEF InitSource
    <3> QED
      BY <2>1, <3>1, <3>2 DEF Leaving
  <2>2. CASE pc' \in {"drop", "getter"} /\ UNCHANGED left
    BY <1>2, <2>2 DEF InitSource, AddSource
  <2> QED
    BY <1>2, <2>1, <2>2 DEF InitSource
<1>3. CASE GetSource
  <2>1. CASE Exit(pc) /\ UNCHANGED values
    <3>1. ~Exited
      BY <1>3 DEF GetSource
    <3>2. UNCHANGED <<asked, src, nb, table, open, lost, closed>>
      BY <1>3, <2>1 DEF GetSource
    <3> QED
      BY <2>1, <3>1, <3>2 DEF Leaving
  <2>2. CASE UNCHANGED <<pc, left>>
    BY <1>3, <2>2 DEF GetSource
  <2> QED
    BY <1>3, <2>1, <2>2 DEF GetSource
<1>4. CASE UseValues
  <2>1. CASE Exit(pc)
    <3>1. ~Exited
      BY <1>4 DEF UseValues
    <3>2. UNCHANGED <<asked, src, nb, table, open, lost, closed>>
      BY <1>4 DEF UseValues
    <3> QED
      BY <2>1, <3>1, <3>2 DEF Leaving
  <2>2. CASE pc' = "get" /\ UNCHANGED left
    BY <1>4, <2>2 DEF UseValues
  <2> QED
    BY <1>4, <2>1, <2>2 DEF UseValues
<1>5. CASE CleanSource \/ EndClean
  BY <1>5 DEF CleanSource, EndClean, Leaving
<1>6. ASSUME NEW s \in Signals, Signal(s)
      PROVE  Leaving /\ UNCHANGED <<src, nb, table>>
  <2>1. CASE pc = "clean"
    BY <1>6, <2>1 DEF Signal, Leaving
  <2>2. CASE pc # "clean"
    <3>1. ~Exited
      BY <1>6, <2>2 DEF Signal
    <3>2. Exit(pc) /\ UNCHANGED <<asked, src, nb, table, open, lost, closed>>
      BY <1>6, <2>2 DEF Signal
    <3> QED
      BY <3>1, <3>2 DEF Leaving
  <2> QED
    BY <2>1, <2>2
<1>7. CASE AddSource /\ ~InitSource
  BY <1>7 DEF AddSource, GrowStates, DropSource, SetGetter, SetCleaner,
     SetLabels, GrowValues
<1>8. CASE EndOptions \/ EndGet
  BY <1>8 DEF EndOptions, EndGet
<1>9. CASE UNCHANGED vars
  BY <1>9 DEF vars, Leaving
<1> QED
  BY <1>1, <1>2, <1>3, <1>4, <1>5, <1>6, <1>7, <1>8, <1>9
  DEF Next, Main, AddSource, Terminated

LEMMA Running == Going => at = pc /\ at' = pc'
  BY DEF Going, at

\* labeler writes the columns of the new source behind the others.
LEMMA LabelsEffect ==
    ASSUME IInv, SetLabels
    PROVE  /\ Len(labels) = nb_sensors /\ Len(labels') = nb_sensors + nb
           /\ \A c \in 1 .. nb_sensors : labels'[c] = labels[c]
           /\ \A c \in nb_sensors + 1 .. nb_sensors + nb :
                  labels'[c] = [id |-> src.id, k |-> c - nb_sensors]
<1> DEFINE old == SubSeq(labels, 1, nb_sensors)
           new == Columns(src, nb)
<1>0. /\ nb_sensors \in Nat /\ nb \in Nat /\ src \in Sources
      /\ labels \in Seq(Labels)
  BY DEF IInv, TypeOK, ControlTypeOK, TableTypeOK
<1>1. Len(labels) = nb_sensors
  BY DEF SetLabels, IInv, TableInv, at, Exited, Over
<1>2. /\ new \in Seq(Labels) /\ Len(new) = nb
      /\ \A c \in 1 .. nb : new[c] = [id |-> src.id, k |-> c]
  BY <1>0, ColumnsType
<1>3. /\ old \in Seq(Labels) /\ Len(old) = nb_sensors
      /\ \A c \in 1 .. nb_sensors : old[c] = labels[c]
  BY <1>0, <1>1
<1>4. labels' = old \o new
  BY DEF SetLabels
<1> HIDE DEF old, new
<1>5. /\ Len(old \o new) = nb_sensors + nb
      /\ \A c \in 1 .. nb_sensors + nb :
             (old \o new)[c] = IF c <= nb_sensors THEN old[c]
                               ELSE new[c - nb_sensors]
  <2>1. old \in Seq(Labels) /\ new \in Seq(Labels)
    BY <1>2, <1>3
  <2>2. /\ Len(old \o new) = Len(old) + Len(new)
        /\ \A c \in 1 .. Len(old) + Len(new) :
               (old \o new)[c] = IF c <= Len(old) THEN old[c]
                                 ELSE new[c - Len(old)]
    BY <2>1, ConcatProperties
  <2> QED
    BY <1>2, <1>3, <2>2
<1>6. ASSUME NEW c \in 1 .. nb_sensors
      PROVE  labels'[c] = labels[c]
  BY <1>0, <1>3, <1>4, <1>5
<1>7. ASSUME NEW c \in nb_sensors + 1 .. nb_sensors + nb
      PROVE  labels'[c] = [id |-> src.id, k |-> c - nb_sensors]
  <2>1. /\ c \in 1 .. nb_sensors + nb /\ ~(c <= nb_sensors)
        /\ c - nb_sensors \in 1 .. nb
    BY <1>0
  <2>2. labels'[c] = new[c - nb_sensors]
    BY <1>4, <1>5, <2>1
  <2> QED
    BY <1>2, <2>1, <2>2
<1> QED
  BY <1>1, <1>4, <1>5, <1>6, <1>7

LEMMA TableStep == IInv /\ [Next]_vars => TableInv'
<1> SUFFICES ASSUME IInv, [Next]_vars PROVE TableInv'
  OBVIOUS
<1> USE DEF table, Getters, Cleaners, Adding, InitFailed
<1>0. /\ nb_sources \in Nat /\ nb_sensors \in Nat /\ nb \in Nat
      /\ states \in Seq(Sources) /\ getter \in Seq(Sources)
      /\ cleaner \in Seq(Sources) /\ labels \in Seq(Labels)
      /\ values \in Seq(Values) /\ src \in Sources
  BY DEF IInv, TypeOK, ControlTypeOK, TableTypeOK
<1>t. TableInv
  BY DEF IInv
<1>1. CASE Leaving /\ UNCHANGED <<src, nb, table>>
  <2>1. Exited' /\ at' = at
    BY <1>1, LeavingAt
  <2> QED
    BY <1>1, <1>t, <2>1 DEF TableInv
<1>2. CASE ~Exited /\ UNCHANGED vars
  BY <1>t, <1>2 DEF TableInv, vars, at, Exited, hist
<1>3. CASE Going
  <2>0. at = pc /\ at' = pc' /\ ~Exited /\ ~Exited' /\ left' = left
    BY <1>3, Running DEF Going
  <2>1. ASSUME NEW o \in 1 .. Len(Opts), NextOption(o), pc' = "grow"
        PROVE  TableInv'
    <3> DEFINE sensor == Opts[Selected(Opts[o].short)].sensor
    <3>1. /\ src' = [id |-> asked + 1, sensor |-> sensor]
          /\ UNCHANGED <<nb, table>>
      BY <2>1 DEF NextOption, Exit
    <3>2. sensor \in DOMAIN Outcomes
      BY SelectedSensor
    <3> HIDE DEF sensor
    <3>3. src'.sensor \in DOMAIN Outcomes /\ pc = "options"
      BY <2>1, <3>1, <3>2 DEF NextOption
    <3> QED
      BY <1>0, <1>t, <2>0, <2>1, <3>1, <3>3 DEF TableInv
  <2>2. CASE EndOptions \/ EndGet \/ (UseValues /\ pc' = "get")
    BY <1>0, <1>t, <2>0, <2>2 DEF TableInv, EndOptions, EndGet, UseValues
  <2>3. CASE GrowStates
    <3>1. pc = "grow" /\ pc' = "init" /\ Len(states') = nb_sources'
          /\ nb_sources' = nb_sources + 1
          /\ \A k \in 1 .. nb_sources : states'[k] = states[k]
      BY <1>0, <1>t, <2>3 DEF GrowStates, TableInv
    <3> QED
      BY <1>0, <1>t, <2>0, <2>3, <3>1 DEF TableInv, GrowStates
  <2>4. CASE InitSource
    <3>1. pc = "init" /\ pc' \in {"drop", "getter"}
          /\ states' = [states EXCEPT ![nb_sources] = src]
          /\ UNCHANGED <<src, nb_sources, nb_sensors, getter, cleaner, labels,
                         values>>
      BY <2>0, <2>4 DEF InitSource, Exit, Exited
    <3>2. /\ Len(states') = nb_sources /\ states'[nb_sources] = src
          /\ \A k \in 1 .. nb_sources - 1 : states'[k] = states[k]
      BY <1>0, <1>t, <2>0, <3>1, ExceptType DEF TableInv
    <3> QED
      BY <1>0, <1>t, <2>0, <3>1, <3>2 DEF TableInv
  <2>5. CASE DropSource
    <3>1. nb_sources > 0 /\ Len(states) = nb_sources
      BY <1>t, <2>0, <2>5 DEF DropSource, TableInv
    <3>2. /\ Len(states') = nb_sources'
          /\ \A k \in 1 .. nb_sources' : states'[k] = states[k]
      BY <1>0, <2>5, <3>1 DEF DropSource
    <3> QED
      BY <1>0, <1>t, <2>0, <2>5, <3>1, <3>2 DEF TableInv, DropSource
  <2>6. CASE SetGetter
    <3>1. /\ pc = "getter" /\ pc' = "cleaner" /\ getter' = Append(getter, src)
          /\ UNCHANGED <<src, nb, nb_sources, nb_sensors, states, cleaner, labels,
                         values>>
      BY <2>6 DEF SetGetter
    <3> QED
      BY <1>0, <1>t, <2>0, <3>1 DEF TableInv
  <2>7. CASE SetCleaner
    BY <1>0, <1>t, <2>0, <2>7 DEF TableInv, SetCleaner
  <2>8. CASE SetLabels
    <3>1. Len(labels') = nb_sensors + nb
      BY <2>8, LabelsEffect
    <3> QED
      BY <1>0, <1>t, <2>0, <2>8, <3>1 DEF TableInv, SetLabels
  <2>9. CASE GrowValues
    <3>1. Len(Unwritten(nb)) = nb /\ Unwritten(nb) \in Seq(Values)
      BY <1>0, UnwrittenType
    <3>2. Len(values) = nb_sensors
      BY <1>t, <2>0, <2>9 DEF GrowValues, TableInv
    <3> DEFINE old == SubSeq(values, 1, nb_sensors)
    <3>3. old \in Seq(Values) /\ Len(old) = nb_sensors
      BY <1>0, <3>2
    <3>4. values' = old \o Unwritten(nb)
      BY <2>9 DEF GrowValues
    <3> HIDE DEF old
    <3>5. Len(values') = nb_sensors + nb
      BY <1>0, <3>1, <3>3, <3>4, ConcatProperties
    <3> QED
      BY <1>0, <1>t, <2>0, <2>9, <3>5 DEF TableInv, GrowValues
  <2>10. CASE GetSource
    <3>1. Len(values') = Len(values) /\ UNCHANGED pc
      BY <1>0, <2>0, <2>10 DEF GetSource, Exit, Exited
    <3> QED
      BY <1>0, <1>t, <2>0, <2>10, <3>1 DEF TableInv, GetSource
  <2>11. CASE UseValues /\ pc' # "get"
    BY <2>0, <2>11 DEF UseValues, Exit, Exited
  <2> QED
    BY <1>3, <2>1, <2>2, <2>3, <2>4, <2>5, <2>6, <2>7, <2>8, <2>9, <2>10, <2>11
    DEF Going, AddSource
<1> QED
  BY <1>1, <1>2, <1>3, Leaves DEF Going

LEMMA IdsType ==
    ASSUME IInv
    PROVE  /\ states \in Seq(Sources) /\ Len(states) = nb_sources
           /\ \A k \in 1 .. nb_sources : states[k].id \in Nat
<1>1. states \in Seq(Sources) /\ Len(states) = nb_sources
  BY DEF IInv, TypeOK, TableTypeOK, TableInv
<1>2. \A s \in Sources : s.id \in Nat
  BY DEF Sources
<1> QED
  BY <1>1, <1>2

LEMMA IdStep == IInv /\ [Next]_vars => IdInv'
<1> SUFFICES ASSUME IInv, [Next]_vars PROVE IdInv'
  OBVIOUS
<1> USE DEF table, Cleaners, Adding, InitFailed
<1>0. /\ nb_sources \in Nat /\ asked \in Nat /\ src \in Sources
      /\ states \in Seq(Sources) /\ Len(states) = nb_sources
      /\ \A k \in 1 .. nb_sources : states[k].id \in Nat
  BY IdsType DEF IInv, TypeOK, ControlTypeOK, TableTypeOK
<1>t. TableInv /\ IdInv
  BY DEF IInv
<1>1. CASE Leaving /\ UNCHANGED <<src, nb, table>>
  <2>1. Exited' /\ at' = at
    BY <1>1, LeavingAt
  <2>2. asked' = asked \/ (asked' = asked + 1 /\ at = "options")
    BY <1>1 DEF Leaving, at
  <2> QED
    BY <1>0, <1>1, <1>t, <2>1, <2>2 DEF IdInv
<1>2. CASE ~Exited /\ UNCHANGED vars
  BY <1>t, <1>2 DEF IdInv, vars, at, Exited, hist
<1>3. CASE Going
  <2>0. at = pc /\ at' = pc' /\ ~Exited /\ ~Exited' /\ left' = left
    BY <1>3, Running DEF Going
  <2>1. ASSUME NEW o \in 1 .. Len(Opts), NextOption(o), pc' = "grow"
        PROVE  IdInv'
    <3>1. /\ src'.id = asked + 1 /\ asked' = asked + 1 /\ pc = "options"
          /\ UNCHANGED <<nb, table>>
      BY <2>1 DEF NextOption, Exit
    <3> QED
      BY <1>0, <1>t, <2>0, <2>1, <3>1 DEF IdInv
  <2>2. CASE EndOptions \/ EndGet \/ (UseValues /\ pc' = "get")
    BY <1>0, <1>t, <2>0, <2>2 DEF IdInv, EndOptions, EndGet, UseValues
  <2>3. CASE GrowStates
    <3>1. /\ pc = "grow" /\ pc' = "init" /\ nb_sources' = nb_sources + 1
          /\ \A k \in 1 .. nb_sources : states'[k] = states[k]
          /\ states'[nb_sources'] = NoSource /\ UNCHANGED <<asked, src>>
      BY <1>0, <2>3 DEF GrowStates
    <3>2. NoSource.id = 0
      BY DEF NoSource
    <3> QED
      BY <1>0, <1>t, <2>0, <3>1, <3>2 DEF IdInv
  <2>4. CASE InitSource
    <3>1. /\ pc = "init" /\ pc' \in {"drop", "getter"}
          /\ states' = [states EXCEPT ![nb_sources] = src]
          /\ UNCHANGED <<asked, src, nb_sources>>
      BY <2>0, <2>4 DEF InitSource, Exit, Exited
    <3>2. \A k \in 1 .. nb_sources :
              states'[k] = IF k = nb_sources THEN src ELSE states[k]
      BY <1>0, <1>t, <2>0, <3>1, ExceptType
    <3> QED
      BY <1>0, <1>t, <2>0, <3>1, <3>2 DEF IdInv
  <2>5. CASE DropSource
    <3>1. nb_sources > 0 /\ Len(states) = nb_sources
      BY <1>t, <2>0, <2>5 DEF DropSource, TableInv
    <3>2. /\ pc = "drop" /\ pc' = "options" /\ nb_sources' = nb_sources - 1
          /\ \A k \in 1 .. nb_sources' : states'[k] = states[k]
          /\ UNCHANGED <<asked, src>>
      BY <1>0, <2>5, <3>1 DEF DropSource
    <3> QED
      BY <1>0, <1>t, <2>0, <3>1, <3>2 DEF IdInv
  <2>6. CASE SetGetter \/ SetLabels \/ GrowValues
    BY <1>0, <1>t, <2>0, <2>6 DEF IdInv, SetGetter, SetLabels, GrowValues
  <2>7. CASE SetCleaner
    <3>1. states[nb_sources] = src /\ src.id = asked
      BY <1>t, <2>0, <2>7 DEF TableInv, IdInv, SetCleaner
    <3> QED
      BY <1>0, <1>t, <2>0, <2>7, <3>1 DEF IdInv, SetCleaner
  <2>8. CASE GetSource
    <3>1. UNCHANGED <<pc, nb_sources, states, asked, src>>
      BY <2>0, <2>8 DEF GetSource, Exit, Exited
    <3> QED
      BY <1>t, <2>0, <3>1 DEF IdInv
  <2>9. CASE UseValues /\ pc' # "get"
    BY <2>0, <2>9 DEF UseValues, Exit, Exited
  <2> QED
    BY <1>3, <2>1, <2>2, <2>3, <2>4, <2>5, <2>6, <2>7, <2>8, <2>9
    DEF Going, AddSource
<1> QED
  BY <1>1, <1>2, <1>3, Leaves

\* Once exit() is called only moj_clean() and signals go on.
LEMMA ExitedSteps ==
    ASSUME Exited, [Next]_vars
    PROVE  \/ CleanSource \/ EndClean \/ \E s \in Signals : Signal(s)
           \/ UNCHANGED vars
  BY DEF Exited, Over, Next, Main, NextOption, EndOptions, AddSource,
     GrowStates, InitSource, DropSource, SetGetter, SetCleaner, SetLabels,
     GrowValues, GetSource, EndGet, UseValues, Terminated

\* What is dropped was asked for before any source that comes later.
LEMMA LostStep == IInv /\ [Next]_vars => LostInv'
<1> SUFFICES ASSUME IInv, [Next]_vars PROVE LostInv'
  OBVIOUS
<1> USE DEF table, Cleaners, Adding, InitFailed
<1>0. /\ nb_sources \in Nat /\ asked \in Nat /\ src \in Sources
      /\ lost \subseteq Nat
      /\ states \in Seq(Sources) /\ Len(states) = nb_sources
      /\ \A k \in 1 .. nb_sources : states[k].id \in Nat
  BY IdsType DEF IInv, TypeOK, ControlTypeOK, TableTypeOK, HistoryTypeOK
<1>t. TableInv /\ IdInv /\ LostInv
  BY DEF IInv
<1>1. CASE Leaving /\ UNCHANGED <<src, nb, table>>
  <2>1. Exited' /\ at' = at
    BY <1>1, LeavingAt
  <2>2. asked' = asked \/ (asked' = asked + 1 /\ at = "options")
    BY <1>1 DEF Leaving, at
  <2>3. lost' = lost
    BY <1>1, ExitedSteps DEF Leaving, CleanSource, EndClean, Signal, hist, vars
  <2>4. UNCHANGED <<at, Cleaners, states, lost>>
    BY <1>1, <2>1, <2>3
  <2>5. \A d \in lost : d \in Nat /\ d <= asked' /\ (at \in Adding => d < asked')
    BY <1>0, <1>t, <2>2 DEF LostInv
  <2> HIDE DEF Cleaners
  <2> QED
    BY <1>t, <2>4, <2>5 DEF LostInv
<1>2. CASE ~Exited /\ UNCHANGED vars
  BY <1>t, <1>2 DEF LostInv, vars, at, Exited, hist
<1>3. CASE Going
  <2>0. at = pc /\ at' = pc' /\ ~Exited /\ ~Exited' /\ left' = left
    BY <1>3, Running DEF Going
  <2>1. ASSUME NEW o \in 1 .. Len(Opts), NextOption(o), pc' = "grow"
        PROVE  LostInv'
    <3>1. /\ asked' = asked + 1 /\ pc = "options"
          /\ UNCHANGED <<nb, table, lost>>
      BY <2>1 DEF NextOption, Exit, hist
    <3> QED
      BY <1>0, <1>t, <2>0, <2>1, <3>1 DEF LostInv
  <2>2. CASE EndOptions \/ EndGet \/ (UseValues /\ pc' = "get") \/ GetSource
    <3>1. /\ pc \notin Adding /\ pc' \notin Adding
          /\ UNCHANGED <<asked, nb_sources, states, lost>>
      BY <2>0, <2>2 DEF EndOptions, EndGet, UseValues, GetSource, Exit, Exited,
         hist
    <3> QED
      BY <1>0, <1>t, <2>0, <3>1 DEF LostInv
  <2>3. CASE GrowStates
    <3>1. /\ pc = "grow" /\ pc' = "init" /\ nb_sources' = nb_sources + 1
          /\ \A k \in 1 .. nb_sources : states'[k] = states[k]
          /\ UNCHANGED <<asked, lost>>
      BY <1>0, <2>3 DEF GrowStates, hist
    <3> QED
      BY <1>0, <1>t, <2>0, <3>1 DEF LostInv
  <2>4. CASE InitSource
    <3>1. /\ pc = "init" /\ pc' \in {"drop", "getter"}
          /\ states' = [states EXCEPT ![nb_sources] = src]
          /\ UNCHANGED <<asked, nb_sources, lost>>
      BY <2>0, <2>4 DEF InitSource, Exit, Exited
    <3>2. \A k \in 1 .. nb_sources - 1 : states'[k] = states[k]
      BY <1>0, <3>1, ExceptType
    <3> QED
      BY <1>0, <1>t, <2>0, <3>1, <3>2 DEF LostInv
  <2>5. CASE DropSource
    <3>1. nb_sources > 0 /\ src.id = asked
      BY <1>t, <2>0, <2>5 DEF DropSource, TableInv, IdInv
    <3>2. /\ pc = "drop" /\ pc' = "options" /\ nb_sources' = nb_sources - 1
          /\ \A k \in 1 .. nb_sources' : states'[k] = states[k]
          /\ asked' = asked /\ lost' \subseteq lost \cup {asked}
      BY <1>0, <2>5, <3>1 DEF DropSource
    <3>3. \A k \in 1 .. nb_sources' : states[k].id < asked
      BY <1>t, <2>0, <3>2 DEF IdInv
    <3>4. ASSUME NEW d \in lost'
          PROVE  d <= asked /\ \A k \in 1 .. nb_sources' : states'[k].id # d
      <4>1. CASE d = asked
        BY <1>0, <3>2, <3>3, <4>1
      <4>2. CASE d \in lost
        BY <1>0, <1>t, <2>0, <3>2, <4>2 DEF LostInv
      <4> QED
        BY <3>2, <4>1, <4>2
    <3> QED
      BY <2>0, <3>2, <3>4 DEF LostInv
  <2>6. CASE SetGetter \/ SetLabels \/ GrowValues
    BY <1>0, <1>t, <2>0, <2>6 DEF LostInv, SetGetter, SetLabels, GrowValues, hist
  <2>7. CASE SetCleaner
    <3>1. states[nb_sources] = src /\ src.id = asked
      BY <1>t, <2>0, <2>7 DEF TableInv, IdInv, SetCleaner
    <3> QED
      BY <1>0, <1>t, <2>0, <2>7, <3>1 DEF LostInv, SetCleaner, hist
  <2>8. CASE UseValues /\ pc' # "get"
    BY <2>0, <2>8 DEF UseValues, Exit, Exited
  <2> QED
    BY <1>3, <2>1, <2>2, <2>3, <2>4, <2>5, <2>6, <2>7, <2>8
    DEF Going, AddSource
<1> QED
  BY <1>1, <1>2, <1>3, Leaves

LEMMA ClosedStep == IInv /\ [Next]_vars => ClosedInv'
<1> SUFFICES ASSUME IInv, [Next]_vars PROVE ClosedInv'
  OBVIOUS
<1> USE DEF table, InitFailed
<1>0. /\ nb_sources \in Nat /\ i \in Nat /\ closed \in Seq(Nat)
      /\ states \in Seq(Sources) /\ Len(states) = nb_sources
  BY IdsType DEF IInv, TypeOK, ControlTypeOK, TableTypeOK, HistoryTypeOK
<1>t. TableInv /\ ClosedInv
  BY DEF IInv
<1>1. CASE ~Exited /\ Leaving /\ UNCHANGED <<src, nb, table>>
  <2>1. /\ Exited' /\ at' = at /\ pc' = "clean" /\ i' = 0
        /\ UNCHANGED <<open, lost, closed, table>>
    BY <1>1, LeavingAt DEF Leaving, Exit
  <2>2. /\ closed = <<>> /\ lost \subseteq open
        /\ open \ lost \subseteq {states[k].id : k \in 1 .. OpenSlots}
    BY <1>1, <1>t DEF ClosedInv
  <2>3. Cleaners' = Cleaners /\ OpenSlots' = OpenSlots /\ Cleaners >= 0
    BY <1>0, <1>t, <2>1 DEF Cleaners, OpenSlots, TableInv
  <2> QED
    BY <2>1, <2>2, <2>3 DEF ClosedInv
<1>2. CASE CleanSource
  <2>1. /\ Exited /\ Exited' /\ at' = at /\ i < nb_sources
        /\ UNCHANGED <<lost, left, table>>
    BY <1>2 DEF CleanSource, Exited, Over, at
  <2>2. /\ Cleaners' = Cleaners /\ OpenSlots' = OpenSlots
        /\ StaticTwice' = StaticTwice
    BY <2>1 DEF Cleaners, OpenSlots, StaticTwice
  <2>3. Len(cleaner) = Cleaners /\ Cleaners <= nb_sources /\ at = left
    BY <1>0, <1>t, <2>1 DEF TableInv, Cleaners, at
  <2>4. CASE i < Len(cleaner)
    <3> DEFINE id == Resource(states[i + 1])
    <3>1. /\ closed' = Append(closed, id) /\ open' = open \ {id}
          /\ i' = i + 1 /\ pc' = "clean"
      BY <1>2, <2>4 DEF CleanSource
    <3>2. i + 1 \in 1 .. nb_sources
      BY <1>0, <2>1
    <3>3. id \in Nat /\ (~StaticTwice => id = states[i + 1].id)
      BY <3>2, ResourceType
    <3>4. Len(closed) = i
      BY <1>t, <2>1 DEF ClosedInv
    <3> HIDE DEF id
    <3>5. /\ Len(closed') = i' /\ i' <= Cleaners
          /\ closed'[i'] = id /\ \A k \in 1 .. i : closed'[k] = closed[k]
      BY <1>0, <2>3, <2>4, <3>1, <3>3, <3>4
    <3>6. ASSUME ~StaticTwice
          PROVE  /\ \A k \in 1 .. i' : closed'[k] = states[k].id
                 /\ lost \subseteq open'
                 /\ open' \ lost \subseteq
                        {states[k].id : k \in i' + 1 .. OpenSlots}
      <4>1. /\ \A k \in 1 .. i : closed[k] = states[k].id
            /\ lost \subseteq open
            /\ open \ lost \subseteq {states[k].id : k \in i + 1 .. OpenSlots}
        BY <1>t, <2>1, <3>6 DEF ClosedInv
      <4>2. \A k \in i + 1 .. OpenSlots : k = i + 1 \/ k \in i + 2 .. OpenSlots
        BY <1>0, <1>t DEF OpenSlots
      <4>3. id = states[i + 1].id
        BY <3>3, <3>6
      <4>4. id \notin lost
        BY <1>0, <2>3, <2>4, <4>3 DEF IInv, LostInv
      <4> QED
        BY <1>0, <3>1, <3>5, <4>1, <4>2, <4>3, <4>4
    <3> QED
      BY <2>1, <2>2, <3>1, <3>5, <3>6 DEF ClosedInv
  <2>5. CASE ~(i < Len(cleaner))
    <3>1. UNCHANGED <<i, open, closed>>
      BY <1>2, <2>5 DEF CleanSource
    <3>2. left \in InitFailed
      BY <1>0, <2>1, <2>3, <2>5 DEF Cleaners
    <3> QED
      BY <1>t, <2>1, <2>2, <3>1, <3>2 DEF ClosedInv
  <2> QED
    BY <2>4, <2>5
<1>3. CASE /\ Exited /\ Exited' /\ pc' # "crash"
           /\ UNCHANGED <<i, open, lost, closed, left, table>>
  <2>1. at' = at
    BY <1>3 DEF at
  <2> QED
    BY <1>3, <1>t, <2>1 DEF ClosedInv, Cleaners, OpenSlots, StaticTwice
<1>4. CASE UNCHANGED vars
  BY <1>4, <1>t DEF vars, loop, hist, ClosedInv, Cleaners, OpenSlots,
     StaticTwice, at, Exited
<1>5. CASE Going
  <2>0. at = pc /\ at' = pc' /\ ~Exited /\ ~Exited' /\ left' = left
        /\ pc' # "crash"
    BY <1>5, Running DEF Going, Exited, Over
  <2>1. /\ closed = <<>> /\ lost \subseteq open
        /\ open \ lost \subseteq {states[k].id : k \in 1 .. OpenSlots}
    BY <2>0, <1>t DEF ClosedInv
  <2>f. ASSUME UNCHANGED <<open, lost, closed>>,
               \A k \in 1 .. OpenSlots :
                   k \in 1 .. OpenSlots' /\ states'[k] = states[k]
        PROVE  ClosedInv'
    BY <2>0, <2>1, <2>f DEF ClosedInv
  <2>2. CASE InitSource
    <3>1. /\ pc = "init" /\ pc' \in {"drop", "getter"}
          /\ states' = [states EXCEPT ![nb_sources] = src]
          /\ UNCHANGED <<nb_sources, lost, closed>>
          /\ open' = open \/ open' = open \cup {src.id}
      BY <2>0, <2>2 DEF InitSource, Exit, Exited
    <3>2. /\ src \in Sources /\ nb_sources > 0
          /\ \A k \in 1 .. nb_sources :
                states'[k] = IF k = nb_sources THEN src ELSE states[k]
      BY <1>0, <1>t, <2>0, <3>1, ExceptType
      DEF TableInv, IInv, TypeOK, ControlTypeOK
    <3>3. OpenSlots = nb_sources - 1 /\ OpenSlots' = nb_sources
      BY <2>0, <3>1 DEF OpenSlots
    <3>4. open' \ lost' \subseteq {states'[k].id : k \in 1 .. OpenSlots'}
      BY <1>0, <2>1, <3>1, <3>2, <3>3
    <3> QED
      BY <2>0, <2>1, <3>1, <3>4 DEF ClosedInv
  <2>3. CASE \/ EndOptions \/ EndGet \/ (UseValues /\ pc' = "get")
             \/ GetSource \/ SetGetter \/ SetCleaner \/ SetLabels \/ GrowValues
             \/ \E o \in 1 .. Len(Opts) : NextOption(o) /\ pc' = "grow"
    <3>1. /\ pc # "init" /\ pc' # "init"
          /\ UNCHANGED <<open, lost, closed, states, nb_sources>>
      BY <2>0, <2>3 DEF EndOptions, EndGet, UseValues, GetSource, SetGetter,
         SetCleaner, SetLabels, GrowValues, NextOption, Exit, hist
    <3>2. OpenSlots' = OpenSlots
      BY <2>0, <3>1 DEF OpenSlots
    <3> QED
      BY <2>f, <3>1, <3>2
  <2>4. CASE GrowStates
    <3>1. /\ pc = "grow" /\ pc' = "init" /\ nb_sources' = nb_sources + 1
          /\ \A k \in 1 .. nb_sources : states'[k] = states[k]
          /\ UNCHANGED <<open, lost, closed>>
      BY <1>0, <2>4 DEF GrowStates, hist
    <3>2. OpenSlots' = nb_sources /\ OpenSlots = nb_sources
      BY <1>0, <2>0, <3>1 DEF OpenSlots
    <3> QED
      BY <2>f, <3>1, <3>2
  <2>5. CASE DropSource
    <3>1. nb_sources > 0 /\ states[nb_sources] = src
      BY <1>t, <2>0, <2>5 DEF DropSource, TableInv
    <3>2. /\ pc = "drop" /\ pc' = "options" /\ nb_sources' = nb_sources - 1
          /\ \A k \in 1 .. nb_sources - 1 : states'[k] = states[k]
          /\ lost' = lost \cup (open \cap {src.id}) /\ UNCHANGED <<open, closed>>
      BY <1>0, <2>5, <3>1 DEF DropSource
    <3>3. OpenSlots' = nb_sources - 1 /\ OpenSlots = nb_sources
      BY <1>0, <2>0, <3>2 DEF OpenSlots
    <3>4. open' \ lost' \subseteq {states'[k].id : k \in 1 .. OpenSlots'}
      BY <1>0, <2>1, <3>1, <3>2, <3>3
    <3> QED
      BY <2>0, <2>1, <3>2, <3>4 DEF ClosedInv
  <2>6. CASE UseValues /\ pc' # "get"
    BY <2>0, <2>6 DEF UseValues, Exit, Exited
  <2> QED
    BY <1>5, <2>2, <2>3, <2>4, <2>5, <2>6 DEF Going, AddSource
<1>6. CASE Exited /\ Leaving /\ UNCHANGED <<src, nb, table>>
  <2>1. \/ CleanSource \/ EndClean \/ \E s \in Signals : Signal(s)
        \/ UNCHANGED vars
    BY <1>6, ExitedSteps
  <2>2. CASE EndClean
    BY <1>3, <1>6, <2>2 DEF EndClean, Leaving, loop, hist
  <2>3. ASSUME NEW s \in Signals, Signal(s) PROVE ClosedInv'
    BY <1>3, <1>6, <2>3 DEF Signal, Leaving, Exited, Over
  <2> QED
    BY <1>2, <1>4, <2>1, <2>2, <2>3
<1> QED
  BY <1>1, <1>4, <1>5, <1>6, Leaves

\* A source has as many labels as its block is long: no two sources share an
\* identity, so its getter writes exactly the columns of its block.
LEMMA WidthOfBlock ==
    ASSUME IInv, at = "get", NEW off \in [1 .. Labelled + 1 -> Nat],
           Blocks(off), NEW j \in 1 .. nb_sources
    PROVE  /\ off[j] \in Nat /\ off[j + 1] \in Nat
           /\ Width(states[j]) = off[j + 1] - off[j]
<1> DEFINE C == {c \in 1 .. Len(labels) : labels[c].id = states[j].id}
<1>0. /\ nb_sources \in Nat /\ Len(labels) \in Nat
      /\ Labelled = nb_sources /\ Cleaners = nb_sources
  BY DEF IInv, TypeOK, TableTypeOK, Labelled, Cleaners, InitFailed
<1>1. /\ off[j] \in Nat /\ off[j + 1] \in Nat /\ off[j] <= off[j + 1]
      /\ off[j + 1] <= Len(labels)
      /\ \A c \in off[j] + 1 .. off[j + 1] :
             labels[c] = [id |-> states[j].id, k |-> c - off[j]]
  BY <1>0 DEF Blocks
<1>2. ASSUME NEW c \in C PROVE c \in off[j] + 1 .. off[j + 1]
  <2>1. PICK m \in 1 .. nb_sources : c \in off[m] + 1 .. off[m + 1]
    BY <1>0 DEF Blocks
  <2>2. labels[c] = [id |-> states[m].id, k |-> c - off[m]]
    BY <1>0, <2>1 DEF Blocks
  <2>3. states[m].id = states[j].id
    BY <2>2
  <2>4. states[m].id \in Nat
    BY IdsType
  <2>5. \A k, l \in 1 .. nb_sources : k < l => states[k].id < states[l].id
    BY <1>0 DEF IInv, IdInv
  <2>6. m = j
    BY <1>0, <2>3, <2>4, <2>5
  <2> QED
    BY <2>1, <2>6
<1>3. ASSUME NEW c \in off[j] + 1 .. off[j + 1] PROVE c \in C
  <2>1. c \in 1 .. Len(labels)
    BY <1>0, <1>1
  <2>2. labels[c] = [id |-> states[j].id, k |-> c - off[j]]
    BY <1>1
  <2>3. labels[c].id = states[j].id
    BY <2>2
  <2> QED
    BY <2>1, <2>3
<1>4. C = off[j] + 1 .. off[j + 1]
  BY <1>2, <1>3
<1>5. Cardinality(off[j] + 1 .. off[j + 1]) = off[j + 1] - off[j]
  <2>1. off[j] + 1 \in Int /\ off[j + 1] \in Int
    BY <1>1
  <2>2. Cardinality(off[j] + 1 .. off[j + 1]) =
            IF off[j] + 1 > off[j + 1] THEN 0 ELSE off[j + 1] - (off[j] + 1) + 1
    BY <2>1, FS_Interval
  <2> QED
    BY <1>1, <2>2
<1> QED
  BY <1>1, <1>4, <1>5 DEF Width

\* Statements that leave the labelled sources alone keep the blocks.
LEMMA BlocksFrame ==
    ASSUME NEW off, Blocks(off), Labelled' = Labelled, UNCHANGED labels,
           \A k \in 1 .. Labelled : states'[k] = states[k]
    PROVE  Blocks(off)'
  BY DEF Blocks

\* A block is added behind the others.
LEMMA BlocksGrow ==
    ASSUME IInv, SetLabels, ~Exited,
           NEW off \in [1 .. Labelled + 1 -> Nat], Blocks(off)
    PROVE  \E new \in [1 .. Labelled' + 1 -> Nat] : Blocks(new)'
<1>0. /\ nb_sources \in Nat /\ nb_sources > 0
      /\ nb_sensors \in Nat /\ nb \in Nat
      /\ states[nb_sources] = src /\ pc = "label" /\ pc' = "value"
      /\ UNCHANGED <<states, nb_sources>>
  BY DEF SetLabels, IInv, TypeOK, TableTypeOK, ControlTypeOK, TableInv, at,
     InitFailed
<1>1. Labelled = nb_sources - 1 /\ Labelled' = nb_sources
  BY <1>0 DEF Labelled, at, Exited, Over, InitFailed
<1>2. /\ Len(labels) = nb_sensors /\ Len(labels') = nb_sensors + nb
      /\ \A c \in 1 .. nb_sensors : labels'[c] = labels[c]
      /\ \A c \in nb_sensors + 1 .. nb_sensors + nb :
             labels'[c] = [id |-> src.id, k |-> c - nb_sensors]
  BY LabelsEffect
<1>3. /\ off \in [1 .. nb_sources -> Nat]
      /\ off[1] = 0 /\ off[nb_sources] = nb_sensors
  BY <1>0, <1>1, <1>2 DEF Blocks
<1>4. \A j \in 1 .. nb_sources : off[j] \in Nat
  BY <1>0, <1>3
<1>5. PICK new \in [1 .. nb_sources + 1 -> Nat] :
          /\ \A j \in 1 .. nb_sources : new[j] = off[j]
          /\ new[nb_sources + 1] = nb_sensors + nb
  <2> DEFINE f == [j \in 1 .. nb_sources + 1 |->
                      IF j <= nb_sources THEN off[j] ELSE nb_sensors + nb]
  <2>1. ASSUME NEW j \in 1 .. nb_sources + 1 PROVE f[j] \in Nat
    <3>1. nb_sensors + nb \in Nat
      BY <1>0
    <3>2. CASE j <= nb_sources
      BY <1>0, <1>4, <3>2
    <3>3. CASE ~(j <= nb_sources)
      BY <3>1, <3>3
    <3> QED
      BY <3>2, <3>3
  <2>2. f \in [1 .. nb_sources + 1 -> Nat]
    BY <2>1
  <2>3. /\ \A j \in 1 .. nb_sources : f[j] = off[j]
        /\ f[nb_sources + 1] = nb_sensors + nb
    BY <1>0
  <2> HIDE DEF f
  <2> QED
    BY <2>2, <2>3
<1>6. ASSUME NEW j \in 1 .. nb_sources
      PROVE  /\ new[j] <= new[j + 1] /\ new[j + 1] <= Len(labels')
             /\ \A c \in new[j] + 1 .. new[j + 1] :
                    labels'[c] = [id |-> states[j].id, k |-> c - new[j]]
  <2>1. CASE j = nb_sources
    <3>1. new[j] = nb_sensors /\ new[j + 1] = nb_sensors + nb
      BY <1>0, <1>3, <1>5, <2>1
    <3>2. states[j] = src
      BY <1>0, <2>1
    <3>3. /\ nb_sensors <= nb_sensors + nb
          /\ nb_sensors + nb <= Len(labels')
      BY <1>0, <1>2
    <3>4. \A c \in new[j] + 1 .. new[j + 1] :
              labels'[c] = [id |-> states[j].id, k |-> c - new[j]]
      BY <1>2, <3>1, <3>2
    <3> QED
      BY <3>1, <3>3, <3>4
  <2>2. CASE j \in 1 .. nb_sources - 1
    <3>1. /\ off[j] \in Nat /\ off[j + 1] \in Nat
          /\ new[j] = off[j] /\ new[j + 1] = off[j + 1]
      BY <1>0, <1>4, <1>5, <2>2
    <3>2. /\ off[j] <= off[j + 1] /\ off[j + 1] <= nb_sensors
          /\ \A c \in off[j] + 1 .. off[j + 1] :
                 labels[c] = [id |-> states[j].id, k |-> c - off[j]]
      BY <1>1, <1>2, <2>2 DEF Blocks
    <3>3. \A c \in off[j] + 1 .. off[j + 1] : c \in 1 .. nb_sensors
      BY <1>0, <3>1, <3>2
    <3> QED
      BY <1>0, <1>2, <3>1, <3>2, <3>3
  <2> QED
    BY <1>0, <2>1, <2>2
<1>7. ASSUME NEW c \in 1 .. Len(labels')
      PROVE  \E j \in 1 .. nb_sources : c \in new[j] + 1 .. new[j + 1]
  <2>1. CASE c \in 1 .. nb_sensors
    <3>1. PICK j \in 1 .. nb_sources - 1 : c \in off[j] + 1 .. off[j + 1]
      BY <1>1, <1>2, <2>1 DEF Blocks
    <3>2. new[j] = off[j] /\ new[j + 1] = off[j + 1] /\ j \in 1 .. nb_sources
      BY <1>0, <1>5, <3>1
    <3> QED
      BY <3>1, <3>2
  <2>2. CASE c \in nb_sensors + 1 .. nb_sensors + nb
    <3>1. nb_sources \in 1 .. nb_sources
      BY <1>0
    <3>2. new[nb_sources] = nb_sensors /\ new[nb_sources + 1] = nb_sensors + nb
      BY <1>3, <1>5, <3>1
    <3> QED
      BY <2>2, <3>1, <3>2
  <2> QED
    BY <1>0, <1>2, <2>1, <2>2
<1>8. Blocks(new)'
  <2>1. new[1] = 0 /\ new[nb_sources + 1] = Len(labels')
    BY <1>0, <1>2, <1>3, <1>5
  <2> QED
    BY <1>0, <1>1, <1>6, <1>7, <2>1 DEF Blocks
<1> QED
  BY <1>1, <1>5, <1>8

\* moj_get_values() advances by the block of the source it has called.
LEMMA GetSourceStep ==
    ASSUME IInv, GetSource, ~Exited', NEW off \in [1 .. Labelled + 1 -> Nat],
           Blocks(off), current = off[i + 1]
    PROVE  /\ i + 1 \in 1 .. nb_sources /\ current' = off[i + 2]
           /\ i' = i + 1 /\ pc' = "get"
           /\ Labelled = nb_sources /\ Len(values) = Len(labels)
           /\ Len(values) = nb_sensors /\ current \in Nat
           /\ current' \in current .. nb_sensors
           /\ values' = [c \in 1 .. Len(values) |->
                            IF c \in current + 1 .. current'
                            THEN [id |-> labels[c].id, k |-> labels[c].k,
                                  at |-> sample]
                            ELSE values[c]]
<1> DEFINE s == states[i + 1]
           w == Width(getter[i + 1])
<1>0. /\ nb_sources \in Nat /\ nb_sensors \in Nat
      /\ i \in Nat /\ current \in Nat
      /\ pc = "get" /\ at = "get" /\ i < nb_sources /\ Labelled = nb_sources
  BY DEF GetSource, IInv, TypeOK, TableTypeOK, ControlTypeOK, at, Exited, Over,
     Labelled, InitFailed
<1>1. i + 1 \in 1 .. nb_sources
  BY <1>0
<1>2. Len(values) = nb_sensors /\ Len(labels) = nb_sensors
  BY <1>0 DEF IInv, TableInv
<1>3. getter[i + 1] = states[i + 1]
  BY <1>0, <1>1 DEF IInv, TableInv, Getters
<1>4. off[i + 2] \in Nat /\ w = off[i + 2] - off[i + 1]
  <2>1. off[(i + 1) + 1] \in Nat /\ w = off[(i + 1) + 1] - off[i + 1]
    BY <1>0, <1>1, <1>3, WidthOfBlock
  <2>2. (i + 1) + 1 = i + 2
    BY <1>0
  <2> QED
    BY <2>1, <2>2
<1>5. /\ values' = [c \in 1 .. Len(values) |->
                       IF c \in current + 1 .. current + w
                       THEN Reading(s, w)[c - current] ELSE values[c]]
      /\ current' = current + w /\ i' = i + 1 /\ pc' = pc
  <2> DEFINE new == [c \in 1 .. Len(values) |->
                       IF c \in current + 1 .. current + w
                       THEN Reading(s, w)[c - current] ELSE values[c]]
  <2>1. ~Exit(pc)
    BY DEF Exit, Exited
  <2>2. \/ values' = new /\ current' = current + w /\ i' = i + 1 /\ pc' = pc
        \/ Exit(pc)
    BY DEF GetSource
  <2> HIDE DEF new
  <2> QED
    BY <2>1, <2>2 DEF new
<1>6. /\ off[i + 1] <= off[i + 2] /\ off[i + 2] <= nb_sensors
      /\ \A c \in off[i + 1] + 1 .. off[i + 2] :
             labels[c] = [id |-> s.id, k |-> c - off[i + 1]]
  <2>1. (i + 1) + 1 = i + 2
    BY <1>0
  <2> QED
    BY <1>0, <1>1, <1>2, <2>1 DEF Blocks
<1> HIDE DEF s, w
<1>7. current' = off[i + 2] /\ w \in Nat
  BY <1>0, <1>4, <1>5, <1>6
<1>8. ASSUME NEW c \in current + 1 .. current + w
      PROVE  Reading(s, w)[c - current] =
                 [id |-> labels[c].id, k |-> labels[c].k, at |-> sample]
  <2>1. c - current \in 1 .. w
    BY <1>0, <1>7
  <2>2. Reading(s, w)[c - current] =
            [id |-> s.id, k |-> c - current, at |-> sample]
    BY <2>1 DEF Reading
  <2>3. c \in off[i + 1] + 1 .. off[i + 2]
    BY <1>0, <1>4, <1>5, <1>7
  <2>4. labels[c] = [id |-> s.id, k |-> c - current]
    BY <1>6, <2>3
  <2> QED
    BY <2>2, <2>4
<1>9. values' = [c \in 1 .. Len(values) |->
                    IF c \in current + 1 .. current'
                    THEN [id |-> labels[c].id, k |-> labels[c].k,
                          at |-> sample]
                    ELSE values[c]]
  BY <1>5, <1>8
<1>10. current' \in current .. nb_sensors
  BY <1>0, <1>4, <1>6, <1>7
<1> QED
  BY <1>0, <1>1, <1>2, <1>5, <1>7, <1>9, <1>10

LEMMA BlockStep == IInv /\ [Next]_vars => BlockInv'
<1> SUFFICES ASSUME IInv, [Next]_vars PROVE BlockInv'
  OBVIOUS
<1> USE DEF table, InitFailed
<1>0. /\ nb_sources \in Nat /\ i \in Nat
      /\ states \in Seq(Sources) /\ Len(states) = nb_sources
  BY IdsType DEF IInv, TypeOK, ControlTypeOK, TableTypeOK
<1>1. CASE Leaving /\ UNCHANGED <<src, nb, table>>
  BY <1>1, LeavingAt DEF BlockInv
<1>2. CASE ~Exited /\ UNCHANGED vars
  <2>1. UNCHANGED <<pc, i, current, states, labels, nb_sources>> /\ at' = at
    BY <1>2 DEF vars, loop, hist, at, Exited
  <2>2. Labelled' = Labelled
    BY <2>1 DEF Labelled
  <2>3. PICK off \in [1 .. Labelled + 1 -> Nat] :
            /\ Blocks(off)
            /\ pc = "get" => i <= nb_sources /\ current = off[i + 1]
    BY <1>2 DEF IInv, BlockInv
  <2>4. Blocks(off)'
    BY <2>1, <2>2, <2>3, BlocksFrame
  <2> QED
    BY <2>1, <2>2, <2>3, <2>4 DEF BlockInv
<1>3. CASE Going
  <2>0. at = pc /\ at' = pc' /\ ~Exited /\ ~Exited'
    BY <1>3, Running DEF Going
  <2>1. PICK off \in [1 .. Labelled + 1 -> Nat] :
            /\ Blocks(off)
            /\ pc = "get" => i <= nb_sources /\ current = off[i + 1]
    BY <2>0 DEF IInv, BlockInv
  <2>f. ASSUME Labelled' = Labelled, UNCHANGED labels, pc' # "get",
               \A k \in 1 .. Labelled : states'[k] = states[k]
        PROVE  BlockInv'
    BY <2>1, <2>f, BlocksFrame DEF BlockInv
  <2>2. CASE \/ EndGet \/ InitSource \/ SetGetter \/ SetCleaner \/ GrowValues
             \/ \E o \in 1 .. Len(Opts) : NextOption(o) /\ pc' = "grow"
    <3>1. /\ UNCHANGED <<nb_sources, labels>>
          /\ pc \in {"init", "getter", "cleaner"} <=>
                pc' \in {"drop", "getter", "cleaner", "label"}
          /\ pc \notin {"drop", "label"} /\ pc' \notin {"init", "get"}
          /\ \/ UNCHANGED states
             \/ pc = "init" /\ states' = [states EXCEPT ![nb_sources] = src]
      BY <2>0, <2>2 DEF EndGet, InitSource, SetGetter, SetCleaner, GrowValues,
         NextOption, Exit, Exited
    <3>2. Labelled' = Labelled
      BY <2>0, <3>1 DEF Labelled
    <3>3. \A k \in 1 .. Labelled : states'[k] = states[k]
      <4>1. CASE UNCHANGED states
        BY <4>1
      <4>2. CASE pc = "init" /\ states' = [states EXCEPT ![nb_sources] = src]
        <5>1. src \in Sources
          BY DEF IInv, TypeOK, ControlTypeOK
        <5>2. \A k \in 1 .. nb_sources :
                  states'[k] = IF k = nb_sources THEN src ELSE states[k]
          BY <1>0, <4>2, <5>1, ExceptType
        <5>3. Labelled = nb_sources - 1
          BY <2>0, <4>2 DEF Labelled
        <5> QED
          BY <1>0, <5>2, <5>3
      <4> QED
        BY <3>1, <4>1, <4>2
    <3> QED
      BY <2>f, <3>1, <3>2, <3>3
  <2>3. CASE GrowStates
    <3>1. /\ pc = "grow" /\ pc' = "init" /\ nb_sources' = nb_sources + 1
          /\ \A k \in 1 .. nb_sources : states'[k] = states[k]
          /\ UNCHANGED labels
      BY <1>0, <2>3 DEF GrowStates
    <3>2. Labelled' = nb_sources /\ Labelled = nb_sources
      BY <1>0, <2>0, <3>1 DEF Labelled
    <3> QED
      BY <2>f, <3>1, <3>2
  <2>4. CASE DropSource
    <3>1. nb_sources > 0
      BY <2>0, <2>4 DEF DropSource, IInv, TableInv
    <3>2. /\ pc = "drop" /\ pc' = "options" /\ nb_sources' = nb_sources - 1
          /\ \A k \in 1 .. nb_sources - 1 : states'[k] = states[k]
          /\ UNCHANGED labels
      BY <1>0, <2>4, <3>1 DEF DropSource
    <3>3. Labelled' = nb_sources - 1 /\ Labelled = nb_sources - 1
      BY <1>0, <2>0, <3>2 DEF Labelled
    <3> QED
      BY <2>f, <3>2, <3>3
  <2>5. CASE SetLabels
    <3>1. \E new \in [1 .. Labelled' + 1 -> Nat] : Blocks(new)'
      BY <2>0, <2>1, <2>5, BlocksGrow
    <3>2. pc' = "value"
      BY <2>5 DEF SetLabels
    <3> QED
      BY <3>1, <3>2 DEF BlockInv
  <2>6. CASE EndOptions \/ (UseValues /\ pc' = "get")
    <3>1. /\ UNCHANGED <<nb_sources, labels, states>> /\ i' = 0 /\ current' = 0
          /\ pc \in {"options", "use"} /\ pc' = "get"
      BY <2>0, <2>6 DEF EndOptions, UseValues, Exit, Exited
    <3>2. Labelled' = Labelled
      BY <2>0, <3>1 DEF Labelled
    <3>3. Blocks(off)'
      BY <2>1, <3>1, <3>2, BlocksFrame
    <3>4. i' <= nb_sources' /\ current' = off[i' + 1]
      BY <1>0, <2>1, <3>1 DEF Blocks
    <3> QED
      BY <2>1, <3>1, <3>2, <3>3, <3>4 DEF BlockInv
  <2>7. CASE GetSource
    <3>1. /\ pc = "get" /\ UNCHANGED <<nb_sources, labels, states>>
      BY <2>7 DEF GetSource
    <3>2. /\ i + 1 \in 1 .. nb_sources /\ current' = off[i + 2]
          /\ i' = i + 1 /\ pc' = "get"
      BY <2>0, <2>1, <2>7, <3>1, GetSourceStep
    <3>3. Labelled' = Labelled
      BY <2>0, <3>1, <3>2 DEF Labelled
    <3>4. Blocks(off)'
      BY <2>1, <3>1, <3>3, BlocksFrame
    <3>5. i' <= nb_sources' /\ current' = off[i' + 1]
      <4>1. i' + 1 = i + 2
        BY <1>0, <3>2
      <4> QED
        BY <1>0, <3>1, <3>2, <4>1
    <3> QED
      BY <2>1, <3>3, <3>4, <3>5 DEF BlockInv
  <2>8. CASE UseValues /\ pc' # "get"
    BY <2>0, <2>8 DEF UseValues, Exit, Exited
  <2> QED
    BY <1>3, <2>2, <2>3, <2>4, <2>5, <2>6, <2>7, <2>8 DEF Going, AddSource
<1> QED
  BY <1>1, <1>2, <1>3, Leaves

LEMMA ValueStep == IInv /\ [Next]_vars => ValueInv'
<1> SUFFICES ASSUME IInv, [Next]_vars PROVE ValueInv'
  OBVIOUS
<1>1. CASE Leaving /\ UNCHANGED <<src, nb, table>>
  <2>1. pc' \notin {"get", "use"}
    BY <1>1, LeavingAt DEF Exited, Over
  <2> QED
    BY <2>1 DEF ValueInv
<1>2. CASE ~Exited /\ UNCHANGED vars
  BY <1>2 DEF IInv, ValueInv, Fresh, vars, table, loop
<1>3. CASE Going
  <2>0. at = pc /\ at' = pc' /\ ~Exited /\ ~Exited'
    BY <1>3, Running DEF Going
  <2>1. CASE \/ AddSource
             \/ \E o \in 1 .. Len(Opts) : NextOption(o) /\ pc' = "grow"
    <3>1. pc' \notin {"get", "use"}
      BY <2>0, <2>1 DEF AddSource, GrowStates, InitSource, DropSource,
         SetGetter, SetCleaner, SetLabels, GrowValues, Exit
    <3> QED
      BY <3>1 DEF ValueInv
  <2>2. CASE EndOptions \/ UseValues
    <3>1. pc' # "use" /\ (pc' = "get" => current' = 0)
      BY <2>2 DEF EndOptions, UseValues, Exit
    <3> QED
      BY <3>1 DEF ValueInv
  <2>3. CASE GetSource
    <3>0. pc = "get" /\ UNCHANGED <<labels, sample>>
      BY <2>3 DEF GetSource
    <3>1. PICK off \in [1 .. Labelled + 1 -> Nat] :
              Blocks(off) /\ current = off[i + 1]
      BY <2>0, <3>0 DEF IInv, BlockInv
    <3>2. /\ pc' = "get" /\ current \in Nat /\ nb_sensors \in Nat
          /\ Len(values) = nb_sensors
          /\ current' \in current .. nb_sensors
          /\ values' = [c \in 1 .. Len(values) |->
                           IF c \in current + 1 .. current'
                           THEN [id |-> labels[c].id, k |-> labels[c].k,
                                 at |-> sample]
                           ELSE values[c]]
      BY <2>0, <2>3, <3>1, GetSourceStep DEF IInv, TypeOK, TableTypeOK
    <3>3. \A c \in 1 .. current : Fresh(c)
      BY <3>0 DEF IInv, ValueInv
    <3>4. ASSUME NEW c \in 1 .. current' PROVE Fresh(c)'
      <4>1. c \in 1 .. Len(values)
        BY <3>2
      <4>2. CASE c \in current + 1 .. current'
        BY <3>0, <3>2, <4>1, <4>2 DEF Fresh
      <4>3. CASE c \in 1 .. current
        <5>1. values'[c] = values[c]
          BY <3>2, <4>1, <4>3
        <5> QED
          BY <3>0, <3>3, <4>3, <5>1 DEF Fresh
      <4> QED
        BY <3>2, <4>2, <4>3
    <3> QED
      BY <3>2, <3>4 DEF ValueInv
  <2>4. CASE EndGet
    <3>0. /\ pc = "get" /\ i >= nb_sources /\ pc' = "use"
          /\ UNCHANGED <<values, labels, sample, nb_sensors>>
      BY <2>4 DEF EndGet, table, loop
    <3>1. PICK off \in [1 .. Labelled + 1 -> Nat] :
              Blocks(off) /\ i <= nb_sources /\ current = off[i + 1]
      BY <2>0, <3>0 DEF IInv, BlockInv
    <3>2. Labelled = nb_sources /\ Len(labels) = nb_sensors
      BY <2>0, <3>0 DEF IInv, TableInv, Labelled, InitFailed
    <3>3. i = nb_sources
      BY <3>0, <3>1 DEF IInv, TypeOK, ControlTypeOK, TableTypeOK
    <3>4. current = nb_sensors
      BY <3>1, <3>2, <3>3 DEF Blocks
    <3>5. \A c \in 1 .. nb_sensors : Fresh(c)
      BY <3>0, <3>4 DEF IInv, ValueInv
    <3> QED
      BY <3>0, <3>5 DEF ValueInv, Fresh
  <2> QED
    BY <1>3, <2>1, <2>2, <2>3, <2>4 DEF Going
<1> QED
  BY <1>1, <1>2, <1>3, Leaves

-----------------------------------------------------------------------------
(* The theorems *)

LEMMA NextIInv == IInv /\ [Next]_vars => IInv'
  BY ControlStep, TableTypeStep, HistoryTypeStep, TableStep, IdStep,
     LostStep, ClosedStep, BlockStep, ValueStep DEF IInv, TypeOK

LEMMA Inductive == Spec => []IInv
  BY InitIInv, NextIInv, PTL DEF Spec

\* The tables, the indices and the history keep their types; the counters
\* never go below zero.
THEOREM TypeCorrect == Spec => []TypeOK
  BY Inductive, PTL DEF IInv

\* add_source() leaves the parallel arrays with one slot per source, whatever
\* sources are refused on the way.
THEOREM ArraysAligned == Spec => []Aligned
<1>1. IInv => Aligned
  <2> SUFFICES ASSUME IInv, pc \in {"options", "get", "use"}
               PROVE  /\ Len(states) = nb_sources
                      /\ getter = states /\ cleaner = states
                      /\ Len(labels) = nb_sensors /\ Len(values) = nb_sensors
    BY DEF Aligned
  <2>1. at = pc /\ Getters = nb_sources /\ Cleaners = nb_sources
    BY DEF at, Exited, Over, Getters, Cleaners, InitFailed
  <2>2. /\ Len(states) = nb_sources
        /\ Len(labels) = nb_sensors /\ Len(values) = nb_sensors
    BY <2>1 DEF IInv, TableInv
  <2>3. /\ states \in Seq(Sources) /\ getter \in Seq(Sources)
        /\ cleaner \in Seq(Sources)
    BY DEF IInv, TypeOK, TableTypeOK
  <2>4. /\ Len(getter) = nb_sources /\ Len(cleaner) = nb_sources
        /\ \A k \in 1 .. nb_sources : getter[k] = states[k]
        /\ \A k \in 1 .. nb_sources : cleaner[k] = states[k]
    BY <2>1 DEF IInv, TableInv
  <2> QED
    BY <2>2, <2>3, <2>4
<1> QED
  BY <1>1, Inductive, PTL

\* moj_get_values() fills every column behind the label of its source.
THEOREM ValuesMatchLabels == Spec => []ColumnsMatch
<1>1. IInv => ColumnsMatch
  BY DEF IInv, ValueInv, Fresh, ColumnsMatch
<1> QED
  BY <1>1, Inductive, PTL

\* Wherever exit() strikes outside the four statements of add_source() that
\* follow the increment of nb_sources, moj_clean() finds all its cleaners.
THEOREM CleanersInPlace == Spec => []CrashOnlyInInit
<1>1. IInv => CrashOnlyInInit
  BY DEF IInv, ClosedInv, CrashOnlyInInit
<1> QED
  BY <1>1, Inductive, PTL

\* moj_clean() closes no resource twice and, when it comes to its end, has
\* closed those of every source of the table and none of a dropped one.
THEOREM EveryResourceClosedOnce == Spec => []ClosedOnce
<1>1. IInv => ClosedOnce
  <2> SUFFICES ASSUME IInv, ~StaticTwice
               PROVE  /\ \A k, l \in 1 .. Len(closed) :
                             closed[k] = closed[l] => k = l
                      /\ pc = "dead" /\ i >= nb_sources => open = lost
    BY DEF ClosedOnce
  <2>0. /\ nb_sources \in Nat /\ i \in Nat
        /\ \A k \in 1 .. nb_sources : states[k].id \in Nat
    BY IdsType DEF IInv, TypeOK, TableTypeOK, ControlTypeOK
  <2>1. CASE ~Exited
    <3>1. Len(closed) = 0
      BY <2>1 DEF IInv, ClosedInv
    <3> QED
      BY <2>1, <3>1 DEF Exited, Over
  <2>2. CASE Exited
    <3>1. /\ Len(closed) = i /\ i <= Cleaners
          /\ \A k \in 1 .. i : closed[k] = states[k].id
          /\ lost \subseteq open
          /\ open \ lost \subseteq {states[k].id : k \in i + 1 .. OpenSlots}
      BY <2>2 DEF IInv, ClosedInv
    <3>2. Cleaners \in Int /\ Cleaners <= nb_sources /\ OpenSlots <= nb_sources
      BY <2>0 DEF Cleaners, OpenSlots
    <3>3. \A k, l \in 1 .. Cleaners : k < l => states[k].id < states[l].id
      BY DEF IInv, IdInv
    <3>4. ASSUME NEW k \in 1 .. i, NEW l \in 1 .. i, closed[k] = closed[l]
          PROVE  k = l
      <4>1. /\ k \in 1 .. Cleaners /\ l \in 1 .. Cleaners
            /\ k \in 1 .. nb_sources /\ l \in 1 .. nb_sources
        BY <2>0, <3>1, <3>2
      <4>2. states[k].id = states[l].id /\ states[k].id \in Nat
        BY <2>0, <3>1, <3>4, <4>1
      <4> QED
        BY <3>3, <4>1, <4>2
    <3>5. ASSUME i >= nb_sources PROVE open = lost
      <4>1. i + 1 .. OpenSlots = {}
        BY <2>0, <3>2, <3>5 DEF OpenSlots
      <4> QED
        BY <3>1, <4>1
    <3> QED
      BY <3>1, <3>4, <3>5
  <2> QED
    BY <2>1, <2>2
<1> QED
  BY <1>1, Inductive, PTL

\* Whatever is added or dropped after it, a column keeps its label.
THEOREM LabelsStable == Spec => StableColumns
<1>1. IInv /\ [Next]_vars =>
          [\A c \in 1 .. nb_sensors : labels'[c] = labels[c]]_vars
  <2> SUFFICES ASSUME IInv, Next
               PROVE  \A c \in 1 .. nb_sensors : labels'[c] = labels[c]
    OBVIOUS
  <2>1. CASE SetLabels
    BY <2>1, LabelsEffect
  <2>2. CASE ~SetLabels
    <3>1. UNCHANGED labels
      BY <2>2 DEF Next, Main, AddSource, NextOption, EndOptions, GrowStates,
         InitSource, DropSource, SetGetter, SetCleaner, GrowValues, GetSource,
         EndGet, UseValues, CleanSource, EndClean, Signal, Terminated, table,
         vars
    <3> QED
      BY <3>1
  <2> QED
    BY <2>1, <2>2
<1> QED
  BY <1>1, Inductive, PTL DEF Spec, StableColumns
=============================================================================
