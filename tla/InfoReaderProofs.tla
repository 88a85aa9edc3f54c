--------------------------- MODULE InfoReaderProofs ---------------------------
(***************************************************************************)
(* The two parsers of lib/.  What parse() does to its storage in           *)
(* InfoReader, proved for every file, every list of keys and every         *)
(* capacity; and what the two passes of Options read of the command line,  *)
(* proved for every set of items, every command and every two tables.      *)
(***************************************************************************)
EXTENDS InfoReader, Options, FiniteSetTheorems, SequenceTheorems,
        WellFoundedInduction, TLAPS

\* The shape of the data: which records and columns there are.
DataOK ==
    /\ file \in Seq(STRING) /\ keys \in Seq(STRING)
    /\ storage \in [1 .. Capacity -> [1 .. nb_keys ->
                        [line : 0 .. Len(file), at : 0 .. MaxSamples]]]

CountsOK ==
    /\ pos \in 0 .. Len(file) /\ key_assigned \in 0 .. nb_keys
    /\ nb_stored \in 0 .. Capacity
    /\ ret \in {0, 1, Running} /\ sample \in 1 .. MaxSamples

\* Running parses have room for the record under way: move_to_next() ends
\* the parse with the last one.
RoomInv == ret = Running => nb_stored < Capacity

IInv == DataOK /\ CountsOK /\ RoomInv

LEMMA InitIInv == Init => IInv
<1> SUFFICES ASSUME Init PROVE IInv
  OBVIOUS
<1> USE CapacityAssumption, FilesAssumption
<1>1. file \in Seq(STRING) /\ keys \in Seq(STRING)
  BY DEF Init
<1>2. Unset \in [line : 0 .. Len(file), at : 0 .. MaxSamples]
  BY <1>1 DEF Unset
<1>3. DataOK
  BY <1>1, <1>2 DEF Init, DataOK, nb_keys
<1>4. CountsOK /\ RoomInv
  BY <1>1 DEF Init, CountsOK, RoomInv, Running, nb_keys
<1> QED BY <1>3, <1>4 DEF IInv

\* Only StoreLine writes, and what it writes is the line just read.
LEMMA StepData == DataOK /\ CountsOK /\ [Next]_vars => DataOK'
<1> SUFFICES ASSUME DataOK, CountsOK, [Next]_vars PROVE DataOK'
  OBVIOUS
<1>1. CASE StoreLine
  <2> USE <1>1
  <2> DEFINE value == [line |-> pos + 1, at |-> sample]
             Values == [line : 0 .. Len(file), at : 0 .. MaxSamples]
  <2>1. file' = file /\ keys' = keys
    BY DEF StoreLine
  <2>2. value \in Values
    <3>0. Len(file) \in Nat
      BY DEF DataOK
    <3>1. pos \in Nat /\ pos < Len(file)
      <4>1. pos < Len(file)
        BY DEF StoreLine, Reading
      <4>2. pos \in 0 .. Len(file)
        BY DEF CountsOK
      <4> QED BY <3>0, <4>1, <4>2
    <3>2. sample \in 0 .. MaxSamples
      BY CapacityAssumption DEF CountsOK
    <3> QED BY <3>0, <3>1, <3>2
  <2>3. storage \in [1 .. Capacity -> [1 .. nb_keys -> Values]]
    BY DEF DataOK
  <2>4. storage' = storage \/
        storage' = [storage EXCEPT ![nb_stored + 1][Match(Line)] = value]
    BY DEF StoreLine
  <2> HIDE DEF value, Values
  <2>5. CASE storage' = storage
    BY <2>1, <2>3, <2>5 DEF DataOK, nb_keys, Values
  <2>6. CASE storage' = [storage EXCEPT ![nb_stored + 1][Match(Line)] = value]
    <3>1. ASSUME nb_stored + 1 \in 1 .. Capacity
          PROVE  storage' \in [1 .. Capacity -> [1 .. nb_keys -> Values]]
      <4> DEFINE row == [storage[nb_stored + 1] EXCEPT ![Match(Line)] = value]
      <4>1. row \in [1 .. nb_keys -> Values]
        BY <2>2, <2>3, <3>1
      <4>2. storage' = [storage EXCEPT ![nb_stored + 1] = row]
        BY <2>6
      <4> HIDE DEF row
      <4> QED
        BY <2>3, <4>1, <4>2
    <3>2. ASSUME nb_stored + 1 \notin 1 .. Capacity
          PROVE  storage' = storage
      BY <2>3, <2>6, <3>2
    <3> QED BY <2>1, <2>3, <3>1, <3>2 DEF DataOK, nb_keys, Values
  <2> QED
    BY <2>4, <2>5, <2>6
<1>2. CASE UNCHANGED <<file, keys, storage>>
  BY <1>2 DEF DataOK, nb_keys
<1> QED
  BY <1>1, <1>2 DEF Next, SkipLine, NextRecord, EndOfFile, NextSample,
                    Terminated, vars

\* The counters stay in their bounds: lines are no longer stored once every
\* key is assigned, and no record begins beyond the capacity.
LEMMA StepCounts == IInv /\ [Next]_vars => CountsOK' /\ RoomInv'
<1> SUFFICES ASSUME IInv, [Next]_vars PROVE CountsOK' /\ RoomInv'
  OBVIOUS
<1> USE CapacityAssumption DEF IInv, CountsOK, RoomInv, Running
<1>0. Len(file) \in Nat /\ nb_keys \in Nat
  BY DEF DataOK, nb_keys
<1>1. CASE SkipLine
  <2>1. pos < Len(file) /\ pos' = pos + 1
    BY <1>1 DEF SkipLine, Reading
  <2>2. UNCHANGED <<file, keys, key_assigned, nb_stored, ret, sample>>
    BY <1>1 DEF SkipLine
  <2> QED BY <1>0, <2>1, <2>2 DEF nb_keys
<1>2. CASE NextRecord
  <2>1. pos < Len(file) /\ pos' = pos + 1 /\ nb_stored < Capacity
    BY <1>2 DEF NextRecord, Reading
  <2>2. /\ nb_stored' = nb_stored + 1
        /\ UNCHANGED <<file, keys, sample>>
        /\ \/ nb_stored' >= Capacity /\ ret' = 0 /\ key_assigned' = key_assigned
           \/ nb_stored' < Capacity /\ ret' = ret /\ key_assigned' = 0
    <3>1. nb_stored' = nb_stored + 1 /\ UNCHANGED <<file, keys, sample>>
      BY <1>2 DEF NextRecord
    <3>2. nb_stored + 1 >= Capacity <=> ~ (nb_stored + 1 < Capacity)
      OBVIOUS
    <3> QED BY <1>2, <3>1, <3>2 DEF NextRecord
  <2> QED BY <1>0, <2>1, <2>2 DEF nb_keys
<1>3. CASE StoreLine
  <2>1. pos < Len(file) /\ pos' = pos + 1 /\ key_assigned # nb_keys
    BY <1>3 DEF StoreLine, Reading
  <2>2. /\ key_assigned' \in {key_assigned, key_assigned + 1}
        /\ UNCHANGED <<file, keys, nb_stored, ret, sample>>
    BY <1>3 DEF StoreLine
  <2> QED BY <1>0, <2>1, <2>2 DEF nb_keys
<1>4. CASE EndOfFile
  BY <1>0, <1>4 DEF EndOfFile, nb_keys
<1>5. CASE NextSample
  BY <1>0, <1>5 DEF NextSample, nb_keys
<1>6. CASE Terminated \/ UNCHANGED vars
  BY <1>6 DEF Terminated, vars, nb_keys
<1> QED
  BY <1>1, <1>2, <1>3, <1>4, <1>5, <1>6 DEF Next

LEMMA Invariance == Spec => []IInv
<1>1. IInv /\ [Next]_vars => IInv'
  BY StepData, StepCounts DEF IInv
<1> QED BY InitIInv, <1>1, PTL DEF Spec

\* The parser's counters and every value of its storage keep their types.
THEOREM TypeCorrect == Spec => []TypeOK
<1>1. IInv => TypeOK
  BY DEF IInv, DataOK, CountsOK, TypeOK
<1> QED BY Invariance, <1>1, PTL

\* set_value() never writes behind the storage, whatever the file holds:
\* more records than the capacity, records cut short, empty lines.
THEOREM StoredInBounds == Spec => []InStorage
<1>1. IInv => InStorage
  BY DEF IInv, RoomInv, InStorage, Reading
<1> QED BY Invariance, <1>1, PTL

-----------------------------------------------------------------------------
(* What is stored *)

\* Records ended by the first p lines.
NbBlank(p) == Cardinality({q \in 1 .. p : Blank(q)})

\* Where a parse stands, and where one that is over has stopped.
PlaceInv ==
    /\ ret = Running => nb_stored = NbBlank(pos)
    /\ ret = 0 => NbBlank(pos) = Capacity
    /\ ret = 1 => pos = Len(file)

\* The keys met in the record under way: as many as are assigned.
Met == {k \in 1 .. nb_keys :
           \E q \in 1 .. pos : q \in Record(nb_stored + 1) /\ file[q] = keys[k]}
MetInv == Unambiguous /\ ret = Running => key_assigned = Cardinality(Met)

\* Of the lines that are read, each that a key names has its value stored.
KeptInv ==
    Unambiguous =>
        \A r \in 1 .. Capacity : \A k \in 1 .. nb_keys : \A p \in 1 .. pos :
            p \in Record(r) /\ file[p] = keys[k] =>
                storage[r][k] = [line |-> p, at |-> sample]

StoredInv == PlaceInv /\ MetInv /\ KeptInv

LEMMA Blanks ==
    ASSUME file \in Seq(STRING), NEW p \in Nat
    PROVE  /\ IsFiniteSet({q \in 1 .. p : Blank(q)}) /\ NbBlank(p) \in Nat
           /\ NbBlank(p + 1) = IF Blank(p + 1) THEN NbBlank(p) + 1 ELSE NbBlank(p)
<1> DEFINE S == {q \in 1 .. p : Blank(q)}
<1> DEFINE T == {q \in 1 .. p + 1 : Blank(q)}
<1>1. IsFiniteSet(S)
  <2>1. IsFiniteSet(1 .. p)
    BY FS_Interval
  <2> QED
    BY <2>1, FS_Subset
<1>2. NbBlank(p) = Cardinality(S) /\ NbBlank(p + 1) = Cardinality(T)
  BY DEF NbBlank
<1>3. Cardinality(S) \in Nat
  BY <1>1, FS_CardinalityType
<1>s. \A q \in 1 .. p + 1 : q \in 1 .. p \/ q = p + 1
  OBVIOUS
<1>4. Blank(p + 1) => T = S \cup {p + 1} /\ p + 1 \notin S
  OBVIOUS
<1>5. ~Blank(p + 1) => T = S
  BY <1>s
<1> HIDE DEF S, T
<1>6. Blank(p + 1) => Cardinality(T) = Cardinality(S) + 1
  BY <1>1, <1>4, FS_AddElement
<1> QED
  BY <1>1, <1>2, <1>3, <1>5, <1>6 DEF S

LEMMA BlanksGrow ==
    ASSUME file \in Seq(STRING), NEW p \in Nat, NEW q \in Nat, p <= q
    PROVE  NbBlank(p) <= NbBlank(q)
<1> DEFINE S == {x \in 1 .. p : Blank(x)}
<1> DEFINE T == {x \in 1 .. q : Blank(x)}
<1>1. IsFiniteSet(T) /\ S \in SUBSET T
  BY Blanks
<1>2. NbBlank(p) = Cardinality(S) /\ NbBlank(q) = Cardinality(T)
  BY DEF NbBlank
<1> HIDE DEF S, T
<1> QED
  BY <1>1, <1>2, FS_Subset

LEMMA NoBlanks == NbBlank(0) = 0
<1>1. {q \in 1 .. 0 : Blank(q)} = {}
  OBVIOUS
<1> QED
  BY <1>1, FS_EmptySet DEF NbBlank

\* A line that is not empty belongs to the record of the lines before it.
LEMMA RecordOf ==
    ASSUME file \in Seq(STRING), NEW r \in Nat, NEW p \in 1 .. Len(file)
    PROVE  p \in Record(r) <=> ~Blank(p) /\ NbBlank(p) = r - 1
BY DEF Record, NbBlank

\* Without ambiguity a line that some key begins is the line of that key.
LEMMA MatchRight ==
    ASSUME IInv, Unambiguous, NEW p \in 1 .. Len(file)
    PROVE  /\ Candidates(file[p]) = {} => \A k \in 1 .. nb_keys : keys[k] # file[p]
           /\ Candidates(file[p]) # {} =>
                  Match(file[p]) \in 1 .. nb_keys /\ keys[Match(file[p])] = file[p]
<1>0. nb_keys \in Nat
  BY DEF IInv, DataOK, nb_keys
<1>1. \A k \in 1 .. nb_keys : k \in Candidates(file[p]) <=> keys[k] = file[p]
  BY DEF Candidates, start_with, Unambiguous
<1>2. Candidates(file[p]) \subseteq 1 .. nb_keys
  BY DEF Candidates
<1>3. ASSUME NEW k \in Candidates(file[p]) PROVE Match(file[p]) = k
  <2>1. \A l \in Candidates(file[p]) : l = k
    BY <1>1, <1>2, <1>3 DEF Unambiguous
  <2>2. k <= k
    BY <1>0, <1>2
  <2>3. \A l \in Candidates(file[p]) : k <= l
    BY <2>1, <2>2
  <2> QED
    BY <2>1, <2>3, <1>3 DEF Match
<1> QED
  BY <1>1, <1>2, <1>3

LEMMA PlaceStep == IInv /\ StoredInv /\ [Next]_vars => PlaceInv'
<1> SUFFICES ASSUME IInv, PlaceInv, [Next]_vars PROVE PlaceInv'
  BY DEF StoredInv
<1>0. /\ file \in Seq(STRING) /\ pos \in Nat /\ nb_stored \in Nat /\ Capacity \in Nat \ {0}
      /\ nb_stored \in 0 .. Capacity /\ ret \in {0, 1, Running}
  BY CapacityAssumption DEF IInv, DataOK, CountsOK
<1>r. Running # 0 /\ Running # 1
  BY DEF Running
<1>s. ASSUME file' = file PROVE \A p : NbBlank(p)' = NbBlank(p)
  BY <1>s DEF NbBlank, Blank
<1>1. CASE SkipLine \/ StoreLine
  <2>1. /\ pos' = pos + 1 /\ ~Blank(pos + 1) /\ ret = Running
        /\ UNCHANGED <<file, nb_stored, ret>>
    BY <1>1 DEF SkipLine, StoreLine, Reading, Line, Blank
  <2>2. NbBlank(pos + 1) = NbBlank(pos)
    BY <1>0, <2>1, Blanks
  <2> QED
    BY <1>r, <1>s, <2>1, <2>2 DEF PlaceInv
<1>2. CASE NextRecord
  <2>1. /\ pos' = pos + 1 /\ Blank(pos + 1) /\ ret = Running /\ nb_stored' = nb_stored + 1
        /\ file' = file /\ ret' \in {0, Running}
        /\ ret' = 0 => nb_stored + 1 >= Capacity
    BY <1>2, <1>r DEF NextRecord, Reading, Line, Blank
  <2>2. NbBlank(pos + 1) = nb_stored + 1
    BY <1>0, <2>1, Blanks DEF PlaceInv
  <2>3. nb_stored < Capacity
    BY <2>1 DEF IInv, RoomInv
  <2>4. ret' = 0 => nb_stored + 1 = Capacity
    BY <1>0, <2>1, <2>3
  <2> QED
    BY <1>r, <1>s, <2>1, <2>2, <2>4 DEF PlaceInv
<1>3. CASE EndOfFile
  BY <1>r, <1>3 DEF EndOfFile, PlaceInv
<1>4. CASE NextSample
  <2>1. pos' = 0 /\ nb_stored' = 0 /\ ret' = Running /\ file' = file
    BY <1>4 DEF NextSample
  <2> QED
    BY <1>r, <1>s, <2>1, NoBlanks DEF PlaceInv
<1>5. CASE Terminated \/ UNCHANGED vars
  <2>1. UNCHANGED <<file, pos, nb_stored, ret>>
    BY <1>5 DEF Terminated, vars
  <2> QED
    BY <1>s, <2>1 DEF PlaceInv
<1> QED
  BY <1>1, <1>2, <1>3, <1>4, <1>5 DEF Next

LEMMA SameFile ==
    ASSUME [Next]_vars
    PROVE  /\ file' = file /\ keys' = keys /\ nb_keys' = nb_keys
           /\ Unambiguous' = Unambiguous /\ \A r : Record(r)' = Record(r)
<1>1. file' = file /\ keys' = keys
  BY DEF Next, SkipLine, NextRecord, StoreLine, EndOfFile, NextSample, Terminated, vars
<1>2. \A r : Record(r)' = Record(r)
  BY <1>1 DEF Record, Blank
<1>3. \A k, n : start_with(k, n)' = start_with(k, n)
  BY DEF start_with
<1> QED
  BY <1>1, <1>2, <1>3 DEF Unambiguous, nb_keys

\* The next line, when it is not empty, is one of the record under way.
LEMMA NextLine ==
    ASSUME IInv, PlaceInv, Reading, ~Blank(pos + 1)
    PROVE  /\ pos + 1 \in 1 .. Len(file) /\ pos \in Nat /\ Line = file[pos + 1]
           /\ nb_stored + 1 \in 1 .. Capacity
           /\ \A r \in Nat : pos + 1 \in Record(r) <=> r = nb_stored + 1
<1>1. /\ file \in Seq(STRING) /\ pos \in Nat /\ pos < Len(file) /\ Len(file) \in Nat
      /\ nb_stored \in Nat /\ nb_stored < Capacity /\ Capacity \in Nat
      /\ ret = Running
  BY CapacityAssumption DEF IInv, DataOK, CountsOK, RoomInv, Reading
<1>2. NbBlank(pos + 1) = nb_stored
  BY <1>1, Blanks DEF PlaceInv
<1>3. pos + 1 \in 1 .. Len(file)
  BY <1>1
<1>4. ASSUME NEW r \in Nat PROVE pos + 1 \in Record(r) <=> r = nb_stored + 1
  <2>1. pos + 1 \in Record(r) <=> nb_stored = r - 1
    BY <1>1, <1>2, <1>3, RecordOf
  <2> QED
    BY <1>1, <2>1
<1> QED
  BY <1>1, <1>3, <1>4 DEF Line

\* Its name is that of no line before it in the record.
LEMMA NameNew ==
    ASSUME IInv, PlaceInv, Unambiguous, Reading, ~Blank(pos + 1),
           NEW q \in 1 .. pos, q \in Record(nb_stored + 1)
    PROVE  file[q] # file[pos + 1]
<1>1. /\ pos + 1 \in Record(nb_stored + 1) /\ nb_stored + 1 \in 1 .. Capacity
      /\ pos \in Nat
  <2>1. nb_stored + 1 \in Nat
    BY DEF IInv, CountsOK
  <2> QED
    BY <2>1, NextLine
<1>2. q # pos + 1
  BY <1>1
<1> QED
  BY <1>1, <1>2 DEF Unambiguous

LEMMA MetFinite ==
    ASSUME IInv
    PROVE  /\ IsFiniteSet(Met) /\ Met \in SUBSET (1 .. nb_keys)
           /\ Cardinality(Met) = nb_keys => Met = 1 .. nb_keys
<1>1. nb_keys \in Nat
  BY DEF IInv, DataOK, nb_keys
<1>2. IsFiniteSet(1 .. nb_keys) /\ Cardinality(1 .. nb_keys) = nb_keys
  <2>1. 1 \in Int /\ nb_keys \in Int /\ (1 > nb_keys => nb_keys = 0)
        /\ nb_keys - 1 + 1 = nb_keys
    BY <1>1
  <2> QED
    BY <2>1, FS_Interval
<1>3. Met \in SUBSET (1 .. nb_keys)
  BY DEF Met
<1> QED
  BY <1>2, <1>3, FS_Subset

LEMMA MetStep == IInv /\ StoredInv /\ [Next]_vars => MetInv'
<1> SUFFICES ASSUME IInv, PlaceInv, MetInv, [Next]_vars, Unambiguous, ret' = Running
             PROVE  key_assigned' = Cardinality(Met')
  BY SameFile DEF StoredInv, MetInv, Running
<1>f. /\ file' = file /\ keys' = keys /\ nb_keys' = nb_keys
      /\ \A r : Record(r)' = Record(r)
  BY SameFile
<1>0. /\ pos \in Nat /\ nb_stored \in Nat /\ nb_keys \in Nat
      /\ file \in Seq(STRING) /\ Len(file) \in Nat
  BY DEF IInv, DataOK, CountsOK, nb_keys
<1>r. Running # 0 /\ Running # 1
  BY DEF Running
<1>a. ret = Running => key_assigned = Cardinality(Met)
  BY DEF MetInv
<1>m. Met' = {k \in 1 .. nb_keys :
                 \E q \in 1 .. pos' : q \in Record(nb_stored' + 1) /\ file[q] = keys[k]}
  BY <1>f DEF Met
<1>1. CASE SkipLine
  <2>1. /\ pos' = pos + 1 /\ ret = Running /\ key_assigned' = key_assigned
        /\ key_assigned = nb_keys /\ nb_stored' = nb_stored
    BY <1>1 DEF SkipLine, Reading
  <2>2. Met = 1 .. nb_keys
    BY <1>a, <2>1, MetFinite
  <2>3. \A q \in 1 .. pos : q \in 1 .. pos + 1
    BY <1>0
  <2>4. Met \subseteq Met' /\ Met' \subseteq 1 .. nb_keys
    BY <1>m, <2>1, <2>3 DEF Met
  <2>5. Met' = Met
    BY <2>2, <2>4
  <2> QED
    BY <1>a, <2>1, <2>5
<1>2. CASE StoreLine
  <2>1. /\ pos' = pos + 1 /\ ret = Running /\ Reading /\ ~Blank(pos + 1)
        /\ nb_stored' = nb_stored
        /\ key_assigned' = IF Candidates(Line) = {} THEN key_assigned ELSE key_assigned + 1
    BY <1>2 DEF StoreLine, Reading, Line, Blank
  <2>2. /\ pos + 1 \in 1 .. Len(file) /\ Line = file[pos + 1]
        /\ pos + 1 \in Record(nb_stored + 1)
    BY <1>0, <2>1, NextLine
  <2>3. \A q : q \in 1 .. pos + 1 <=> q \in 1 .. pos \/ q = pos + 1
    BY <1>0
  <2>4. \A k : k \in Met' <=> k \in Met \/ (k \in 1 .. nb_keys /\ file[pos + 1] = keys[k])
    BY <1>m, <2>1, <2>2, <2>3 DEF Met
  <2>5. CASE Candidates(Line) = {}
    <3>1. \A k \in 1 .. nb_keys : keys[k] # file[pos + 1]
      BY <2>2, <2>5, MatchRight
    <3>2. Met' = Met
      BY <2>4, <3>1
    <3> QED
      BY <1>a, <2>1, <2>5, <3>2
  <2>6. CASE Candidates(Line) # {}
    <3> DEFINE m == Match(Line)
    <3>1. m \in 1 .. nb_keys /\ keys[m] = file[pos + 1]
      BY <2>2, <2>6, MatchRight
    <3> HIDE DEF m
    <3>2. \A k \in 1 .. nb_keys : file[pos + 1] = keys[k] <=> k = m
      BY <3>1 DEF Unambiguous
    <3>3. m \notin Met
      BY <2>1, <3>1, NameNew DEF Met
    <3>4. Met' = Met \cup {m}
      BY <2>4, <3>1, <3>2
    <3> QED
      BY <1>a, <2>1, <2>6, <3>3, <3>4, MetFinite, FS_AddElement
  <2> QED
    BY <2>5, <2>6
<1>3. CASE NextRecord
  <2>1. /\ pos' = pos + 1 /\ ret = Running /\ nb_stored' = nb_stored + 1 /\ key_assigned' = 0
        /\ Blank(pos + 1) /\ pos < Len(file)
    BY <1>3, <1>r DEF NextRecord, Reading, Line, Blank
  <2>2. ASSUME NEW q \in 1 .. pos + 1, q \in Record(nb_stored + 2) PROVE FALSE
    <3>1. q \in 1 .. Len(file) /\ nb_stored + 2 \in Nat
      BY <1>0, <2>1
    <3>2. ~Blank(q) /\ NbBlank(q) = nb_stored + 1
      BY <1>0, <2>2, <3>1, RecordOf
    <3>3. q # pos + 1
      BY <2>1, <3>2
    <3>4. NbBlank(q) <= NbBlank(pos)
      BY <1>0, <3>3, BlanksGrow
    <3>5. NbBlank(pos) = nb_stored
      BY <2>1 DEF PlaceInv
    <3> QED
      BY <1>0, <3>2, <3>4, <3>5
  <2>3. nb_stored' + 1 = nb_stored + 2
    BY <1>0, <2>1
  <2>4. Met' = {}
    BY <1>m, <2>1, <2>2, <2>3
  <2> QED
    BY <2>1, <2>4, FS_EmptySet
<1>4. CASE EndOfFile
  BY <1>4, <1>r DEF EndOfFile
<1>5. CASE NextSample
  <2>1. pos' = 0 /\ key_assigned' = 0
    BY <1>5 DEF NextSample
  <2>2. Met' = {}
    BY <1>m, <2>1
  <2> QED
    BY <2>1, <2>2, FS_EmptySet
<1>6. CASE Terminated \/ UNCHANGED vars
  <2>1. UNCHANGED <<pos, nb_stored, key_assigned, ret>>
    BY <1>6 DEF Terminated, vars
  <2>2. Met' = Met
    BY <1>m, <2>1 DEF Met
  <2> QED
    BY <1>a, <2>1, <2>2
<1> QED
  BY <1>1, <1>2, <1>3, <1>4, <1>5, <1>6 DEF Next

LEMMA KeptStep == IInv /\ StoredInv /\ [Next]_vars => KeptInv'
<1> SUFFICES ASSUME IInv, PlaceInv, MetInv, KeptInv, [Next]_vars, Unambiguous,
                    NEW r \in 1 .. Capacity, NEW k \in 1 .. nb_keys, NEW p \in 1 .. pos',
                    p \in Record(r), file[p] = keys[k]
             PROVE  storage'[r][k] = [line |-> p, at |-> sample']
  <2> SUFFICES ASSUME IInv, StoredInv, [Next]_vars PROVE KeptInv'
    OBVIOUS
  <2>1. /\ Unambiguous' = Unambiguous /\ file' = file /\ keys' = keys
        /\ nb_keys' = nb_keys /\ \A x : Record(x)' = Record(x)
    BY SameFile
  <2>2. KeptInv' <=>
          (Unambiguous =>
             \A x \in 1 .. Capacity : \A y \in 1 .. nb_keys : \A z \in 1 .. pos' :
                 z \in Record(x) /\ file[z] = keys[y] =>
                     storage'[x][y] = [line |-> z, at |-> sample'])
    BY <2>1 DEF KeptInv
  <2> QED
    BY <2>2 DEF StoredInv
<1>0. /\ pos \in Nat /\ nb_stored \in Nat /\ nb_keys \in Nat /\ Capacity \in Nat
      /\ file \in Seq(STRING) /\ Len(file) \in Nat
  <2>1. file \in Seq(STRING) /\ keys \in Seq(STRING)
    BY DEF IInv, DataOK
  <2>2. nb_keys \in Nat /\ Len(file) \in Nat
    BY <2>1 DEF nb_keys
  <2>3. pos \in 0 .. Len(file) /\ nb_stored \in 0 .. Capacity /\ Capacity \in Nat
    BY CapacityAssumption DEF IInv, CountsOK
  <2> QED
    BY <2>1, <2>2, <2>3
<1>r. r \in Nat
  BY <1>0
<1>a. p \in 1 .. pos => storage[r][k] = [line |-> p, at |-> sample]
  BY DEF KeptInv
<1>b. ~Blank(p)
  BY DEF Record
<1>1. CASE SkipLine
  <2>1. /\ pos' = pos + 1 /\ Reading /\ ~Blank(pos + 1) /\ ret = Running
        /\ key_assigned = nb_keys /\ storage' = storage /\ sample' = sample
    BY <1>1 DEF SkipLine, Reading, Line, Blank
  <2>2. ASSUME p = pos + 1 PROVE FALSE
    <3>1. r = nb_stored + 1
      BY <1>r, <2>1, <2>2, NextLine
    <3>2. k \in Met
      BY <2>1, MetFinite DEF MetInv
    <3>3. PICK q \in 1 .. pos : q \in Record(nb_stored + 1) /\ file[q] = keys[k]
      BY <3>2 DEF Met
    <3> QED
      BY <2>1, <2>2, <3>3, NameNew
  <2>3. p \in 1 .. pos
    BY <1>0, <2>1, <2>2
  <2> QED
    BY <1>a, <2>1, <2>3
<1>2. CASE StoreLine
  <2> DEFINE n == nb_stored + 1
  <2> DEFINE m == Match(Line)
  <2> DEFINE v == [line |-> pos + 1, at |-> sample]
  <2>1. /\ pos' = pos + 1 /\ Reading /\ ~Blank(pos + 1) /\ ret = Running /\ sample' = sample
        /\ Candidates(Line) = {} => storage' = storage
        /\ Candidates(Line) # {} => storage' = [storage EXCEPT ![n][m] = v]
    BY <1>2 DEF StoreLine, Reading, Line, Blank
  <2>2. pos + 1 \in 1 .. Len(file) /\ Line = file[pos + 1] /\ n \in 1 .. Capacity
    BY <2>1, NextLine
  <2>3. CASE Candidates(Line) = {}
    <3>1. p # pos + 1
      BY <2>2, <2>3, MatchRight
    <3>2. p \in 1 .. pos
      BY <1>0, <2>1, <3>1
    <3> QED
      BY <1>a, <2>1, <2>3, <3>2
  <2>4. CASE Candidates(Line) # {}
    <3>1. m \in 1 .. nb_keys /\ keys[m] = file[pos + 1]
      BY <2>2, <2>4, MatchRight
    <3>2. storage' = [storage EXCEPT ![n][m] = v]
      BY <2>1, <2>4
    <3>d. /\ DOMAIN storage = 1 .. Capacity
          /\ \A x \in 1 .. Capacity : DOMAIN storage[x] = 1 .. nb_keys
      BY DEF IInv, DataOK
    <3> HIDE DEF n, m, v
    <3>3. storage'[r][k] = IF r = n /\ k = m THEN v ELSE storage[r][k]
      BY <3>2, <3>d
    <3>4. CASE p = pos + 1
      <4>1. r = n
        BY <1>r, <2>1, <3>4, NextLine DEF n
      <4>2. k = m
        BY <3>1, <3>4 DEF Unambiguous
      <4> QED
        BY <2>1, <3>3, <3>4, <4>1, <4>2 DEF v
    <3>5. CASE p # pos + 1
      <4>1. p \in 1 .. pos
        BY <1>0, <2>1, <3>5
      <4>2. ASSUME r = n, k = m PROVE FALSE
        <5>1. p \in Record(nb_stored + 1) /\ file[p] = file[pos + 1]
          BY <3>1, <4>2 DEF n
        <5> QED
          BY <2>1, <4>1, <5>1, NameNew
      <4> QED
        BY <1>a, <2>1, <3>3, <4>1, <4>2
    <3> QED
      BY <3>4, <3>5
  <2> QED
    BY <2>3, <2>4
<1>3. CASE NextRecord
  <2>1. /\ pos' = pos + 1 /\ Blank(pos + 1) /\ UNCHANGED <<storage, sample>>
    BY <1>3 DEF NextRecord, Line, Blank
  <2>2. p \in 1 .. pos
    <3>1. p # pos + 1
      BY <1>b, <2>1
    <3> QED
      BY <1>0, <2>1, <3>1
  <2> QED
    BY <1>a, <2>1, <2>2
<1>4. CASE NextSample
  BY <1>4 DEF NextSample
<1>5. CASE EndOfFile \/ Terminated \/ UNCHANGED vars
  <2>1. UNCHANGED <<pos, storage, sample>>
    BY <1>5 DEF EndOfFile, Terminated, vars
  <2> QED
    BY <1>a, <2>1
<1> QED
  BY <1>1, <1>2, <1>3, <1>4, <1>5 DEF Next

LEMMA InitStored == Init => StoredInv
<1> SUFFICES ASSUME Init PROVE StoredInv
  OBVIOUS
<1>1. /\ pos = 0 /\ key_assigned = 0 /\ nb_stored = 0 /\ ret = Running
      /\ Running # 0 /\ Running # 1
  BY DEF Init, Running
<1>2. Met = {}
  BY <1>1 DEF Met
<1>3. PlaceInv
  BY <1>1, NoBlanks DEF PlaceInv
<1>4. MetInv
  BY <1>1, <1>2, FS_EmptySet DEF MetInv
<1>5. KeptInv
  BY <1>1 DEF KeptInv
<1> QED
  BY <1>3, <1>4, <1>5 DEF StoredInv

\* Whatever the order of the lines and of the keys, every record that was read
\* holds the values of its own lines, of the last parse, and skipping the
\* lines behind the last key loses none.
THEOREM LinesInTheirColumns == Spec => []RecordsRight
<1>1. IInv /\ StoredInv => RecordsRight
  <2> SUFFICES ASSUME IInv, StoredInv, ret # Running, Unambiguous,
                      NEW r \in 1 .. Capacity, NEW k \in 1 .. nb_keys,
                      Expected(r, k) # {}
               PROVE  storage[r][k] \in Expected(r, k)
    BY DEF RecordsRight, ColumnRight
  <2>1. PICK p \in Record(r) : file[p] = keys[k]
    BY DEF Expected
  <2>2. /\ p \in 1 .. Len(file) /\ r \in Nat /\ Capacity \in Nat /\ r <= Capacity
        /\ file \in Seq(STRING) /\ pos \in Nat /\ ret \in {0, 1}
    BY CapacityAssumption DEF Record, IInv, DataOK, CountsOK
  <2>3. p \in 1 .. pos
    <3>1. CASE ret = 1
      BY <2>2, <3>1 DEF StoredInv, PlaceInv
    <3>2. CASE ret = 0
      <4>1. NbBlank(pos) = Capacity
        BY <3>2 DEF StoredInv, PlaceInv
      <4>2. NbBlank(p) = r - 1
        BY <2>1, <2>2, RecordOf
      <4>3. ~(pos <= p)
        BY <2>2, <4>1, <4>2, BlanksGrow
      <4> QED
        BY <2>2, <4>3
    <3> QED
      BY <2>2, <3>1, <3>2
  <2>4. storage[r][k] = [line |-> p, at |-> sample]
    BY <2>1, <2>3 DEF StoredInv, KeptInv
  <2> QED
    BY <2>1, <2>4 DEF Expected
<1>2. IInv /\ StoredInv /\ [Next]_vars => StoredInv'
  BY PlaceStep, MetStep, KeptStep DEF StoredInv
<1>3. Spec => []StoredInv
  BY InitStored, <1>2, Invariance, PTL DEF Spec
<1> QED
  BY <1>1, <1>3, Invariance, PTL

-----------------------------------------------------------------------------
(* Facts about sets of naturals and sequences *)

LEMMA Least ==
    ASSUME NEW T, T \subseteq Nat, T # {}
    PROVE  \E x \in T : \A y \in T : x <= y
<1>1. PICK x \in T : \A y \in T : ~(<<y, x>> \in OpToRel(<, Nat))
  BY NatLessThanWellFounded, WFMin
<1>2. ASSUME NEW y \in T PROVE x <= y
  <2>1. ~(y < x)
    BY <1>1 DEF OpToRel
  <2> QED
    BY <2>1
<1> QED
  BY <1>2

LEMMA Greatest ==
    ASSUME NEW b \in Nat, NEW T, T \subseteq 0 .. b, T # {}
    PROVE  \E x \in T : \A y \in T : y <= x
<1> DEFINE D == {b - x : x \in T}
<1>1. D \subseteq Nat /\ D # {}
  OBVIOUS
<1>2. PICK m \in D : \A y \in D : m <= y
  BY <1>1, Least
<1>3. PICK x \in T : m = b - x
  OBVIOUS
<1>4. ASSUME NEW y \in T PROVE y <= x
  <2>1. b - x <= b - y
    BY <1>2, <1>3
  <2> QED
    BY <2>1
<1> QED
  BY <1>4

LEMMA MinIn ==
    ASSUME NEW T, T \subseteq Nat, T # {}
    PROVE  Min(T) \in T /\ \A x \in T : Min(T) <= x
BY Least, Zenon DEF Min

LEMMA MinIs ==
    ASSUME NEW T, T \subseteq Nat, NEW m \in T, \A x \in T : m <= x
    PROVE  Min(T) = m
<1>1. Min(T) \in T /\ Min(T) <= m
  BY MinIn
<1>2. m <= Min(T) /\ Min(T) \in Nat /\ m \in Nat
  BY <1>1
<1> QED
  BY <1>1, <1>2

LEMMA MaxIs ==
    ASSUME NEW T, T \subseteq Nat, NEW m \in T, \A x \in T : x <= m
    PROVE  Max(T) = m
<1>0. \A y \in T : y \in Nat /\ m >= y
  OBVIOUS
<1>1. \E x \in T : \A y \in T : x >= y
  BY <1>0
<1>2. Max(T) \in T /\ \A y \in T : Max(T) >= y
  BY <1>1, Zenon DEF Max
<1>3. Max(T) >= m /\ m >= Max(T) /\ m \in Nat /\ Max(T) \in Nat
  BY <1>0, <1>2
<1> QED
  BY <1>3

LEMMA ConcatType ==
    ASSUME NEW S, NEW n \in Nat, NEW m \in Nat, NEW u \in Seq(S), NEW v \in Seq(S),
           Len(u) = n, Len(v) = m
    PROVE  u \o v \in Seq(S) /\ Len(u \o v) = n + m
BY ConcatProperties

LEMMA ConcatLeft ==
    ASSUME NEW S, NEW n \in Nat, NEW m \in Nat, NEW u \in Seq(S), NEW v \in Seq(S),
           Len(u) = n, Len(v) = m, NEW j \in 1 .. n
    PROVE  (u \o v)[j] = u[j]
BY ConcatProperties

LEMMA ConcatRight ==
    ASSUME NEW S, NEW n \in Nat, NEW m \in Nat, NEW u \in Seq(S), NEW v \in Seq(S),
           Len(u) = n, Len(v) = m, NEW j \in 1 .. m
    PROVE  (u \o v)[n + j] = v[j]
BY ConcatProperties

-----------------------------------------------------------------------------
(* The sequences that FlattenSeq joins *)

\* The first i of the sequences of f, one after the other.
Joined(f, i) == FlattenSeq([k \in 1 .. i |-> f[k]])

Joining(g, f, i) ==
    g = [k \in 1 .. i |-> IF k = 1 THEN f[k] ELSE g[k - 1] \o f[k]]

LEMMA JoiningExists ==
    ASSUME NEW f, NEW n \in Nat
    PROVE  \A i \in 1 .. n : \E g : Joining(g, f, i)
<1> DEFINE T == {i \in 1 .. n : ~\E g : Joining(g, f, i)}
<1> SUFFICES ASSUME T # {} PROVE FALSE
  OBVIOUS
<1>0. T \subseteq Nat
  OBVIOUS
<1>1. PICK x \in T : \A y \in T : x <= y
  BY <1>0, Least
<1>x. x \in 1 .. n /\ ~\E g : Joining(g, f, x)
  OBVIOUS
<1>2. CASE x = 1
  <2> DEFINE h == [k \in 1 .. 1 |-> f[k]]
  <2>1. h = [k \in 1 .. 1 |-> IF k = 1 THEN f[k] ELSE h[k - 1] \o f[k]]
    OBVIOUS
  <2>2. Joining(h, f, 1)
    BY <2>1, Zenon DEF Joining
  <2> QED
    BY <1>2, <1>x, <2>2
<1>3. CASE x # 1
  <2>1. x - 1 \in 1 .. n /\ ~(x <= x - 1) /\ x - 1 \notin T
    BY <1>x, <1>3, <1>1
  <2>2. PICK g : Joining(g, f, x - 1)
    BY <2>1
  <2> DEFINE y == x - 1
  <2> DEFINE h == [k \in 1 .. x |-> IF k = x THEN g[y] \o f[x] ELSE g[k]]
  <2>3. g = [k \in 1 .. y |-> IF k = 1 THEN f[k] ELSE g[k - 1] \o f[k]]
    BY <2>2, Zenon DEF Joining
  <2>y. y \in Nat /\ x = y + 1 /\ y >= 1
    BY <1>x, <1>3
  <2> HIDE DEF y
  <2>4. \A k \in 1 .. x : h[k] = IF k = 1 THEN f[k] ELSE h[k - 1] \o f[k]
    <3> TAKE k \in 1 .. x
    <3>1. CASE k = x
      <4>1. k # 1 /\ k - 1 = y /\ y \in 1 .. x /\ y # x
        BY <3>1, <2>y
      <4>2. h[k] = g[y] \o f[x] /\ h[y] = g[y]
        BY <4>1, <3>1
      <4> QED
        BY <4>1, <4>2, <3>1
    <3>2. CASE k # x
      <4>1. k \in 1 .. y /\ h[k] = g[k]
        BY <3>2, <2>y
      <4>2. k # 1 => k - 1 \in 1 .. x /\ k - 1 # x
        BY <4>1, <2>y
      <4>3. k # 1 => h[k - 1] = g[k - 1]
        BY <4>2
      <4>4. g[k] = IF k = 1 THEN f[k] ELSE g[k - 1] \o f[k]
        BY <2>3, <4>1
      <4> QED
        BY <4>1, <4>3, <4>4
    <3> QED
      BY <3>1, <3>2
  <2> DEFINE w == [k \in 1 .. x |-> IF k = 1 THEN f[k] ELSE h[k - 1] \o f[k]]
  <2>5. h = [k \in 1 .. x |-> h[k]]
    OBVIOUS
  <2> HIDE DEF h
  <2>6. \A k \in 1 .. x : h[k] = w[k]
    BY <2>4
  <2>7. h = w
    BY <2>5, <2>6
  <2>8. Joining(h, f, x)
    BY <2>7, Zenon DEF Joining, w
  <2> QED
    BY <2>8, <1>x
<1> QED
  BY <1>2, <1>3

LEMMA JoiningUnique ==
    ASSUME NEW f, NEW i \in Nat, NEW j \in Nat, NEW g, Joining(g, f, i),
           NEW h, Joining(h, f, j), i <= j
    PROVE  \A k \in 1 .. i : g[k] = h[k]
<1> DEFINE T == {k \in 1 .. i : g[k] # h[k]}
<1> SUFFICES ASSUME T # {} PROVE FALSE
  OBVIOUS
<1>0. T \subseteq Nat
  OBVIOUS
<1>1. PICK x \in T : \A y \in T : x <= y
  BY <1>0, Least
<1>2. g = [k \in 1 .. i |-> IF k = 1 THEN f[k] ELSE g[k - 1] \o f[k]]
  BY Zenon DEF Joining
<1>3. h = [k \in 1 .. j |-> IF k = 1 THEN f[k] ELSE h[k - 1] \o f[k]]
  BY Zenon DEF Joining
<1>4. x \in 1 .. i /\ x \in 1 .. j
  OBVIOUS
<1>5. g[x] = IF x = 1 THEN f[x] ELSE g[x - 1] \o f[x]
  BY <1>2, <1>4
<1>6. h[x] = IF x = 1 THEN f[x] ELSE h[x - 1] \o f[x]
  BY <1>3, <1>4
<1>7. x # 1
  BY <1>5, <1>6
<1>8. x - 1 \in 1 .. i /\ ~(x <= x - 1)
  BY <1>7
<1>9. g[x - 1] = h[x - 1]
  BY <1>1, <1>8
<1> QED
  BY <1>5, <1>6, <1>9

LEMMA JoinedNone ==
    ASSUME NEW f
    PROVE  Joined(f, 0) = <<>>
<1> DEFINE seqs == [k \in 1 .. 0 |-> f[k]]
<1>1. seqs = <<>> /\ Len(seqs) = 0
  OBVIOUS
<1> HIDE DEF seqs
<1>2. FlattenSeq(seqs) = seqs
  BY <1>1 DEF FlattenSeq
<1> QED
  BY <1>1, <1>2 DEF Joined, seqs

LEMMA JoinedLast ==
    ASSUME NEW f, NEW i \in Nat \ {0}
    PROVE  \E g : Joining(g, f, i) /\ Joined(f, i) = g[i]
<1> DEFINE seqs == [k \in 1 .. i |-> f[k]]
<1>1. Len(seqs) = i /\ Len(seqs) # 0 /\ \A k \in 1 .. i : seqs[k] = f[k]
  OBVIOUS
<1> HIDE DEF seqs
<1>2. i \in 1 .. i
  OBVIOUS
<1>3. PICK h : Joining(h, seqs, i)
  BY <1>2, JoiningExists
<1>4. h = [k \in 1 .. i |-> IF k = 1 THEN seqs[k] ELSE h[k - 1] \o seqs[k]]
  BY <1>3, Zenon DEF Joining
<1>5. \E g : /\ g = [k \in 1 .. i |-> IF k = 1 THEN seqs[k] ELSE g[k - 1] \o seqs[k]]
             /\ FlattenSeq(seqs) = g[i]
  BY <1>1, <1>4, Zenon DEF FlattenSeq
<1>6. PICK g : /\ g = [k \in 1 .. i |-> IF k = 1 THEN seqs[k] ELSE g[k - 1] \o seqs[k]]
               /\ FlattenSeq(seqs) = g[i]
  BY <1>5
<1>7. g = [k \in 1 .. i |-> IF k = 1 THEN f[k] ELSE g[k - 1] \o f[k]]
  <2>1. [k \in 1 .. i |-> IF k = 1 THEN seqs[k] ELSE g[k - 1] \o seqs[k]]
            = [k \in 1 .. i |-> IF k = 1 THEN f[k] ELSE g[k - 1] \o f[k]]
    BY <1>1
  <2> QED
    BY <1>6, <2>1
<1>8. Joining(g, f, i)
  BY <1>7, Zenon DEF Joining
<1> QED
  BY <1>6, <1>8 DEF Joined, seqs

LEMMA JoinedNext ==
    ASSUME NEW S, NEW n \in Nat, NEW f \in [1 .. n -> Seq(S)], NEW i \in 0 .. n - 1
    PROVE  Joined(f, i + 1) = Joined(f, i) \o f[i + 1]
<1> DEFINE m == i + 1
<1>0. /\ m \in Nat \ {0} /\ m \in 1 .. n /\ m \in 1 .. m /\ m \in Nat /\ i \in Nat
      /\ m = i + 1 /\ m - 1 = i /\ i <= m /\ (m = 1 <=> i = 0)
  OBVIOUS
<1> HIDE DEF m
<1>1. PICK h : Joining(h, f, m) /\ Joined(f, m) = h[m]
  BY <1>0, JoinedLast
<1>2. h = [k \in 1 .. m |-> IF k = 1 THEN f[k] ELSE h[k - 1] \o f[k]]
  BY <1>1, Zenon DEF Joining
<1>3. h[m] = IF i = 0 THEN f[m] ELSE h[i] \o f[m]
  <2>1. h[m] = IF m = 1 THEN f[m] ELSE h[m - 1] \o f[m]
    BY <1>0, <1>2
  <2> QED
    BY <1>0, <2>1
<1>4. CASE i = 0
  <2>1. Joined(f, i) = <<>> /\ f[m] \in Seq(S)
    BY <1>0, <1>4, JoinedNone
  <2>2. <<>> \o f[m] = f[m]
    BY <2>1, ConcatEmptySeq
  <2> QED
    BY <1>0, <1>1, <1>3, <1>4, <2>1, <2>2
<1>5. CASE i # 0
  <2>1. i \in Nat \ {0} /\ i \in 1 .. i
    BY <1>0, <1>5
  <2>2. PICK g : Joining(g, f, i) /\ Joined(f, i) = g[i]
    BY <2>1, JoinedLast
  <2>3. \A k \in 1 .. i : g[k] = h[k]
    BY <1>0, <1>1, <2>2, JoiningUnique
  <2> QED
    BY <1>0, <1>1, <1>3, <1>5, <2>1, <2>2, <2>3
<1> QED
  BY <1>4, <1>5

LEMMA JoinedType ==
    ASSUME NEW S, NEW n \in Nat, NEW f \in [1 .. n -> Seq(S)]
    PROVE  \A i \in 0 .. n : Joined(f, i) \in Seq(S)
<1> DEFINE T == {i \in 0 .. n : Joined(f, i) \notin Seq(S)}
<1> SUFFICES ASSUME T # {} PROVE FALSE
  OBVIOUS
<1>0. T \subseteq Nat
  OBVIOUS
<1>1. PICK x \in T : \A y \in T : x <= y
  BY <1>0, Least
<1>2. x # 0
  BY JoinedNone, EmptySeq
<1>3. x - 1 \in 0 .. n - 1 /\ x - 1 + 1 = x /\ ~(x <= x - 1) /\ x \in 1 .. n
  BY <1>2
<1>4. Joined(f, x - 1) \in Seq(S) /\ f[x] \in Seq(S)
  BY <1>1, <1>3
<1>5. Joined(f, x) = Joined(f, x - 1) \o f[x]
  BY <1>3, JoinedNext
<1>6. Joined(f, x) \in Seq(S)
  BY <1>4, <1>5, ConcatProperties
<1> QED
  BY <1>6

\* What follows does not move what comes before.
LEMMA JoinedPrefix ==
    ASSUME NEW S, NEW n \in Nat, NEW f \in [1 .. n -> Seq(S)], NEW i \in 0 .. n
    PROVE  \A k \in i .. n :
               /\ Len(Joined(f, i)) <= Len(Joined(f, k))
               /\ \A p \in 1 .. Len(Joined(f, i)) : Joined(f, k)[p] = Joined(f, i)[p]
<1> DEFINE J(k) == Joined(f, k)
<1> DEFINE Good(k) == /\ Len(J(i)) <= Len(J(k))
                      /\ \A p \in 1 .. Len(J(i)) : J(k)[p] = J(i)[p]
<1> DEFINE T == {k \in i .. n : ~Good(k)}
<1> SUFFICES ASSUME T # {} PROVE FALSE
  OBVIOUS
<1>0. T \subseteq Nat
  OBVIOUS
<1>t. \A k \in 0 .. n : J(k) \in Seq(S) /\ Len(J(k)) \in Nat
  <2>1. \A k \in 0 .. n : J(k) \in Seq(S)
    BY JoinedType
  <2> QED
    BY <2>1
<1>1. PICK x \in T : \A y \in T : x <= y
  BY <1>0, Least
<1>2. Good(i)
  BY <1>t
<1>3. x # i
  BY <1>2
<1>4. /\ x - 1 \in 0 .. n - 1 /\ x - 1 + 1 = x /\ ~(x <= x - 1) /\ x \in 1 .. n
      /\ x - 1 \in i .. n /\ x - 1 \in 0 .. n
  BY <1>3
<1>5. Good(x - 1)
  BY <1>1, <1>4
<1>6. J(x) = J(x - 1) \o f[x]
  BY <1>4, JoinedNext
<1> DEFINE u == J(x - 1)
<1> DEFINE v == f[x]
<1> DEFINE a == Len(u)
<1> DEFINE b == Len(v)
<1>7. u \in Seq(S) /\ v \in Seq(S) /\ a \in Nat /\ b \in Nat /\ Len(J(i)) \in Nat
  BY <1>t, <1>4
<1>8. Len(u \o v) = a + b /\ \A p \in 1 .. a : (u \o v)[p] = u[p]
  <2> HIDE DEF u, v
  <2> QED
    BY <1>7, ConcatType, ConcatLeft
<1>9. Len(J(i)) <= a /\ \A p \in 1 .. Len(J(i)) : u[p] = J(i)[p]
  BY <1>5
<1>10. Len(J(x)) = a + b /\ \A p \in 1 .. a : J(x)[p] = u[p]
  BY <1>6, <1>8
<1> HIDE DEF J, u, v, a, b
<1>11. Good(x)
  BY <1>7, <1>9, <1>10
<1> QED
  BY <1>11

\* The sequence i + 1 in the whole: its place and its elements.
LEMMA JoinedLengths ==
    ASSUME NEW S, NEW n \in Nat, NEW f \in [1 .. n -> Seq(S)], NEW i \in 0 .. n - 1
    PROVE  /\ Len(Joined(f, i)) \in Nat /\ Len(f[i + 1]) \in Nat
           /\ Len(Joined(f, i + 1)) = Len(Joined(f, i)) + Len(f[i + 1])
           /\ Len(Joined(f, i + 1)) <= Len(Joined(f, n))
<1>0. i + 1 \in 1 .. n /\ i \in 0 .. n /\ i + 1 \in 0 .. n /\ n \in i + 1 .. n
  OBVIOUS
<1> DEFINE u == Joined(f, i)
<1> DEFINE v == f[i + 1]
<1> DEFINE w == Joined(f, i + 1)
<1>1. u \in Seq(S) /\ v \in Seq(S) /\ Len(u) \in Nat /\ Len(v) \in Nat
  <2>1. u \in Seq(S)
    BY <1>0, JoinedType
  <2>2. v \in Seq(S)
    BY <1>0
  <2> QED
    BY <2>1, <2>2
<1>2. w = u \o v
  BY JoinedNext
<1>3. Len(w) <= Len(Joined(f, n))
  BY <1>0, JoinedPrefix
<1> HIDE DEF u, v, w
<1>4. Len(w) = Len(u) + Len(v)
  BY <1>1, <1>2, ConcatType
<1> QED
  BY <1>1, <1>3, <1>4 DEF u, v, w

LEMMA JoinedAt ==
    ASSUME NEW S, NEW n \in Nat, NEW f \in [1 .. n -> Seq(S)], NEW i \in 0 .. n - 1,
           NEW j \in 1 .. Len(f[i + 1])
    PROVE  Joined(f, n)[Len(Joined(f, i)) + j] = f[i + 1][j]
<1>0. i + 1 \in 1 .. n /\ i \in 0 .. n /\ i + 1 \in 0 .. n /\ n \in i + 1 .. n
  OBVIOUS
<1> DEFINE u == Joined(f, i)
<1> DEFINE v == f[i + 1]
<1> DEFINE w == Joined(f, i + 1)
<1> DEFINE z == Joined(f, n)
<1> DEFINE a == Len(u)
<1> DEFINE b == Len(v)
<1>1. u \in Seq(S) /\ v \in Seq(S) /\ a \in Nat /\ b \in Nat
  BY <1>0, JoinedType
<1>2. w = u \o v
  BY JoinedNext
<1>3. \A x \in 1 .. Len(w) : z[x] = w[x]
  BY <1>0, JoinedPrefix
<1>4. Len(w) = a + b
  BY JoinedLengths
<1>j. j \in 1 .. b
  OBVIOUS
<1> HIDE DEF u, v, w, z
<1>5. (u \o v)[a + j] = v[j]
  BY <1>1, <1>j, ConcatRight
<1>6. a + j \in 1 .. Len(w)
  BY <1>1, <1>4, <1>j
<1>7. z[a + j] = v[j]
  BY <1>2, <1>3, <1>5, <1>6
<1> QED
  BY <1>7 DEF u, v, z

\* Every element is one of one of the sequences.
PlaceOf(f, n, p) ==
    \E i \in 0 .. n - 1 : \E j \in 1 .. Len(f[i + 1]) :
        p = Len(Joined(f, i)) + j /\ Joined(f, n)[p] = f[i + 1][j]

LEMMA JoinedPlace ==
    ASSUME NEW S, NEW n \in Nat, NEW f \in [1 .. n -> Seq(S)],
           NEW p \in 1 .. Len(Joined(f, n))
    PROVE  PlaceOf(f, n, p)
<1>b. ASSUME NEW k \in 0 .. n - 1
      PROVE  /\ Len(Joined(f, k)) \in Nat /\ Len(f[k + 1]) \in Nat
             /\ Len(Joined(f, k + 1)) = Len(Joined(f, k)) + Len(f[k + 1])
             /\ \A j \in 1 .. Len(f[k + 1]) :
                    Joined(f, n)[Len(Joined(f, k)) + j] = f[k + 1][j]
  <2>1. /\ Len(Joined(f, k)) \in Nat /\ Len(f[k + 1]) \in Nat
        /\ Len(Joined(f, k + 1)) = Len(Joined(f, k)) + Len(f[k + 1])
    BY JoinedLengths
  <2>2. ASSUME NEW j \in 1 .. Len(f[k + 1])
        PROVE  Joined(f, n)[Len(Joined(f, k)) + j] = f[k + 1][j]
    BY JoinedAt, ZenonT(30)
  <2> QED
    BY <2>1, <2>2
<1> DEFINE T == {k \in 0 .. n : p <= Len(Joined(f, k))}
<1>0. T \subseteq Nat /\ n \in T
  <2>1. Joined(f, n) \in Seq(S)
    BY JoinedType
  <2> QED
    BY <2>1
<1>1. PICK x \in T : \A y \in T : x <= y
  BY <1>0, Least
<1>2. x # 0
  BY JoinedNone, p <= Len(Joined(f, x))
<1>3. x - 1 \in 0 .. n - 1 /\ x - 1 + 1 = x /\ ~(x <= x - 1) /\ x - 1 \in 0 .. n
  BY <1>2
<1>4. ~(p <= Len(Joined(f, x - 1)))
  BY <1>1, <1>3
<1> DEFINE i == x - 1
<1> DEFINE a == Len(Joined(f, i))
<1> DEFINE b == Len(f[i + 1])
<1>i. i \in 0 .. n - 1 /\ i + 1 = x
  BY <1>3
<1>5. /\ i \in 0 .. n - 1 /\ a \in Nat /\ b \in Nat /\ Len(Joined(f, i + 1)) = a + b
      /\ \A j \in 1 .. b : Joined(f, n)[a + j] = f[i + 1][j]
  <2> HIDE DEF i
  <2> QED
    BY <1>i, <1>b
<1>6. p <= Len(Joined(f, i + 1)) /\ ~(p <= a)
  BY <1>i, <1>4
<1>7. p \in Nat
  <2>1. Joined(f, n) \in Seq(S)
    BY JoinedType
  <2> QED
    BY <2>1
<1> HIDE DEF i, a, b
<1>8. p - a \in 1 .. b /\ p = a + (p - a)
  BY <1>5, <1>6, <1>7
<1>9. Joined(f, n)[p] = f[i + 1][p - a]
  BY <1>5, <1>8
<1> QED
  BY <1>5, <1>8, <1>9 DEF a, b, PlaceOf

-----------------------------------------------------------------------------
(* What optparse_permute() does to the array *)

LEMMA SubSeqCells ==
    ASSUME NEW S, NEW a \in Seq(S), NEW c \in Nat, NEW d \in Nat,
           c >= 1, c <= d + 1, d <= Len(a)
    PROVE  /\ SubSeq(a, c, d) \in Seq(S)
           /\ Len(SubSeq(a, c, d)) = d + 1 - c
           /\ \A j \in 1 .. d + 1 - c : SubSeq(a, c, d)[j] = a[c + j - 1]
<1>1. \A j \in c .. d : a[j] \in S
  OBVIOUS
<1>2. /\ SubSeq(a, c, d) \in Seq(S)
      /\ Len(SubSeq(a, c, d)) = IF c <= d THEN d - c + 1 ELSE 0
      /\ \A j \in 1 .. d - c + 1 : SubSeq(a, c, d)[j] = a[c + j - 1]
  BY <1>1, SubSeqProperties
<1>3. d - c + 1 = d + 1 - c /\ (~(c <= d) => d + 1 - c = 0)
  OBVIOUS
<1> QED
  BY <1>2, <1>3

\* The place an argument comes from when used ones are moved from p to q.
Source(x, q, p, used) ==
    IF x < q THEN x
    ELSE IF x < q + used THEN x + (p - q)
    ELSE IF x < p + used THEN x - used
    ELSE x

LEMMA PermuteCells ==
    ASSUME NEW S, NEW a \in Seq(S), NEW q \in Nat, NEW p \in Nat, NEW used \in Nat,
           q >= 1, q <= p, p + used <= Len(a) + 1
    PROVE  /\ Permute(a, q, p, used) \in Seq(S)
           /\ Len(Permute(a, q, p, used)) = Len(a)
           /\ \A x \in 1 .. Len(a) :
                  /\ Permute(a, q, p, used)[x] = a[Source(x, q, p, used)]
                  /\ Source(x, q, p, used) \in 1 .. Len(a)
<1> DEFINE n == Len(a)
<1> DEFINE A == SubSeq(a, 1, q - 1)
<1> DEFINE B == SubSeq(a, p, p + used - 1)
<1> DEFINE C == SubSeq(a, q, p - 1)
<1> DEFINE D == SubSeq(a, p + used, n)
<1> DEFINE la == q - 1
<1> DEFINE lc == p - q
<1> DEFINE ld == n + 1 - (p + used)
<1>0. /\ n \in Nat /\ la \in Nat /\ lc \in Nat /\ ld \in Nat
      /\ q = la + 1 /\ p = la + lc + 1 /\ n = la + used + lc + ld
  OBVIOUS
<1>1. /\ A \in Seq(S) /\ Len(A) = la
      /\ \A j \in 1 .. la : A[j] = a[j]
  <2>1. q - 1 \in Nat /\ 1 <= (q - 1) + 1 /\ q - 1 <= Len(a) /\ (q - 1) + 1 - 1 = la
    OBVIOUS
  <2>2. /\ A \in Seq(S) /\ Len(A) = (q - 1) + 1 - 1
        /\ \A j \in 1 .. (q - 1) + 1 - 1 : A[j] = a[1 + j - 1]
    BY <2>1, SubSeqCells
  <2>3. \A j \in 1 .. la : 1 + j - 1 = j
    OBVIOUS
  <2> QED
    BY <2>1, <2>2, <2>3
<1>2. /\ B \in Seq(S) /\ Len(B) = used
      /\ \A j \in 1 .. used : B[j] = a[la + lc + j]
  <2>1. /\ p + used - 1 \in Nat /\ p >= 1 /\ p <= (p + used - 1) + 1
        /\ p + used - 1 <= Len(a) /\ (p + used - 1) + 1 - p = used
    OBVIOUS
  <2>2. /\ B \in Seq(S) /\ Len(B) = (p + used - 1) + 1 - p
        /\ \A j \in 1 .. (p + used - 1) + 1 - p : B[j] = a[p + j - 1]
    BY <2>1, SubSeqCells
  <2>3. \A j \in 1 .. used : p + j - 1 = la + lc + j
    OBVIOUS
  <2> QED
    BY <2>1, <2>2, <2>3
<1>3. /\ C \in Seq(S) /\ Len(C) = lc
      /\ \A j \in 1 .. lc : C[j] = a[la + j]
  <2>1. /\ p - 1 \in Nat /\ q <= (p - 1) + 1
        /\ p - 1 <= Len(a) /\ (p - 1) + 1 - q = lc
    OBVIOUS
  <2>2. /\ C \in Seq(S) /\ Len(C) = (p - 1) + 1 - q
        /\ \A j \in 1 .. (p - 1) + 1 - q : C[j] = a[q + j - 1]
    BY <2>1, SubSeqCells
  <2>3. \A j \in 1 .. lc : q + j - 1 = la + j
    OBVIOUS
  <2> QED
    BY <2>1, <2>2, <2>3
<1>4. /\ D \in Seq(S) /\ Len(D) = ld
      /\ \A j \in 1 .. ld : D[j] = a[la + used + lc + j]
  <2> DEFINE s == p + used
  <2>1. /\ s \in Nat /\ s >= 1 /\ s <= n + 1 /\ n \in Nat
        /\ n <= Len(a)
    OBVIOUS
  <2>2. /\ SubSeq(a, s, n) \in Seq(S) /\ Len(SubSeq(a, s, n)) = n + 1 - s
        /\ \A j \in 1 .. n + 1 - s : SubSeq(a, s, n)[j] = a[s + j - 1]
    <3> HIDE DEF n, s
    <3> QED
      BY <2>1, SubSeqCells
  <2>3. \A j \in 1 .. ld : (p + used) + j - 1 = la + used + lc + j
    OBVIOUS
  <2> QED
    BY <2>2, <2>3
<1>5. Permute(a, q, p, used) = A \o B \o C \o D
  BY DEF Permute
<1> HIDE DEF n, A, B, C, D, la, lc, ld
<1> DEFINE E == A \o B
<1> DEFINE F == E \o C
<1> DEFINE G == F \o D
<1> DEFINE lf == la + used + lc
<1>6. /\ E \in Seq(S) /\ Len(E) = la + used
      /\ \A j \in 1 .. la : E[j] = a[j]
      /\ \A j \in 1 .. used : E[la + j] = a[la + lc + j]
  <2>0. /\ la \in Nat /\ used \in Nat /\ A \in Seq(S) /\ B \in Seq(S)
        /\ Len(A) = la /\ Len(B) = used
    BY <1>0, <1>1, <1>2
  <2>1. E \in Seq(S) /\ Len(E) = la + used
    BY <2>0, ConcatType
  <2>2. \A j \in 1 .. la : E[j] = A[j]
    BY <2>0, ConcatLeft
  <2>3. ASSUME NEW j \in 1 .. used PROVE E[la + j] = B[j]
    <3>1. (A \o B)[la + j] = B[j]
      BY <2>0, ConcatRight
    <3> QED
      BY <3>1
  <2> QED
    BY <1>1, <1>2, <2>1, <2>2, <2>3
<1> DEFINE le == la + used
<1>e. le \in Nat /\ Len(E) = le /\ lf = le + lc /\ lf \in Nat /\ n = lf + ld
  BY <1>0, <1>6
<1> HIDE DEF E, le, lf
<1>7. /\ F \in Seq(S) /\ Len(F) = lf
      /\ \A j \in 1 .. le : F[j] = E[j]
      /\ \A j \in 1 .. lc : F[le + j] = a[la + j]
  <2>0. /\ le \in Nat /\ lc \in Nat /\ E \in Seq(S) /\ C \in Seq(S)
        /\ Len(E) = le /\ Len(C) = lc
    BY <1>0, <1>3, <1>6, <1>e
  <2>1. F \in Seq(S) /\ Len(F) = le + lc
    BY <2>0, ConcatType
  <2>2. \A j \in 1 .. le : F[j] = E[j]
    BY <2>0, ConcatLeft
  <2>3. ASSUME NEW j \in 1 .. lc PROVE F[le + j] = C[j]
    <3>1. (E \o C)[le + j] = C[j]
      BY <2>0, ConcatRight
    <3> QED
      BY <3>1
  <2> QED
    BY <1>3, <1>e, <2>1, <2>2, <2>3
<1> HIDE DEF F
<1>8. /\ G \in Seq(S) /\ Len(G) = n
      /\ \A j \in 1 .. lf : G[j] = F[j]
      /\ \A j \in 1 .. ld : G[lf + j] = D[j]
  <2>0. /\ lf \in Nat /\ ld \in Nat /\ F \in Seq(S) /\ D \in Seq(S)
        /\ Len(F) = lf /\ Len(D) = ld
    BY <1>0, <1>4, <1>7, <1>e
  <2>1. G \in Seq(S) /\ Len(G) = lf + ld
    BY <2>0, ConcatType
  <2>2. \A j \in 1 .. lf : G[j] = F[j]
    BY <2>0, ConcatLeft
  <2>3. ASSUME NEW j \in 1 .. ld PROVE G[lf + j] = D[j]
    <3>1. (F \o D)[lf + j] = D[j]
      BY <2>0, ConcatRight
    <3> QED
      BY <3>1
  <2> QED
    BY <1>e, <2>1, <2>2, <2>3
<1>9. G = Permute(a, q, p, used)
  BY <1>5 DEF E, F
<1> HIDE DEF G
<1> USE DEF le, lf
<1>10. ASSUME NEW x \in 1 .. n
       PROVE  /\ G[x] = a[Source(x, q, p, used)]
              /\ Source(x, q, p, used) \in 1 .. n
  <2>1. CASE x < q
    <3>1. x \in 1 .. la /\ x \in 1 .. le /\ x \in 1 .. lf
      BY <2>1, <1>0
    <3>2. G[x] = a[x]
      BY <3>1, <1>6, <1>7, <1>8
    <3> QED
      BY <2>1, <3>2 DEF Source
  <2>2. CASE ~(x < q) /\ x < q + used
    <3> DEFINE j == x - la
    <3>1. j \in 1 .. used /\ x = la + j /\ x \in 1 .. le /\ x \in 1 .. lf
      BY <2>2, <1>0
    <3>2. x + (p - q) = la + lc + j /\ x + (p - q) \in 1 .. n
      BY <3>1, <1>0
    <3> HIDE DEF j
    <3>3. G[x] = a[la + lc + j]
      BY <3>1, <1>6, <1>7, <1>8
    <3>4. Source(x, q, p, used) = x + (p - q)
      BY <2>2 DEF Source
    <3> QED
      BY <3>2, <3>3, <3>4
  <2>3. CASE ~(x < q + used) /\ x < p + used
    <3> DEFINE j == x - le
    <3>1. j \in 1 .. lc /\ x = le + j /\ x \in 1 .. lf
      BY <2>3, <1>0
    <3>2. x - used = la + j /\ x - used \in 1 .. n /\ ~(x < q)
      BY <3>1, <2>3, <1>0
    <3>3. Source(x, q, p, used) = x - used
      BY <2>3, <3>2 DEF Source
    <3>4. F[le + j] = a[la + j]
      <4> HIDE DEF j, le
      <4> QED
        BY <3>1, <1>7
    <3>5. G[x] = F[x]
      BY <3>1, <1>8
    <3> HIDE DEF j, le
    <3> QED
      BY <3>1, <3>2, <3>3, <3>4, <3>5
  <2>4. CASE ~(x < p + used)
    <3> DEFINE j == x - lf
    <3>1. j \in 1 .. ld /\ x = lf + j
      BY <2>4, <1>0
    <3>2. la + used + lc + j = x /\ ~(x < q) /\ ~(x < q + used)
      BY <3>1, <2>4, <1>0
    <3>3. Source(x, q, p, used) = x
      BY <2>4, <3>2 DEF Source
    <3>4. G[lf + j] = D[j] /\ D[j] = a[la + used + lc + j]
      <4> HIDE DEF j
      <4> QED
        BY <3>1, <1>4, <1>8
    <3> HIDE DEF j, lf
    <3> QED
      BY <3>1, <3>2, <3>3, <3>4
  <2> QED
    BY <2>1, <2>2, <2>3, <2>4
<1> QED
  BY <1>8, <1>9, <1>10 DEF n

\* Nothing is lost, nothing is added.
LEMMA PermuteSet ==
    ASSUME NEW S, NEW a \in Seq(S), NEW q \in Nat, NEW p \in Nat, NEW used \in Nat,
           q >= 1, q <= p, p + used <= Len(a) + 1
    PROVE  ToSet(Permute(a, q, p, used)) = ToSet(a)
<1> DEFINE b == Permute(a, q, p, used)
<1>1. /\ b \in Seq(S) /\ Len(b) = Len(a)
      /\ \A x \in 1 .. Len(a) : /\ b[x] = a[Source(x, q, p, used)]
                                /\ Source(x, q, p, used) \in 1 .. Len(a)
  BY PermuteCells
<1>2. ASSUME NEW y \in 1 .. Len(a)
      PROVE  \E x \in 1 .. Len(a) : Source(x, q, p, used) = y
  <2>0. Len(a) \in Nat
    OBVIOUS
  <2>1. CASE y < q \/ y >= p + used
    <3>1. Source(y, q, p, used) = y
      BY <2>1 DEF Source
    <3> QED
      BY <3>1
  <2>2. CASE ~(y < q) /\ y < p
    <3>1. y + used \in 1 .. Len(a)
      BY <2>0, <2>2
    <3>2. Source(y + used, q, p, used) = y
      BY <2>2 DEF Source
    <3> QED
      BY <3>1, <3>2
  <2>3. CASE ~(y < p) /\ y < p + used
    <3>1. y - (p - q) \in 1 .. Len(a)
      BY <2>0, <2>3
    <3>2. Source(y - (p - q), q, p, used) = y
      BY <2>3 DEF Source
    <3> QED
      BY <3>1, <3>2
  <2> QED
    BY <2>1, <2>2, <2>3
<1> HIDE DEF b
<1>3. DOMAIN b = 1 .. Len(a) /\ DOMAIN a = 1 .. Len(a)
  BY <1>1
<1>4. ToSet(b) \subseteq ToSet(a)
  BY <1>1, <1>3 DEF ToSet
<1>5. ASSUME NEW e \in ToSet(a) PROVE e \in ToSet(b)
  <2>1. PICK y \in 1 .. Len(a) : a[y] = e
    BY <1>3 DEF ToSet
  <2>2. PICK x \in 1 .. Len(a) : Source(x, q, p, used) = y
    BY <1>2
  <2>3. b[x] = e
    BY <1>1, <2>1, <2>2
  <2> QED
    BY <1>3, <2>3 DEF ToSet
<1> QED
  BY <1>4, <1>5 DEF b

-----------------------------------------------------------------------------
(* Types: the parser stays in its array, whatever it returns *)

ArgsTypeInv ==
    /\ ParserTypeOK
    /\ items \in Seq(Items) /\ ending \in Endings
    /\ argv \in Seq(Argument) /\ save \in Seq(Argument)

WordsOf == [k \in 1 .. Len(items) |-> items[k].words]

LEMMA WordsType ==
    ASSUME items \in Seq(Items)
    PROVE  /\ Len(items) \in Nat /\ WordsOf \in [1 .. Len(items) -> Seq(Argument)]
           /\ Words(items) = Joined(WordsOf, Len(items))
           /\ Words(items) \in Seq(Argument)
<1>1. Len(items) \in Nat /\ \A k \in 1 .. Len(items) : items[k] \in Items
  OBVIOUS
<1>2. WordsOf \in [1 .. Len(items) -> Seq(Argument)]
  BY <1>1, ItemsAssumption DEF WordsOf
<1>3. Words(items) = Joined(WordsOf, Len(items))
  <2>1. [k \in 1 .. Len(items) |-> WordsOf[k]] = [k \in 1 .. Len(items) |-> items[k].words]
    BY DEF WordsOf
  <2> QED
    BY <2>1 DEF Words, Joined
<1>4. Len(items) \in 0 .. Len(items)
  BY <1>1
<1> QED
  BY <1>1, <1>2, <1>3, <1>4, JoinedType

LEMMA EndingType ==
    ASSUME ending \in Endings
    PROVE  ending.words \in Seq(Argument) /\ ending.command \in Seq(Argument)
BY EndingsAssumption

\* The option a call reads is the first one ahead.
LEMMA Ahead ==
    ASSUME NEW a \in Seq(Argument), optind \in 1 .. Len(a) + 1
    PROVE  /\ NextOption(a) \in optind .. Len(a) + 1
           /\ NextOption(a) <= Len(a) => a[NextOption(a)].kind # "word"
           /\ \A x \in optind .. NextOption(a) - 1 : a[x].kind = "word"
<1> DEFINE ahead == {p \in optind .. Len(a) : a[p].kind # "word"}
<1>0. ahead \subseteq Nat /\ Len(a) \in Nat /\ optind \in Nat
  OBVIOUS
<1>1. NextOption(a) = IF ahead = {} THEN Len(a) + 1 ELSE Min(ahead)
  BY DEF NextOption
<1>2. CASE ahead = {}
  <2>1. NextOption(a) = Len(a) + 1
    BY <1>1, <1>2
  <2>2. \A x \in optind .. Len(a) : a[x].kind = "word"
    BY <1>2
  <2> QED
    BY <1>0, <2>1, <2>2
<1>3. CASE ahead # {}
  <2>1. /\ NextOption(a) \in ahead /\ \A x \in ahead : NextOption(a) <= x
    BY <1>0, <1>1, <1>3, MinIn
  <2>2. ASSUME NEW x \in optind .. NextOption(a) - 1 PROVE a[x].kind = "word"
    <3>1. x \in optind .. Len(a) /\ ~(NextOption(a) <= x)
      BY <1>0, <2>1
    <3>2. x \notin ahead
      BY <2>1, <3>1
    <3> QED
      BY <3>1, <3>2
  <2> QED
    BY <1>0, <2>1, <2>2
<1> QED
  BY <1>2, <1>3

LEMMA ShortBounds ==
    ASSUME NEW cluster, NEW next, NEW table, subopt \in Nat
    PROVE  /\ ShortOption(cluster, next, table).used \in {0, 1, 2}
           /\ ShortOption(cluster, next, table).used = 2 => next # NoArg
           /\ ShortOption(cluster, next, table).subopt \in Nat
<1> DEFINE known == IF cluster = <<>> THEN {} ELSE OfShort(table, cluster[1])
<1> DEFINE r == ShortOption(cluster, next, table)
<1>1. CASE known = {}
  <2>1. r = UnknownOption
    BY <1>1 DEF ShortOption
  <2> QED
    BY <2>1 DEF UnknownOption, Return
<1>2. CASE known # {} /\ ~Found(known).required
  <2>1. r = FlagOption(cluster)
    BY <1>2 DEF ShortOption
  <2>2. /\ FlagOption(cluster).used \in {0, 1}
        /\ FlagOption(cluster).subopt \in Nat
    BY DEF FlagOption, Return
  <2> QED
    BY <2>1, <2>2
<1>3. CASE known # {} /\ Found(known).required
  <2>1. r = ArgOption(cluster, next)
    BY <1>3 DEF ShortOption
  <2>2. CASE Len(cluster) > 1
    <3>1. r = Return(cluster[1], [kind |-> "word", text |-> Tail(cluster)], 1, 0)
      BY <2>1, <2>2 DEF ArgOption
    <3> QED
      BY <3>1 DEF Return
  <2>3. CASE ~(Len(cluster) > 1) /\ Len(cluster) = 1 /\ next # NoArg
    <3>1. r = Return(cluster[1], next, 2, 0)
      BY <2>1, <2>3 DEF ArgOption
    <3> QED
      BY <2>3, <3>1 DEF Return
  <2>4. CASE ~(Len(cluster) > 1) /\ ~(Len(cluster) = 1 /\ next # NoArg)
    <3>1. r = Return("?", NoArg, 1, 0)
      BY <2>1, <2>4 DEF ArgOption
    <3> QED
      BY <3>1 DEF Return
  <2> QED
    BY <2>2, <2>3, <2>4
<1> QED
  BY <1>1, <1>2, <1>3

\* What a long option returns, case by case.
LEMMA LongReturns ==
    ASSUME NEW text, NEW next, NEW table
    PROVE  LET known == OfLong(table, text[1])
               o     == Found(known)
           IN  /\ known = {} \/ (Len(text) = 2 /\ ~o.required) =>
                      LongOption(text, next, table) = UnknownOption
               /\ known # {} /\ Len(text) = 2 /\ o.required =>
                      LongOption(text, next, table)
                          = Return(o.shortname, Word(text[2]), 1, subopt)
               /\ known # {} /\ Len(text) = 1 /\ ~o.required =>
                      LongOption(text, next, table)
                          = Return(o.shortname, NoArg, 1, subopt)
               /\ ~(known = {} \/ (Len(text) = 2 /\ ~o.required))
                  /\ ~(known # {} /\ Len(text) = 2 /\ o.required)
                  /\ ~(known # {} /\ Len(text) = 1 /\ ~o.required) =>
                      LongOption(text, next, table) =
                          IF next = NoArg THEN UnknownOption
                                          ELSE Return(o.shortname, next, 2, subopt)
BY DEF LongOption

LEMMA LongBounds ==
    ASSUME NEW text, NEW next, NEW table, subopt \in Nat
    PROVE  /\ LongOption(text, next, table).used \in {0, 1, 2}
           /\ LongOption(text, next, table).used = 2 => next # NoArg
           /\ LongOption(text, next, table).subopt \in Nat
<1> DEFINE r == LongOption(text, next, table)
<1> DEFINE o == Found(OfLong(table, text[1]))
<1>1. \/ r = UnknownOption
      \/ r = Return(o.shortname, Word(text[2]), 1, subopt)
      \/ r = Return(o.shortname, NoArg, 1, subopt)
      \/ next # NoArg /\ r = Return(o.shortname, next, 2, subopt)
  BY LongReturns
<1> HIDE DEF r
<1>2. /\ r.used \in {0, 1, 2} /\ r.subopt \in Nat
      /\ r.used = 2 => next # NoArg
  BY <1>1 DEF UnknownOption, Return
<1> QED
  BY <1>2 DEF r

NextOf(a, p) == IF p < Len(a) THEN a[p + 1] ELSE NoArg

\* What a call may return, by the argument it meets.
LEMMA ParseCases ==
    ASSUME NEW a \in Seq(Argument), NEW p \in 1 .. Len(a) + 1,
           p <= Len(a) => a[p].kind # "word",
           NEW table, NEW r \in Parse(a, p, table)
    PROVE  \/ p > Len(a) /\ r = Return("-1", NoArg, 0, subopt)
           \/ /\ p <= Len(a) /\ a[p].kind = "dashdash"
              /\ r = Return("-1", NoArg, 1, subopt)
           \/ /\ p <= Len(a) /\ a[p].kind = "short"
              /\ \E c \in Rest(a[p].text) : r = ShortOption(c, NextOf(a, p), table)
           \/ /\ p <= Len(a) /\ a[p].kind = "long"
              /\ r = LongOption(a[p].text, NextOf(a, p), table)
<1>0. Len(a) \in Nat /\ p \in Nat
  OBVIOUS
<1>1. CASE p > Len(a)
  <2>1. Parse(a, p, table) = {Return("-1", NoArg, 0, subopt)}
    BY <1>1 DEF Parse
  <2> QED
    BY <1>1, <2>1
<1>2. CASE ~(p > Len(a))
  <2>0. p <= Len(a) /\ p \in 1 .. Len(a)
    BY <1>0, <1>2
  <2>1. a[p] \in Argument
    BY <2>0
  <2>2. a[p].kind \in {"short", "long", "dashdash"}
    BY <2>0, <2>1 DEF Argument
  <2>3. CASE a[p].kind = "dashdash"
    <3>1. Parse(a, p, table) = {Return("-1", NoArg, 1, subopt)}
      BY <1>2, <2>3 DEF Parse
    <3> QED
      BY <2>0, <2>3, <3>1
  <2>4. CASE a[p].kind = "short"
    <3>1. Parse(a, p, table) = {ShortOption(c, NextOf(a, p), table) : c \in Rest(a[p].text)}
      BY <1>2, <2>4 DEF Parse, NextOf
    <3> QED
      BY <2>0, <2>4, <3>1
  <2>5. CASE a[p].kind = "long"
    <3>1. Parse(a, p, table) = {LongOption(a[p].text, NextOf(a, p), table)}
      BY <1>2, <2>5 DEF Parse, NextOf
    <3> QED
      BY <2>0, <2>5, <3>1
  <2> QED
    BY <2>2, <2>3, <2>4, <2>5
<1> QED
  BY <1>1, <1>2

LEMMA CallType ==
    ASSUME NEW a \in Seq(Argument), optind \in 1 .. Len(a) + 1, subopt \in Nat,
           NEW table, NEW call \in Calls(a, table)
    PROVE  /\ NextOption(a) \in optind .. Len(a) + 1
           /\ call.r \in Parse(a, NextOption(a), table)
           /\ call.r.used \in Nat /\ NextOption(a) + call.r.used <= Len(a) + 1
           /\ call.r.subopt \in Nat
           /\ call.array = Permute(a, optind, NextOption(a), call.r.used)
<1> DEFINE p == NextOption(a)
<1>1. p \in optind .. Len(a) + 1 /\ (p <= Len(a) => a[p].kind # "word")
  BY Ahead
<1>2. call.r \in Parse(a, p, table) /\ call.array = Permute(a, optind, p, call.r.used)
  <2>1. PICK r \in Parse(a, p, table) :
            call = [r |-> r, array |-> Permute(a, optind, p, r.used)]
    BY DEF Calls
  <2> QED
    BY <2>1
<1> DEFINE r == call.r
<1> HIDE DEF p, r
<1>3. p \in 1 .. Len(a) + 1 /\ Len(a) \in Nat
  BY <1>1
<1>4. \/ p > Len(a) /\ r = Return("-1", NoArg, 0, subopt)
      \/ /\ p <= Len(a) /\ r = Return("-1", NoArg, 1, subopt)
      \/ /\ p <= Len(a)
         /\ \E c : r = ShortOption(c, NextOf(a, p), table)
      \/ /\ p <= Len(a)
         /\ r = LongOption(a[p].text, NextOf(a, p), table)
  <2>1. r \in Parse(a, p, table)
    BY <1>2 DEF r
  <2> QED
    BY <1>1, <1>3, <2>1, ParseCases
<1>5. /\ r.used \in {0, 1, 2} /\ r.subopt \in Nat
      /\ r.used = 2 => NextOf(a, p) # NoArg
      /\ r.used # 0 => p <= Len(a)
  <2>1. CASE r = Return("-1", NoArg, 0, subopt)
    BY <2>1 DEF Return
  <2>2. CASE p <= Len(a) /\ r = Return("-1", NoArg, 1, subopt)
    BY <2>2 DEF Return
  <2>3. CASE p <= Len(a) /\ \E c : r = ShortOption(c, NextOf(a, p), table)
    BY <2>3, ShortBounds
  <2>4. CASE p <= Len(a) /\ r = LongOption(a[p].text, NextOf(a, p), table)
    BY <2>4, LongBounds
  <2> QED
    BY <1>4, <2>1, <2>2, <2>3, <2>4
<1>6. r.used = 2 => p < Len(a)
  BY <1>5 DEF NextOf
<1>7. r.used \in Nat /\ p + r.used <= Len(a) + 1
  BY <1>3, <1>5, <1>6
<1> QED
  BY <1>1, <1>2, <1>5, <1>7 DEF p, r

\* A call leaves the parser in an array of the same arguments.
LEMMA CallKeeps ==
    ASSUME NEW a \in Seq(Argument), optind \in 1 .. Len(a) + 1, subopt \in Nat,
           NEW table, NEW call \in Calls(a, table)
    PROVE  /\ call.array \in Seq(Argument) /\ Len(call.array) = Len(a)
           /\ ToSet(call.array) = ToSet(a)
           /\ optind + call.r.used \in 1 .. Len(a) + 1 /\ call.r.subopt \in Nat
<1> DEFINE p == NextOption(a)
<1> DEFINE used == call.r.used
<1>1. /\ p \in optind .. Len(a) + 1 /\ used \in Nat /\ p + used <= Len(a) + 1
      /\ call.r.subopt \in Nat /\ call.array = Permute(a, optind, p, used)
  BY CallType
<1> HIDE DEF p, used
<1>2. Len(a) \in Nat /\ optind \in Nat /\ p \in Nat /\ optind >= 1 /\ optind <= p
  BY <1>1
<1>a. /\ a \in Seq(Argument) /\ optind \in Nat /\ p \in Nat /\ used \in Nat
      /\ optind >= 1 /\ optind <= p /\ p + used <= Len(a) + 1
  BY <1>1, <1>2
<1>3. Permute(a, optind, p, used) \in Seq(Argument) /\ Len(Permute(a, optind, p, used)) = Len(a)
  BY <1>a, PermuteCells
<1>4. ToSet(Permute(a, optind, p, used)) = ToSet(a)
  BY <1>a, PermuteSet
<1>5. optind + used \in 1 .. Len(a) + 1
  BY <1>1, <1>2
<1> QED
  BY <1>1, <1>3, <1>4, <1>5 DEF used

LEMMA SameWords ==
    ASSUME UNCHANGED meant
    PROVE  /\ items' = items /\ ending' = ending /\ Words(items)' = Words(items)
           /\ Words(items') = Words(items)
BY DEF meant, Words

LEMMA InitTypes == ASSUME ArgsInit PROVE ArgsTypeInv
<1>1. /\ argv = Words(items) \o ending.words /\ save = argv /\ ending \in Endings
      /\ optind = 1 /\ subopt = 0 /\ pass = "main" /\ application = 0
  BY DEF ArgsInit
<1>2. items \in Seq(Items)
  <2>1. PICK k \in 0 .. MaxItems : items \in [1 .. k -> Items]
    BY DEF ArgsInit
  <2>2. k \in Nat
    BY MaxItemsAssumption
  <2> QED
    BY <2>1, <2>2
<1>3. Words(items) \in Seq(Argument) /\ ending.words \in Seq(Argument)
  BY <1>1, <1>2, WordsType, EndingType
<1> DEFINE u == Words(items)
<1> DEFINE v == ending.words
<1> HIDE DEF u, v
<1>4. /\ u \in Seq(Argument) /\ v \in Seq(Argument) /\ Len(u) \in Nat /\ Len(v) \in Nat
      /\ argv = u \o v
  BY <1>1, <1>3 DEF u, v
<1>5. argv \in Seq(Argument) /\ Len(argv) = Len(u) + Len(v)
  BY <1>4, ConcatType
<1>6. ToSet(argv) = ToSet(u) \cup ToSet(v)
  <2>0. /\ DOMAIN argv = 1 .. Len(u) + Len(v) /\ DOMAIN u = 1 .. Len(u)
        /\ DOMAIN v = 1 .. Len(v)
    BY <1>4, <1>5
  <2>1. \A j \in 1 .. Len(u) : argv[j] = u[j]
    BY <1>4, ConcatLeft
  <2>2. ASSUME NEW j \in 1 .. Len(v) PROVE argv[Len(u) + j] = v[j]
    <3>1. (u \o v)[Len(u) + j] = v[j]
      BY <1>4, ConcatRight
    <3> QED
      BY <1>4, <3>1
  <2>3. ASSUME NEW j \in 1 .. Len(u) + Len(v)
        PROVE  argv[j] \in ToSet(u) \cup ToSet(v)
    <3>1. CASE j <= Len(u)
      BY <1>4, <2>0, <2>1, <3>1 DEF ToSet
    <3>2. CASE ~(j <= Len(u))
      <4>1. j - Len(u) \in 1 .. Len(v) /\ Len(u) + (j - Len(u)) = j
        BY <1>4, <3>2
      <4>2. argv[j] = v[j - Len(u)]
        BY <2>2, <4>1
      <4> QED
        BY <2>0, <4>1, <4>2 DEF ToSet
    <3> QED
      BY <3>1, <3>2
  <2>4. ToSet(argv) \subseteq ToSet(u) \cup ToSet(v)
    BY <2>0, <2>3 DEF ToSet
  <2>5. ToSet(u) \subseteq ToSet(argv)
    BY <1>4, <2>0, <2>1 DEF ToSet
  <2>6. ASSUME NEW e \in ToSet(v) PROVE e \in ToSet(argv)
    <3>1. PICK j \in 1 .. Len(v) : v[j] = e
      BY <2>0 DEF ToSet
    <3>2. Len(u) + j \in 1 .. Len(u) + Len(v) /\ argv[Len(u) + j] = e
      BY <1>4, <2>2, <3>1
    <3> QED
      BY <2>0, <3>2 DEF ToSet
  <2> QED
    BY <2>4, <2>5, <2>6
<1>7. ParserTypeOK
  BY <1>1, <1>4, <1>5, <1>6 DEF ParserTypeOK, u, v
<1> QED
  BY <1>1, <1>2, <1>5, <1>7 DEF ArgsTypeInv

\* Where main finds the command: behind the first "--" that something follows.
Dashes == {k \in 1 .. Len(save) - 1 : save[k] = DashDash}

LEMMA CommandPlace ==
    ASSUME FindCommand, save \in Seq(Argument)
    PROVE  /\ application' = IF Dashes = {} THEN 0 ELSE Min(Dashes) + 1
           /\ application' \in 0 .. Len(save)
<1>0. Dashes \subseteq Nat /\ Len(save) \in Nat
  BY DEF Dashes
<1>1. application' = IF (IF Dashes # {} THEN Min(Dashes) ELSE 0) = 0 THEN 0
                     ELSE (IF Dashes # {} THEN Min(Dashes) ELSE 0) + 1
  BY DEF FindCommand, SelectInSubSeq, Dashes
<1>2. CASE Dashes = {}
  BY <1>0, <1>1, <1>2
<1>3. CASE Dashes # {}
  <2>1. Min(Dashes) \in Dashes
    BY <1>0, <1>3, MinIn
  <2>2. Min(Dashes) \in 1 .. Len(save) - 1
    BY <2>1 DEF Dashes
  <2> DEFINE m == Min(Dashes)
  <2> HIDE DEF m
  <2>3. m # 0 /\ m + 1 \in 0 .. Len(save)
    BY <1>0, <2>2 DEF m
  <2>4. application' = m + 1
    BY <1>1, <1>3, <2>3 DEF m
  <2> QED
    BY <1>3, <2>3, <2>4 DEF m
<1> QED
  BY <1>2, <1>3

LEMMA TypesKept == ASSUME ArgsTypeInv, [ArgsNext]_argsVars PROVE ArgsTypeInv'
<1>0. /\ items \in Seq(Items) /\ ending \in Endings
      /\ argv \in Seq(Argument) /\ save \in Seq(Argument)
      /\ pass \in {"main", "command", "sensors", "start", "run", "exit"}
      /\ optind \in 1 .. Len(argv) + 1 /\ subopt \in Nat
      /\ application \in 0 .. Len(argv) /\ Len(save) = Len(argv)
      /\ Len(argv) = Len(Words(items)) + Len(ending.words)
      /\ ToSet(argv) = ToSet(Words(items)) \cup ToSet(ending.words)
      /\ ToSet(save) = ToSet(Words(items)) \cup ToSet(ending.words)
  BY DEF ArgsTypeInv, ParserTypeOK
<1> SUFFICES /\ items' = items /\ ending' = ending
             /\ argv' \in Seq(Argument) /\ save' \in Seq(Argument)
             /\ pass' \in {"main", "command", "sensors", "start", "run", "exit"}
             /\ optind' \in 1 .. Len(argv) + 1 /\ subopt' \in Nat
             /\ application' \in 0 .. Len(argv)
             /\ Len(argv') = Len(argv) /\ Len(save') = Len(save)
             /\ ToSet(argv') = ToSet(argv) /\ ToSet(save') = ToSet(save)
  <2>1. ASSUME items' = items PROVE Words(items)' = Words(items)
    BY <2>1 DEF Words
  <2>2. ASSUME items' = items PROVE Words(items') = Words(items)
    BY <2>2
  <2> QED
    BY <1>0, <2>1, <2>2 DEF ArgsTypeInv, ParserTypeOK
<1>1. CASE MainOption
  <2>1. PICK call \in Calls(argv, opts) :
            /\ argv' = call.array /\ optind' = optind + call.r.used
            /\ subopt' = call.r.subopt
            /\ pass' = IF call.r.opt = "-1" THEN "command" ELSE "main"
    BY <1>1 DEF MainOption
  <2>2. items' = items /\ ending' = ending /\ save' = save /\ application' = application
    BY <1>1 DEF MainOption, meant
  <2>3. /\ call.array \in Seq(Argument) /\ Len(call.array) = Len(argv)
        /\ ToSet(call.array) = ToSet(argv)
        /\ optind + call.r.used \in 1 .. Len(argv) + 1 /\ call.r.subopt \in Nat
    BY <1>0, CallKeeps
  <2> QED
    BY <1>0, <2>1, <2>2, <2>3
<1>2. CASE FindCommand
  <2>1. /\ items' = items /\ ending' = ending /\ save' = save /\ argv' = argv
        /\ pass' = "sensors" /\ optind' = 1 /\ subopt' = 0
    BY <1>2 DEF FindCommand, meant
  <2>2. application' \in 0 .. Len(argv)
    BY <1>0, <1>2, CommandPlace
  <2> QED
    BY <1>0, <2>1, <2>2
<1>3. CASE SensorOption
  <2>1. PICK call \in Calls(save, moj_opts) :
            /\ save' = call.array /\ optind' = optind + call.r.used
            /\ subopt' = call.r.subopt
            /\ pass' \in {"start", "exit", "sensors"}
    <3>1. PICK call \in Calls(save, moj_opts) :
            LET found == OfShort(moj_opts, call.r.opt)
            IN  /\ save' = call.array /\ optind' = optind + call.r.used
                /\ subopt' = call.r.subopt
                /\ pass' = CASE call.r.opt = "-1" -> "start"
                             [] \E o \in found : o.fn -> "exit"
                             [] OTHER -> "sensors"
      BY <1>3 DEF SensorOption
    <3> QED
      BY <3>1
  <2>2. items' = items /\ ending' = ending /\ argv' = argv /\ application' = application
    BY <1>3 DEF SensorOption, meant
  <2>3. /\ call.array \in Seq(Argument) /\ Len(call.array) = Len(save)
        /\ ToSet(call.array) = ToSet(save)
        /\ optind + call.r.used \in 1 .. Len(save) + 1 /\ call.r.subopt \in Nat
    BY <1>0, CallKeeps
  <2> QED
    BY <1>0, <2>1, <2>2, <2>3
<1>4. CASE Start
  BY <1>0, <1>4 DEF Start, meant
<1>5. CASE UNCHANGED argsVars
  BY <1>0, <1>5 DEF argsVars
<1> QED
  BY <1>1, <1>2, <1>3, <1>4, <1>5 DEF ArgsNext, ArgsEnd

LEMMA TypesInductive == ArgsSpec => []ArgsTypeInv
<1>1. ArgsInit => ArgsTypeInv
  BY InitTypes
<1>2. ArgsTypeInv /\ [ArgsNext]_argsVars => ArgsTypeInv'
  BY TypesKept
<1> QED
  BY <1>1, <1>2, PTL DEF ArgsSpec

\* The parser of both passes stays in its array, which keeps the arguments of
\* the user, whatever they are: optparse_permute() loses none of them and adds
\* none.
THEOREM ArgumentsKept == ArgsSpec => []ParserTypeOK
<1>1. ArgsTypeInv => ParserTypeOK
  BY DEF ArgsTypeInv
<1> QED
  BY <1>1, TypesInductive, PTL

-----------------------------------------------------------------------------
(* How far a pass has read the command line *)

\* What the user wrote, where the words of the first i items end in it.
Written == Words(items) \o ending.words
Upto(i) == Len(Joined(WordsOf, i))

LEMMA WrittenCells ==
    ASSUME items \in Seq(Items), ending \in Endings
    PROVE  /\ Written \in Seq(Argument) /\ Len(items) \in Nat
           /\ Upto(Len(items)) \in Nat /\ Len(ending.words) \in Nat
           /\ Len(Written) = Upto(Len(items)) + Len(ending.words)
           /\ \A j \in 1 .. Len(ending.words) :
                  Written[Upto(Len(items)) + j] = ending.words[j]
<1> DEFINE u == Words(items)
<1> DEFINE v == ending.words
<1>1. u \in Seq(Argument) /\ v \in Seq(Argument) /\ Len(items) \in Nat
      /\ Upto(Len(items)) = Len(u)
  BY WordsType, EndingType DEF Upto
<1>2. Len(u) \in Nat /\ Len(v) \in Nat
  BY <1>1
<1>3. Written = u \o v
  BY DEF Written
<1> HIDE DEF u, v
<1>4. Written \in Seq(Argument) /\ Len(Written) = Len(u) + Len(v)
  BY <1>1, <1>2, <1>3, ConcatType
<1>5. ASSUME NEW j \in 1 .. Len(v) PROVE Written[Len(u) + j] = v[j]
  <2>1. (u \o v)[Len(u) + j] = v[j]
    BY <1>1, <1>2, ConcatRight
  <2> QED
    BY <1>3, <2>1
<1> QED
  BY <1>1, <1>2, <1>4, <1>5 DEF v

\* The words of item i + 1.
LEMMA ItemCells ==
    ASSUME items \in Seq(Items), ending \in Endings, NEW i \in 0 .. Len(items) - 1
    PROVE  /\ i + 1 \in 1 .. Len(items) /\ items[i + 1] \in Items
           /\ Upto(i) \in Nat /\ Len(items[i + 1].words) \in Nat \ {0}
           /\ items[i + 1].words \in Seq(Argument)
           /\ Upto(i + 1) = Upto(i) + Len(items[i + 1].words)
           /\ Upto(i + 1) <= Len(Written)
           /\ \A j \in 1 .. Len(items[i + 1].words) :
                  Written[Upto(i) + j] = items[i + 1].words[j]
<1> DEFINE n == Len(items)
<1> DEFINE f == WordsOf
<1>0. i + 1 \in 1 .. n /\ items[i + 1] \in Items
  OBVIOUS
<1>1. n \in Nat /\ f \in [1 .. n -> Seq(Argument)] /\ f[i + 1] = items[i + 1].words
  BY <1>0, WordsType DEF WordsOf
<1>2. items[i + 1].words \in Seq(Argument) \ {<<>>}
  BY <1>0, ItemsAssumption
<1>3. Len(items[i + 1].words) \in Nat \ {0}
  BY <1>2, EmptySeq
<1>4. /\ Words(items) = Joined(f, n) /\ Words(items) \in Seq(Argument)
      /\ ending.words \in Seq(Argument)
  BY WordsType, EndingType
<1>u. Upto(i) = Len(Joined(f, i)) /\ Upto(i + 1) = Len(Joined(f, i + 1))
  BY DEF Upto
<1> HIDE DEF n, f
<1>n. i \in 0 .. n - 1
  BY DEF n
<1>5. /\ Upto(i) \in Nat /\ Upto(i + 1) = Upto(i) + Len(f[i + 1])
      /\ Upto(i + 1) <= Len(Joined(f, n))
  BY <1>1, <1>n, <1>u, JoinedLengths, ZenonT(30)
<1> DEFINE u == Joined(f, n)
<1> DEFINE v == ending.words
<1>6. u \in Seq(Argument) /\ v \in Seq(Argument) /\ Len(u) \in Nat /\ Len(v) \in Nat
      /\ Written = u \o v
  BY <1>4 DEF Written
<1>r. /\ Upto(i) \in Nat /\ Len(f[i + 1]) \in Nat /\ Len(u) \in Nat
      /\ Upto(i) + Len(f[i + 1]) <= Len(u)
  BY <1>1, <1>3, <1>5, <1>6
<1>7. ASSUME NEW j \in 1 .. Len(f[i + 1]) PROVE Written[Upto(i) + j] = f[i + 1][j]
  <2>1. u[Upto(i) + j] = f[i + 1][j]
    <3>1. Joined(f, n)[Len(Joined(f, i)) + j] = f[i + 1][j]
      BY <1>1, <1>n, JoinedAt
    <3> QED
      BY <1>u, <3>1
  <2>2. Upto(i) + j \in 1 .. Len(u)
    BY <1>r
  <2> DEFINE x == Upto(i) + j
  <2> HIDE DEF x, u, v
  <2>3. (u \o v)[x] = u[x]
    BY <1>6, <2>2, ConcatLeft DEF x
  <2> QED
    BY <1>6, <2>1, <2>3 DEF x
<1>8. Len(Written) = Len(u) + Len(v)
  <2> HIDE DEF u, v
  <2> QED
    BY <1>6, ConcatType
<1>9. Upto(i + 1) <= Len(Written)
  BY <1>5, <1>6, <1>8, <1>3, <1>1
<1> QED
  BY <1>0, <1>1, <1>2, <1>3, <1>5, <1>7, <1>9 DEF n

\* A pass has read the first i items: what it has skipped are words, what is
\* ahead is as it was written.
Reached(a, at, i) ==
    /\ a \in Seq(Argument) /\ Len(a) = Len(Written)
    /\ at \in 1 .. Upto(i) + 1
    /\ \A p \in at .. Upto(i) : a[p].kind = "word"
    /\ \A p \in Upto(i) + 1 .. Len(a) : a[p] = Written[p]

\* It has read all there is.
Done(a, at) ==
    /\ a \in Seq(Argument) /\ Len(a) = Len(Written)
    /\ at \in 1 .. Len(a) + 1
    /\ \A p \in at .. Len(a) : a[p].kind = "word"
    /\ ending.command = <<>>

LEMMA UptoType ==
    ASSUME items \in Seq(Items), ending \in Endings, NEW i \in 0 .. Len(items)
    PROVE  Upto(i) \in Nat /\ Upto(i) <= Len(Written) /\ Len(Written) \in Nat
<1>1. CASE i = Len(items)
  BY <1>1, WrittenCells
<1>2. CASE i # Len(items)
  <2>1. i \in 0 .. Len(items) - 1
    BY <1>2, WrittenCells
  <2> QED
    BY <2>1, ItemCells, WrittenCells
<1> QED
  BY <1>1, <1>2

\* An item of words only is passed over.
LEMMA ReachedWords ==
    ASSUME items \in Seq(Items), ending \in Endings, NEW i \in 0 .. Len(items) - 1,
           NEW a, NEW at, Reached(a, at, i),
           \A j \in 1 .. Len(items[i + 1].words) : items[i + 1].words[j].kind = "word"
    PROVE  Reached(a, at, i + 1)
<1> DEFINE w == items[i + 1].words
<1> DEFINE c == Upto(i)
<1> DEFINE d == Upto(i + 1)
<1>1. /\ c \in Nat /\ Len(w) \in Nat \ {0} /\ d = c + Len(w) /\ d <= Len(Written)
      /\ \A j \in 1 .. Len(w) : Written[c + j] = w[j]
  BY ItemCells
<1>2. /\ a \in Seq(Argument) /\ Len(a) = Len(Written) /\ at \in 1 .. c + 1
      /\ \A p \in at .. c : a[p].kind = "word"
      /\ \A p \in c + 1 .. Len(a) : a[p] = Written[p]
  BY DEF Reached
<1>w. \A j \in 1 .. Len(w) : w[j].kind = "word"
  OBVIOUS
<1> HIDE DEF w, c, d
<1>3. ASSUME NEW p \in at .. d PROVE a[p].kind = "word"
  <2>1. CASE p <= c
    BY <1>1, <1>2, <2>1
  <2>2. CASE ~(p <= c)
    <3>1. p - c \in 1 .. Len(w) /\ c + (p - c) = p /\ p \in c + 1 .. Len(a)
      BY <1>1, <1>2, <2>2
    <3>2. Written[p] = w[p - c]
      BY <1>1, <3>1
    <3> QED
      BY <1>2, <1>w, <3>1, <3>2
  <2> QED
    BY <2>1, <2>2
<1>4. at \in 1 .. d + 1 /\ \A p \in d + 1 .. Len(a) : p \in c + 1 .. Len(a)
  BY <1>1, <1>2
<1> QED
  BY <1>2, <1>3, <1>4 DEF Reached, d

\* An option is used, with its argument when it has one: the rest of its item
\* is words.
LEMMA ReachedUsed ==
    ASSUME items \in Seq(Items), ending \in Endings, NEW i \in 0 .. Len(items) - 1,
           NEW a, NEW at, Reached(a, at, i), PlainArguments,
           NEW used \in {1, 2}, used <= Len(items[i + 1].words)
    PROVE  Reached(Permute(a, at, Upto(i) + 1, used), at + used, i + 1)
<1> DEFINE w == items[i + 1].words
<1> DEFINE c == Upto(i)
<1> DEFINE d == Upto(i + 1)
<1> DEFINE q == c + 1
<1> DEFINE b == Permute(a, at, q, used)
<1>1. /\ c \in Nat /\ Len(w) \in Nat \ {0} /\ d = c + Len(w) /\ d <= Len(Written)
      /\ \A j \in 1 .. Len(w) : Written[c + j] = w[j]
      /\ i + 1 \in 1 .. Len(items)
  BY ItemCells
<1>2. /\ a \in Seq(Argument) /\ Len(a) = Len(Written) /\ at \in 1 .. c + 1
      /\ \A p \in at .. c : a[p].kind = "word"
      /\ \A p \in c + 1 .. Len(a) : a[p] = Written[p]
  BY DEF Reached
<1>w. \A j \in 2 .. Len(w) : w[j].kind = "word"
  BY <1>1 DEF PlainArguments
<1>u. used \in Nat /\ used <= Len(w)
  OBVIOUS
<1> HIDE DEF w, c, d
<1>l. /\ Len(a) \in Nat /\ at \in Nat /\ at >= 1 /\ q \in Nat /\ at <= q
      /\ q + used <= Len(a) + 1
  BY <1>1, <1>2, <1>u
<1>r. /\ c \in Nat /\ Len(w) \in Nat \ {0} /\ d = c + Len(w) /\ d <= Len(a)
      /\ Len(a) \in Nat /\ at \in Nat /\ at >= 1 /\ at <= c + 1 /\ q = c + 1
      /\ used \in Nat /\ used <= Len(w)
  BY <1>1, <1>2, <1>l, <1>u
<1>3. /\ b \in Seq(Argument) /\ Len(b) = Len(a)
      /\ \A x \in 1 .. Len(a) : b[x] = a[Source(x, at, q, used)]
  BY <1>2, <1>l, PermuteCells
<1> HIDE DEF b
<1>4. ASSUME NEW x \in at + used .. d PROVE b[x].kind = "word"
  <2>0. x \in 1 .. Len(a) /\ ~(x < at) /\ ~(x < at + used)
    BY <1>r
  <2>1. CASE x < q + used
    <3>1. Source(x, at, q, used) = x - used
      BY <2>0, <2>1 DEF Source
    <3>2. x - used \in at .. c
      BY <1>r, <2>1
    <3> QED
      BY <1>2, <1>3, <2>0, <3>1, <3>2
  <2>2. CASE ~(x < q + used)
    <3>1. Source(x, at, q, used) = x
      BY <2>0, <2>2 DEF Source
    <3>2. x - c \in 2 .. Len(w) /\ x - c \in 1 .. Len(w) /\ c + (x - c) = x
          /\ x \in c + 1 .. Len(a)
      BY <1>r, <2>0, <2>2
    <3>3. b[x] = Written[x] /\ Written[x] = w[x - c]
      BY <1>1, <1>2, <1>3, <2>0, <3>1, <3>2
    <3> QED
      BY <1>w, <3>2, <3>3
  <2> QED
    BY <2>1, <2>2
<1>5. ASSUME NEW x \in d + 1 .. Len(a) PROVE b[x] = Written[x]
  <2>1. x \in 1 .. Len(a) /\ x \in c + 1 .. Len(a) /\ ~(x < at) /\ ~(x < at + used)
        /\ ~(x < q + used)
    BY <1>r
  <2>2. Source(x, at, q, used) = x
    BY <2>1 DEF Source
  <2> QED
    BY <1>2, <1>3, <2>1, <2>2
<1>6. at + used \in 1 .. d + 1
  BY <1>r
<1>7. Reached(b, at + used, i + 1)
  BY <1>2, <1>3, <1>4, <1>5, <1>6 DEF Reached, d
<1> QED
  BY <1>7 DEF b, c

\* The items up to the next option are words, and mean nothing.
LEMMA SkipTo ==
    ASSUME items \in Seq(Items), ending \in Endings, PlainArguments,
           NEW S, NEW m \in [1 .. Len(items) -> Seq(S)], NEW table,
           \A k \in 1 .. Len(items) : Means(items[k].words, table, m[k]),
           NEW i \in 0 .. Len(items), NEW a, NEW at, Reached(a, at, i)
    PROVE  \E l \in 0 .. Len(items) :
               /\ Reached(a, at, l) /\ Joined(m, l) = Joined(m, i)
               /\ l < Len(items) => items[l + 1].words[1].kind # "word"
<1> DEFINE n == Len(items)
<1> DEFINE T == {k \in i .. n : k = n \/ items[k + 1].words[1].kind # "word"}
<1>0. n \in Nat /\ T \subseteq Nat /\ n \in T
  <2>1. n \in Nat
    BY WordsType
  <2> QED
    BY <2>1
<1>1. PICK l \in T : \A y \in T : l <= y
  BY <1>0, Least
<1> DEFINE Good(k) == Reached(a, at, k) /\ Joined(m, k) = Joined(m, i)
<1> DEFINE B == {k \in i .. l : ~Good(k)}
<1>2. ASSUME B # {} PROVE FALSE
  <2>0. B \subseteq Nat
    BY <1>0
  <2>1. PICK x \in B : \A y \in B : x <= y
    BY <1>2, <2>0, Least
  <2>2. x # i
    OBVIOUS
  <2> DEFINE y == x - 1
  <2>b. x \in i .. l /\ l \in i .. n /\ l \in Nat /\ i \in Nat
    BY <1>0, <1>1
  <2>c. y \in i .. l /\ y \in 0 .. n - 1 /\ y \in i .. n /\ y + 1 = x /\ ~(x <= y)
        /\ ~(l <= y) /\ y + 1 \in 1 .. n /\ y \in 0 .. n
    BY <1>0, <2>2, <2>b
  <2>d. y \notin T
    BY <1>1, <2>c
  <2>3. y \in i .. l /\ y \in 0 .. n - 1 /\ y \in i .. n /\ y + 1 = x /\ ~(x <= y)
        /\ y \notin T /\ y + 1 \in 1 .. n /\ y \in 0 .. n
    BY <2>c, <2>d
  <2>4. Good(y)
    <3>1. y \notin B
      BY <2>1, <2>3
    <3> QED
      BY <2>3, <3>1
  <2>5. items[y + 1].words[1].kind = "word"
    BY <2>3
  <2> HIDE DEF y
  <2>6. \A j \in 1 .. Len(items[y + 1].words) : items[y + 1].words[j].kind = "word"
    <3>1. Len(items[y + 1].words) \in Nat \ {0}
      BY <2>3, ItemCells
    <3>2. \A j \in 2 .. Len(items[y + 1].words) : items[y + 1].words[j].kind = "word"
      BY <2>3 DEF PlainArguments
    <3> QED
      BY <2>5, <3>1, <3>2
  <2>7. m[y + 1] = <<>>
    <3>1. Means(items[y + 1].words, table, m[y + 1])
      BY <2>3
    <3> QED
      BY <2>5, <3>1 DEF Means
  <2>8. Reached(a, at, x)
    BY <2>3, <2>4, <2>6, ReachedWords
  <2>9. Joined(m, x) = Joined(m, y) \o m[y + 1]
    BY <1>0, <2>3, JoinedNext
  <2>10. Joined(m, y) \in Seq(S)
    BY <1>0, <2>3, JoinedType
  <2>11. Joined(m, x) = Joined(m, y)
    BY <2>7, <2>9, <2>10, ConcatEmptySeq
  <2> QED
    BY <2>4, <2>8, <2>11
<1>3. Good(l)
  <2>1. l \in i .. l
    BY <1>0
  <2> QED
    BY <1>2, <2>1
<1>4. l \in 0 .. n /\ (l < n => items[l + 1].words[1].kind # "word")
  BY <1>0
<1> QED
  BY <1>3, <1>4

\* The next call reads what is at the front, when that is not a word.
LEMMA NextAt ==
    ASSUME items \in Seq(Items), ending \in Endings, NEW i \in 0 .. Len(items),
           NEW a, Reached(a, optind, i),
           Upto(i) + 1 <= Len(a) => Written[Upto(i) + 1].kind # "word"
    PROVE  /\ NextOption(a) = Upto(i) + 1
           /\ Upto(i) + 1 <= Len(a) => a[Upto(i) + 1] = Written[Upto(i) + 1]
<1> DEFINE p == NextOption(a)
<1> DEFINE c == Upto(i)
<1>1. /\ a \in Seq(Argument) /\ Len(a) = Len(Written) /\ optind \in 1 .. c + 1
      /\ \A x \in optind .. c : a[x].kind = "word"
      /\ \A x \in c + 1 .. Len(a) : a[x] = Written[x]
      /\ c + 1 <= Len(a) => Written[c + 1].kind # "word"
  BY DEF Reached
<1>2. c \in Nat /\ Len(a) \in Nat /\ c <= Len(a) /\ optind \in 1 .. Len(a) + 1
  BY <1>1, UptoType
<1>3. /\ p \in optind .. Len(a) + 1 /\ (p <= Len(a) => a[p].kind # "word")
      /\ \A x \in optind .. p - 1 : a[x].kind = "word"
  BY <1>1, <1>2, Ahead
<1> HIDE DEF p, c
<1>4. ~(p <= c)
  <2> SUFFICES ASSUME p <= c PROVE FALSE
    OBVIOUS
  <2>1. p \in optind .. c /\ p <= Len(a)
    BY <1>2, <1>3
  <2> QED
    BY <1>1, <1>3, <2>1
<1>5. ~(p > c + 1)
  <2> SUFFICES ASSUME p > c + 1 PROVE FALSE
    OBVIOUS
  <2>1. c + 1 \in optind .. p - 1 /\ c + 1 <= Len(a) /\ c + 1 \in c + 1 .. Len(a)
    BY <1>1, <1>2, <1>3
  <2> QED
    BY <1>1, <1>3, <2>1
<1>6. p = c + 1
  BY <1>2, <1>3, <1>4, <1>5
<1>7. c + 1 <= Len(a) => a[c + 1] = Written[c + 1]
  BY <1>1, <1>2
<1> QED
  BY <1>6, <1>7 DEF p, c

-----------------------------------------------------------------------------
(* What one call reads of an item *)

Readings == STRING \X (Argument \cup {NoArg})

LEMMA FoundIn ==
    ASSUME NEW known, known # {}
    PROVE  Found(known) \in known
BY DEF Found

\* At an offset that is in the cluster, the rest of it.
LEMMA RestIs ==
    ASSUME NEW cluster \in Seq(STRING), subopt \in Nat, subopt < Len(cluster)
    PROVE  /\ Rest(cluster) = {SubSeq(cluster, subopt + 1, Len(cluster))}
           /\ SubSeq(cluster, subopt + 1, Len(cluster)) # <<>>
           /\ SubSeq(cluster, subopt + 1, Len(cluster))[1] = cluster[subopt + 1]
           /\ Len(SubSeq(cluster, subopt + 1, Len(cluster))) = Len(cluster) - subopt
           /\ Tail(SubSeq(cluster, subopt + 1, Len(cluster)))
                  = SubSeq(cluster, subopt + 2, Len(cluster))
<1> DEFINE n == Len(cluster)
<1> DEFINE c == SubSeq(cluster, subopt + 1, n)
<1>1. /\ n \in Nat /\ subopt <= n /\ subopt + 1 \in Nat /\ subopt + 1 >= 1
      /\ subopt + 1 <= n + 1 /\ n + 1 - (subopt + 1) = n - subopt
      /\ subopt + 1 \in 1 .. n /\ n \in subopt + 1 .. n /\ subopt + 1 + 1 = subopt + 2
  OBVIOUS
<1>2. Rest(cluster) = {c}
  BY <1>1 DEF Rest
<1>3. /\ c \in Seq(STRING) /\ Len(c) = n + 1 - (subopt + 1)
      /\ \A j \in 1 .. n + 1 - (subopt + 1) : c[j] = cluster[subopt + 1 + j - 1]
  BY <1>1, SubSeqCells
<1>4. Tail(c) = SubSeq(cluster, subopt + 1 + 1, n)
  BY <1>1, HeadTailOfSubSeq
<1>5. 1 \in 1 .. n + 1 - (subopt + 1) /\ subopt + 1 + 1 - 1 = subopt + 1
  BY <1>1
<1>6. c[1] = cluster[subopt + 1]
  BY <1>3, <1>5
<1>7. c # <<>>
  BY <1>1, <1>3, <1>5
<1> QED
  BY <1>1, <1>2, <1>3, <1>4, <1>6, <1>7

\* In a cluster, a call reads the option at the offset.
LEMMA ClusterRead ==
    ASSUME NEW words \in Seq(Argument), words # <<>>, words[1].kind = "short",
           NEW table, NEW means \in Seq(Readings), NEW k,
           ClusterMeans(words, table, means, k),
           subopt \in 0 .. k - 1, NEW next, Len(words) > 1 => next = words[2],
           NEW c \in Rest(words[1].text)
    PROVE  LET r == ShortOption(c, next, table)
           IN  /\ OfShort(table, r.opt) # {}
               /\ <<r.opt, r.optarg>> = means[subopt + 1]
               /\ \/ subopt + 1 < k /\ r.used = 0 /\ r.subopt = subopt + 1
                  \/ /\ subopt + 1 = k /\ r.subopt = 0
                     /\ r.used \in {1, 2} /\ r.used <= Len(words)
<1> DEFINE text == words[1].text
<1> DEFINE n == Len(text)
<1> DEFINE x == text[subopt + 1]
<1> DEFINE r == ShortOption(c, next, table)
<1>0. text \in Seq(STRING) /\ Len(words) \in Nat /\ Len(words) >= 1 /\ n \in Nat
  <2>1. Len(words) \in Nat \ {0}
    BY EmptySeq
  <2>2. words[1] \in Argument
    BY <2>1
  <2>3. text \in Seq(STRING)
    BY <2>2 DEF Argument
  <2> QED
    BY <2>1, <2>3
<1>1. /\ k \in 1 .. n /\ Len(means) = k
      /\ \A j \in 1 .. k : OfShort(table, text[j]) # {} /\ means[j][1] = text[j]
      /\ \A j \in 1 .. k - 1 :
             ~Found(OfShort(table, text[j])).required /\ means[j][2] = NoArg
      /\ IF Found(OfShort(table, text[k])).required
         THEN \/ k < n /\ means[k][2] = [kind |-> "word", text |-> SubSeq(text, k + 1, n)]
              \/ k = n /\ Len(words) > 1 /\ means[k][2] = words[2]
         ELSE k = n /\ means[k][2] = NoArg
  BY DEF ClusterMeans
<1>2. subopt \in Nat /\ subopt < n /\ subopt + 1 \in 1 .. k
  <2>1. k \in 1 .. n /\ n \in Nat
    BY <1>0, <1>1
  <2> HIDE DEF text, n, x, r
  <2> QED
    BY <2>1
<1>3. /\ c # <<>> /\ c[1] = x /\ Len(c) = n - subopt
      /\ Tail(c) = SubSeq(text, subopt + 2, n)
  BY <1>0, <1>2, RestIs
<1>4. OfShort(table, x) # {} /\ means[subopt + 1][1] = x
  BY <1>1, <1>2
<1>5. means[subopt + 1] = <<means[subopt + 1][1], means[subopt + 1][2]>>
  <2>1. means[subopt + 1] \in Readings
    BY <1>1, <1>2
  <2> QED
    BY <2>1 DEF Readings
<1> DEFINE o == Found(OfShort(table, x))
<1>6. r = IF o.required THEN ArgOption(c, next) ELSE FlagOption(c)
  <2>1. (IF c = <<>> THEN {} ELSE OfShort(table, c[1])) = OfShort(table, x)
    BY <1>3
  <2> QED
    BY <1>4, <2>1 DEF ShortOption
<1> HIDE DEF r, x, text
<1>7. CASE subopt + 1 < k
  <2>0. k \in Nat /\ k <= n /\ n \in Nat /\ subopt \in Nat /\ Len(c) = n - subopt
    BY <1>0, <1>1, <1>2, <1>3
  <2>1. subopt + 1 \in 1 .. k - 1 /\ Len(c) > 1
    BY <2>0, <1>7
  <2>2. ~o.required /\ means[subopt + 1][2] = NoArg
    BY <1>1, <2>1 DEF x
  <2>3. r = Return(x, NoArg, 0, subopt + 1)
    BY <1>3, <1>6, <2>1, <2>2 DEF FlagOption
  <2>4. r.opt = x /\ r.optarg = NoArg /\ r.used = 0 /\ r.subopt = subopt + 1
    BY <2>3 DEF Return
  <2> QED
    BY <1>4, <1>5, <1>7, <2>2, <2>4 DEF r
<1>8. CASE subopt + 1 = k /\ ~o.required
  <2>1. k = n /\ means[k][2] = NoArg /\ ~(Len(c) > 1)
    BY <1>0, <1>1, <1>2, <1>3, <1>8 DEF x
  <2>2. r = Return(x, NoArg, 1, 0)
    BY <1>3, <1>6, <1>8, <2>1 DEF FlagOption
  <2>3. r.opt = x /\ r.optarg = NoArg /\ r.used = 1 /\ r.subopt = 0
    BY <2>2 DEF Return
  <2> QED
    BY <1>0, <1>4, <1>5, <1>8, <2>1, <2>3 DEF r
<1>9. CASE subopt + 1 = k /\ o.required /\ k < n
  <2>1. Len(c) > 1 /\ subopt + 2 = k + 1
    BY <1>0, <1>1, <1>2, <1>3, <1>9
  <2>2. means[k][2] = [kind |-> "word", text |-> SubSeq(text, k + 1, n)]
    BY <1>1, <1>9 DEF x
  <2>3. r = Return(x, [kind |-> "word", text |-> Tail(c)], 1, 0)
    BY <1>3, <1>6, <1>9, <2>1 DEF ArgOption
  <2>4. r.opt = x /\ r.optarg = means[k][2] /\ r.used = 1 /\ r.subopt = 0
    BY <1>3, <2>1, <2>2, <2>3 DEF Return
  <2> QED
    BY <1>0, <1>4, <1>5, <1>9, <2>4 DEF r
<1>10. CASE subopt + 1 = k /\ o.required /\ ~(k < n)
  <2>1. k = n /\ Len(words) > 1 /\ means[k][2] = words[2]
    BY <1>1, <1>10 DEF x
  <2>2. ~(Len(c) > 1) /\ Len(c) = 1
    BY <1>0, <1>2, <1>3, <1>10, <2>1
  <2>3. next = words[2] /\ next # NoArg
    <3>1. words[2] \in Argument
      BY <1>0, <2>1
    <3>2. words[2].kind # "null"
      BY <3>1 DEF Argument
    <3> QED
      BY <2>1, <3>2 DEF NoArg
  <2>4. r = Return(x, next, 2, 0)
    BY <1>3, <1>6, <1>10, <2>2, <2>3 DEF ArgOption
  <2>5. r.opt = x /\ r.optarg = next /\ r.used = 2 /\ r.subopt = 0
    BY <2>4 DEF Return
  <2> QED
    BY <1>0, <1>4, <1>5, <1>10, <2>1, <2>3, <2>5 DEF r
<1>11. subopt + 1 < k \/ subopt + 1 = k
  BY <1>0, <1>1, <1>2
<1> QED
  BY <1>7, <1>8, <1>9, <1>10, <1>11

\* A long option, with its value or its argument.
LEMMA LongRead ==
    ASSUME NEW words \in Seq(Argument), words # <<>>,
           NEW table, NEW means \in Seq(Readings), LongMeans(words, table, means),
           NEW next, Len(words) > 1 => next = words[2]
    PROVE  LET r == LongOption(words[1].text, next, table)
           IN  /\ <<r.opt, r.optarg>> = means[1] /\ Len(means) = 1
               /\ OfShort(table, r.opt) # {} /\ r.subopt = subopt
               /\ r.used \in {1, 2} /\ r.used <= Len(words)
<1> DEFINE text == words[1].text
<1> DEFINE known == OfLong(table, text[1])
<1> DEFINE o == Found(known)
<1> DEFINE r == LongOption(text, next, table)
<1>1. /\ known # {} /\ Len(means) = 1 /\ means[1][1] = o.shortname
      /\ IF o.required
         THEN \/ Len(text) = 2 /\ means[1][2] = Word(text[2])
              \/ Len(text) = 1 /\ Len(words) > 1 /\ means[1][2] = words[2]
         ELSE Len(text) = 1 /\ means[1][2] = NoArg
  BY DEF LongMeans
<1>2. Len(words) \in Nat /\ Len(words) >= 1
  <2>1. Len(words) \in Nat \ {0}
    BY EmptySeq
  <2> QED
    BY <2>1
<1>3. means[1] = <<means[1][1], means[1][2]>>
  <2>1. 1 \in 1 .. Len(means)
    BY <1>1
  <2>2. means[1] \in Readings
    BY <2>1, ElementOfSeq
  <2> QED
    BY <2>2 DEF Readings
<1>4. OfShort(table, o.shortname) # {}
  <2>1. o \in table
    BY <1>1, FoundIn DEF OfLong
  <2> QED
    BY <2>1 DEF OfShort
<1>5. Len(words) > 1 => next = words[2] /\ next # NoArg
  <2> SUFFICES ASSUME Len(words) > 1 PROVE words[2] # NoArg
    OBVIOUS
  <2>1. words[2] \in Argument
    BY <1>2
  <2>2. words[2].kind # "null"
    BY <2>1 DEF Argument
  <2> QED
    BY <2>2 DEF NoArg
<1>6. /\ known # {} /\ Len(text) = 2 /\ o.required =>
             r = Return(o.shortname, Word(text[2]), 1, subopt)
      /\ known # {} /\ Len(text) = 1 /\ ~o.required =>
             r = Return(o.shortname, NoArg, 1, subopt)
      /\ ~(known = {} \/ (Len(text) = 2 /\ ~o.required))
         /\ ~(known # {} /\ Len(text) = 2 /\ o.required)
         /\ ~(known # {} /\ Len(text) = 1 /\ ~o.required) =>
             r = IF next = NoArg THEN UnknownOption
                                 ELSE Return(o.shortname, next, 2, subopt)
  BY LongReturns, ZenonT(30)
<1> HIDE DEF r, o, known, text
<1>7. \/ r = Return(o.shortname, means[1][2], 1, subopt)
      \/ Len(words) > 1 /\ r = Return(o.shortname, means[1][2], 2, subopt)
  <2>1. CASE o.required /\ Len(text) = 2
    <3>1. r = Return(o.shortname, Word(text[2]), 1, subopt)
      BY <1>1, <1>6, <2>1
    <3>2. means[1][2] = Word(text[2])
      BY <1>1, <2>1
    <3> QED
      BY <3>1, <3>2
  <2>2. CASE o.required /\ Len(text) = 1 /\ ~(Len(text) = 2)
    <3>1. Len(words) > 1 /\ means[1][2] = words[2]
      BY <1>1, <2>2
    <3> QED
      BY <1>1, <1>5, <1>6, <2>2, <3>1
  <2>3. CASE ~o.required
    BY <1>1, <1>6, <2>3
  <2> QED
    BY <1>1, <2>1, <2>2, <2>3
<1>8. /\ r.opt = o.shortname /\ r.optarg = means[1][2] /\ r.subopt = subopt
      /\ r.used \in {1, 2} /\ (r.used = 2 => Len(words) > 1)
  BY <1>7 DEF Return
<1>9. r.used <= Len(words)
  BY <1>2, <1>8
<1> QED
  BY <1>1, <1>3, <1>4, <1>8, <1>9 DEF r, text

\* At the start of a cluster, nothing of it is left out.
LEMMA RestWhole ==
    ASSUME NEW cluster \in Seq(STRING), subopt = 0
    PROVE  Rest(cluster) = {cluster}
<1>1. SubSeq(cluster, 1, Len(cluster)) = cluster
  OBVIOUS
<1>2. 0 <= Len(cluster) /\ 0 + 1 = 1
  OBVIOUS
<1> QED
  BY <1>1, <1>2 DEF Rest

\* What means nothing is an option that is not known.
LEMMA NothingRead ==
    ASSUME NEW arg \in Argument, NEW table, MeansNothing(arg, table), subopt = 0,
           NEW next
    PROVE  /\ arg.kind = "short" => \A c \in Rest(arg.text) :
                  ShortOption(c, next, table) = UnknownOption
           /\ arg.kind = "long" => LongOption(arg.text, next, table) = UnknownOption
<1>1. ASSUME arg.kind = "short", NEW c \in Rest(arg.text)
      PROVE  ShortOption(c, next, table) = UnknownOption
  <2>1. arg.text \in Seq(STRING)
    BY DEF Argument
  <2>2. c = arg.text
    BY <1>1, <2>1, RestWhole
  <2>3. OfShort(table, c[1]) = {}
    BY <1>1, <2>2 DEF MeansNothing
  <2> QED
    BY <2>3 DEF ShortOption
<1>2. ASSUME arg.kind = "long"
      PROVE  LongOption(arg.text, next, table) = UnknownOption
  <2>1. \/ OfLong(table, arg.text[1]) = {}
        \/ Len(arg.text) = 2 /\ ~Found(OfLong(table, arg.text[1])).required
    BY <1>2 DEF MeansNothing
  <2> QED
    BY <2>1, LongReturns
<1> QED
  BY <1>1, <1>2

\* What lacks its argument is not one either, at the end of the array.
LEMMA LackRead ==
    ASSUME NEW arg \in Argument, NEW table, Lacks(arg, table), subopt = 0
    PROVE  /\ arg.kind \in {"short", "long"}
           /\ arg.kind = "short" => \A c \in Rest(arg.text) :
                  ShortOption(c, NoArg, table) = Return("?", NoArg, 1, 0)
           /\ arg.kind = "long" =>
                  LongOption(arg.text, NoArg, table) = Return("?", NoArg, 1, 0)
<1>0. UnknownOption = Return("?", NoArg, 1, 0)
  BY DEF UnknownOption
<1>1. ASSUME arg.kind = "short", NEW c \in Rest(arg.text)
      PROVE  ShortOption(c, NoArg, table) = Return("?", NoArg, 1, 0)
  <2>1. arg.text \in Seq(STRING)
    BY DEF Argument
  <2>2. c = arg.text
    BY <1>1, <2>1, RestWhole
  <2>3. Len(c) = 1 /\ (OfShort(table, c[1]) # {} => Found(OfShort(table, c[1])).required)
    BY <1>1, <2>2 DEF Lacks
  <2>4. c # <<>>
    BY <2>3
  <2>5. CASE OfShort(table, c[1]) = {}
    BY <1>0, <2>5 DEF ShortOption
  <2>6. CASE OfShort(table, c[1]) # {}
    <3>1. ShortOption(c, NoArg, table) = ArgOption(c, NoArg)
      BY <2>3, <2>4, <2>6 DEF ShortOption
    <3>2. ~(Len(c) > 1)
      BY <2>3
    <3>3. ArgOption(c, NoArg) = Return("?", NoArg, 1, 0)
      BY <3>2 DEF ArgOption
    <3> QED
      BY <3>1, <3>3
  <2> QED
    BY <2>5, <2>6
<1>2. ASSUME arg.kind = "long"
      PROVE  LongOption(arg.text, NoArg, table) = Return("?", NoArg, 1, 0)
  <2>1. Len(arg.text) = 1 /\ (OfLong(table, arg.text[1]) # {} =>
                                  Found(OfLong(table, arg.text[1])).required)
    BY <1>2 DEF Lacks
  <2> QED
    BY <1>0, <2>1, LongReturns
<1> QED
  BY <1>1, <1>2 DEF Lacks

-----------------------------------------------------------------------------
(* Where a pass is, and what it has read *)

\* Between two items, in the cluster of one, or at the end.
AtItem(a, at, off, m, read, i) ==
    i \in 0 .. Len(items) /\ Reached(a, at, i) /\ off = 0 /\ read = Joined(m, i)
InCluster(a, at, off, table, m, read, i, k) ==
    /\ i \in 0 .. Len(items) - 1 /\ Reached(a, at, i)
    /\ items[i + 1].words[1].kind = "short"
    /\ ClusterMeans(items[i + 1].words, table, m[i + 1], k)
    /\ off \in 1 .. k - 1
    /\ read = Joined(m, i) \o SubSeq(m[i + 1], 1, off)
AtEnd(a, at, off, m, read) ==
    Done(a, at) /\ off = 0 /\ read = Joined(m, Len(items))

Underway(a, at, off, table, m, read) ==
    \/ \E i : AtItem(a, at, off, m, read, i)
    \/ \E i : \E k : InCluster(a, at, off, table, m, read, i, k)
    \/ AtEnd(a, at, off, m, read)

LEMMA PermuteNone ==
    ASSUME NEW S, NEW a \in Seq(S), NEW q \in Nat, NEW p \in Nat, q >= 1, q <= p,
           p <= Len(a) + 1
    PROVE  Permute(a, q, p, 0) = a
<1> DEFINE b == Permute(a, q, p, 0)
<1>0. p + 0 <= Len(a) + 1 /\ 0 \in Nat
  OBVIOUS
<1>1. /\ b \in Seq(S) /\ Len(b) = Len(a)
      /\ \A x \in 1 .. Len(a) : b[x] = a[Source(x, q, p, 0)]
  BY <1>0, PermuteCells
<1>2. ASSUME NEW x \in 1 .. Len(a) PROVE Source(x, q, p, 0) = x
  BY DEF Source
<1>3. \A x \in 1 .. Len(a) : b[x] = a[x]
  BY <1>1, <1>2
<1> HIDE DEF b
<1>4. b = a
  BY <1>1, <1>3, SeqEqual
<1> QED
  BY <1>4 DEF b

LEMMA AppendNext ==
    ASSUME NEW S, NEW u \in Seq(S), NEW v \in Seq(S), NEW s \in 0 .. Len(v) - 1
    PROVE  Append(u \o SubSeq(v, 1, s), v[s + 1]) = u \o SubSeq(v, 1, s + 1)
<1> DEFINE w == SubSeq(v, 1, s)
<1> DEFINE x == SubSeq(v, 1, s + 1)
<1>0. s \in Nat /\ s + 1 \in Nat /\ s + 1 <= Len(v) /\ Len(v) \in Nat /\ s + 1 \in 1 .. Len(v)
  OBVIOUS
<1>1. w \in Seq(S) /\ Len(w) = s /\ \A j \in 1 .. s : w[j] = v[j]
  <2>1. /\ w \in Seq(S) /\ Len(w) = s + 1 - 1
        /\ \A j \in 1 .. s + 1 - 1 : w[j] = v[1 + j - 1]
    BY <1>0, SubSeqCells
  <2> QED
    BY <1>0, <2>1
<1>2. x \in Seq(S) /\ Len(x) = s + 1 /\ \A j \in 1 .. s + 1 : x[j] = v[j]
  <2>1. /\ x \in Seq(S) /\ Len(x) = s + 1 + 1 - 1
        /\ \A j \in 1 .. s + 1 + 1 - 1 : x[j] = v[1 + j - 1]
    BY <1>0, SubSeqCells
  <2> QED
    BY <1>0, <2>1
<1> DEFINE e == v[s + 1]
<1> DEFINE y == Append(w, e)
<1>3. e \in S
  BY <1>0
<1> HIDE DEF w, x, e
<1>4. y \in Seq(S) /\ Len(y) = s + 1 /\ y[s + 1] = e /\ \A j \in 1 .. s : y[j] = w[j]
  BY <1>0, <1>1, <1>3
<1>5. \A j \in 1 .. s + 1 : x[j] = y[j]
  <2> SUFFICES ASSUME NEW j \in 1 .. s + 1 PROVE x[j] = y[j]
    OBVIOUS
  <2>1. CASE j = s + 1
    BY <1>2, <1>4, <2>1 DEF e
  <2>2. CASE j # s + 1
    <3>1. j \in 1 .. s
      BY <1>0, <2>2
    <3> QED
      BY <1>1, <1>2, <1>4, <3>1
  <2> QED
    BY <2>1, <2>2
<1>6. x = y
  <2> HIDE DEF y
  <2> QED
    BY <1>0, <1>2, <1>4, <1>5, SeqEqual
<1>7. Append(u \o w, e) = u \o Append(w, e)
  <2> DEFINE one == <<e>>
  <2>1. one \in Seq(S)
    BY <1>3
  <2>2. u \o w \in Seq(S)
    BY <1>1, ConcatProperties
  <2>3. Append(u \o w, e) = (u \o w) \o one
    BY <1>3, <2>2, AppendIsConcat
  <2>4. Append(w, e) = w \o one
    BY <1>1, <1>3, AppendIsConcat
  <2> HIDE DEF one
  <2>w. w \in Seq(S)
    BY <1>1
  <2>5. (u \o w) \o one = u \o (w \o one)
    BY <2>w, <2>1, ConcatAssociative
  <2> QED
    BY <2>3, <2>4, <2>5
<1> QED
  BY <1>6, <1>7 DEF w, x, e

-----------------------------------------------------------------------------
(* One call, at each place of a pass *)

\* What the items mean in a table.
Meaning(table, m) ==
    /\ table \in {opts, moj_opts} /\ m \in [1 .. Len(items) -> Seq(Readings)]
    /\ \A k \in 1 .. Len(items) : Means(items[k].words, table, m[k])

\* The call meets what is ahead of the items that were read.
LEMMA CallMeets ==
    ASSUME items \in Seq(Items), ending \in Endings, NEW i \in 0 .. Len(items),
           NEW a, Reached(a, optind, i), subopt \in Nat,
           Upto(i) + 1 <= Len(a) => Written[Upto(i) + 1].kind # "word",
           NEW table, NEW call \in Calls(a, table)
    PROVE  LET p == Upto(i) + 1
           IN  /\ call.array = Permute(a, optind, p, call.r.used)
               /\ p \in Nat /\ optind \in Nat /\ optind >= 1 /\ optind <= p
               /\ p <= Len(a) + 1 /\ Len(a) \in Nat
               /\ \/ p > Len(a) /\ call.r = Return("-1", NoArg, 0, subopt)
                  \/ /\ p <= Len(a) /\ Written[p].kind = "dashdash"
                     /\ call.r = Return("-1", NoArg, 1, subopt)
                  \/ /\ p <= Len(a) /\ Written[p].kind = "short"
                     /\ \E c \in Rest(Written[p].text) :
                            call.r = ShortOption(c, NextOf(a, p), table)
                  \/ /\ p <= Len(a) /\ Written[p].kind = "long"
                     /\ call.r = LongOption(Written[p].text, NextOf(a, p), table)
<1> DEFINE p == Upto(i) + 1
<1>1. /\ a \in Seq(Argument) /\ Len(a) = Len(Written) /\ optind \in 1 .. p
  BY DEF Reached
<1>2. Upto(i) \in Nat /\ Len(a) \in Nat /\ Upto(i) <= Len(a)
  BY <1>1, UptoType
<1>3. optind \in 1 .. Len(a) + 1 /\ p \in 1 .. Len(a) + 1 /\ p \in Nat
      /\ optind \in Nat /\ optind >= 1 /\ optind <= p
  BY <1>1, <1>2
<1>4. NextOption(a) = p /\ (p <= Len(a) => a[p] = Written[p])
  BY NextAt
<1>5. call.r \in Parse(a, p, table) /\ call.array = Permute(a, optind, p, call.r.used)
  BY <1>1, <1>3, <1>4, CallType
<1> DEFINE r == call.r
<1> HIDE DEF p, r
<1>6. p <= Len(a) => a[p].kind # "word"
  BY <1>4 DEF p
<1>r. r \in Parse(a, p, table)
  BY <1>5 DEF r
<1>7. \/ p > Len(a) /\ r = Return("-1", NoArg, 0, subopt)
      \/ /\ p <= Len(a) /\ a[p].kind = "dashdash"
         /\ r = Return("-1", NoArg, 1, subopt)
      \/ /\ p <= Len(a) /\ a[p].kind = "short"
         /\ \E c \in Rest(a[p].text) : r = ShortOption(c, NextOf(a, p), table)
      \/ /\ p <= Len(a) /\ a[p].kind = "long"
         /\ r = LongOption(a[p].text, NextOf(a, p), table)
  BY <1>1, <1>3, <1>6, <1>r, ParseCases
<1>8. \/ p > Len(a) /\ r = Return("-1", NoArg, 0, subopt)
      \/ /\ p <= Len(a) /\ Written[p].kind = "dashdash"
         /\ r = Return("-1", NoArg, 1, subopt)
      \/ /\ p <= Len(a) /\ Written[p].kind = "short"
         /\ \E c \in Rest(Written[p].text) : r = ShortOption(c, NextOf(a, p), table)
      \/ /\ p <= Len(a) /\ Written[p].kind = "long"
         /\ r = LongOption(Written[p].text, NextOf(a, p), table)
  BY <1>4, <1>7
<1>9. p <= Len(a) + 1
  BY <1>3
<1> QED
  BY <1>2, <1>3, <1>5, <1>8, <1>9 DEF p, r

\* What is read of the words of an item.
ItemReturn(r, words, table) ==
    \E next : (Len(words) > 1 => next = words[2]) /\
        \/ words[1].kind = "short" /\ \E c \in Rest(words[1].text) :
               r = ShortOption(c, next, table)
        \/ words[1].kind = "long" /\ r = LongOption(words[1].text, next, table)

\* The same at an item.
LEMMA ItemMeets ==
    ASSUME items \in Seq(Items), ending \in Endings, NEW i \in 0 .. Len(items) - 1,
           NEW a, Reached(a, optind, i), subopt \in Nat,
           items[i + 1].words[1].kind # "word",
           NEW table, NEW call \in Calls(a, table)
    PROVE  LET p == Upto(i) + 1
               words == items[i + 1].words
           IN  /\ call.array = Permute(a, optind, p, call.r.used)
               /\ p \in Nat /\ optind \in Nat /\ optind >= 1 /\ optind <= p
               /\ p <= Len(a) + 1 /\ a \in Seq(Argument)
               /\ words \in Seq(Argument) /\ words # <<>>
               /\ ItemReturn(call.r, words, table)
<1> DEFINE p == Upto(i) + 1
<1> DEFINE words == items[i + 1].words
<1>1. /\ Upto(i) \in Nat /\ Len(words) \in Nat \ {0} /\ words \in Seq(Argument)
      /\ Upto(i + 1) = Upto(i) + Len(words) /\ Upto(i + 1) <= Len(Written)
      /\ \A j \in 1 .. Len(words) : Written[Upto(i) + j] = words[j]
      /\ items[i + 1] \in Items
  BY ItemCells
<1>2. /\ a \in Seq(Argument) /\ Len(a) = Len(Written)
      /\ \A x \in p .. Len(a) : a[x] = Written[x]
  BY DEF Reached
<1>3. words[1].kind # "dashdash" /\ words # <<>>
  BY <1>1, ItemsAssumption
<1> HIDE DEF words
<1>4. /\ Written[p] = words[1] /\ p <= Len(a) /\ ~(p > Len(a)) /\ i \in 0 .. Len(items)
      /\ Len(a) \in Nat /\ p \in Nat
  <2>1. 1 \in 1 .. Len(words) /\ Written[Upto(i) + 1] = words[1]
    BY <1>1
  <2>2. Len(a) \in Nat /\ p \in Nat /\ i \in 0 .. Len(items)
    BY <1>1, <1>2
  <2>3. p <= Len(a) /\ ~(p > Len(a))
    BY <1>1, <1>2, <2>2
  <2> QED
    BY <2>1, <2>2, <2>3
<1>k. Written[p].kind # "word"
  BY <1>4 DEF words
<1>n. Len(words) > 1 => NextOf(a, p) = words[2]
  <2> SUFFICES ASSUME Len(words) > 1 PROVE NextOf(a, p) = words[2]
    OBVIOUS
  <2>1. 2 \in 1 .. Len(words) /\ Upto(i) + 2 = p + 1 /\ p + 1 \in p .. Len(a) /\ p < Len(a)
    BY <1>1, <1>2, <1>4
  <2>2. a[p + 1] = Written[p + 1] /\ Written[p + 1] = words[2]
    BY <1>1, <1>2, <2>1
  <2> QED
    BY <2>1, <2>2 DEF NextOf
<1>5. /\ call.array = Permute(a, optind, p, call.r.used)
      /\ p \in Nat /\ optind \in Nat /\ optind >= 1 /\ optind <= p
      /\ p <= Len(a) + 1
      /\ \/ p > Len(a) /\ call.r = Return("-1", NoArg, 0, subopt)
         \/ /\ p <= Len(a) /\ Written[p].kind = "dashdash"
            /\ call.r = Return("-1", NoArg, 1, subopt)
         \/ /\ p <= Len(a) /\ Written[p].kind = "short"
            /\ \E c \in Rest(Written[p].text) :
                   call.r = ShortOption(c, NextOf(a, p), table)
         \/ /\ p <= Len(a) /\ Written[p].kind = "long"
            /\ call.r = LongOption(Written[p].text, NextOf(a, p), table)
  BY <1>4, <1>k, CallMeets
<1> HIDE DEF p
<1>6. \/ words[1].kind = "short" /\ \E c \in Rest(words[1].text) :
             call.r = ShortOption(c, NextOf(a, p), table)
      \/ words[1].kind = "long" /\
             call.r = LongOption(words[1].text, NextOf(a, p), table)
  BY <1>3, <1>4, <1>5
<1>7. ItemReturn(call.r, words, table)
  BY <1>6, <1>n DEF ItemReturn
<1> QED
  BY <1>1, <1>2, <1>3, <1>5, <1>7 DEF p, words

\* An option of a cluster: the next one is there, or the item is read.
LEMMA ClusterStep ==
    ASSUME items \in Seq(Items), ending \in Endings, PlainArguments,
           NEW i \in 0 .. Len(items) - 1, NEW a, Reached(a, optind, i),
           NEW table, NEW m, Meaning(table, m), NEW k,
           items[i + 1].words[1].kind = "short",
           ClusterMeans(items[i + 1].words, table, m[i + 1], k),
           subopt \in 0 .. k - 1, NEW call \in Calls(a, table)
    PROVE  /\ OfShort(table, call.r.opt) # {}
           /\ Underway(call.array, optind + call.r.used, call.r.subopt, table, m,
                      Append(Joined(m, i) \o SubSeq(m[i + 1], 1, subopt),
                             <<call.r.opt, call.r.optarg>>))
<1> DEFINE words == items[i + 1].words
<1> DEFINE means == m[i + 1]
<1> DEFINE r == call.r
<1> DEFINE p == Upto(i) + 1
<1>0. i + 1 \in 1 .. Len(items) /\ i + 1 \in 0 .. Len(items) /\ i \in 0 .. Len(items)
      /\ Len(items) \in Nat
  BY WordsType
<1>1. means \in Seq(Readings) /\ m \in [1 .. Len(items) -> Seq(Readings)]
  BY <1>0 DEF Meaning
<1>2. k \in Nat /\ subopt \in Nat /\ Len(means) = k
  BY DEF ClusterMeans
<1>3. /\ call.array = Permute(a, optind, p, r.used)
      /\ p \in Nat /\ optind \in Nat /\ optind >= 1 /\ optind <= p
      /\ p <= Len(a) + 1 /\ a \in Seq(Argument)
      /\ words \in Seq(Argument) /\ words # <<>>
      /\ ItemReturn(r, words, table)
  <2>1. items[i + 1].words[1].kind # "word"
    OBVIOUS
  <2> QED
    BY <1>2, <2>1, ItemMeets
<1>4. /\ OfShort(table, r.opt) # {}
      /\ <<r.opt, r.optarg>> = means[subopt + 1]
      /\ \/ subopt + 1 < k /\ r.used = 0 /\ r.subopt = subopt + 1
         \/ /\ subopt + 1 = k /\ r.subopt = 0
            /\ r.used \in {1, 2} /\ r.used <= Len(words)
  <2>1. words[1].kind = "short" /\ ClusterMeans(words, table, means, k)
    OBVIOUS
  <2>2. PICK next : (Len(words) > 1 => next = words[2]) /\
            \E c \in Rest(words[1].text) : r = ShortOption(c, next, table)
    BY <1>3, <2>1 DEF ItemReturn
  <2>3. PICK c \in Rest(words[1].text) : r = ShortOption(c, next, table)
    BY <2>2
  <2>4. words \in Seq(Argument) /\ words # <<>> /\ means \in Seq(Readings)
        /\ (Len(words) > 1 => next = words[2]) /\ subopt \in 0 .. k - 1
    BY <1>1, <1>3, <2>2
  <2> HIDE DEF r, means, words
  <2>5. LET s == ShortOption(c, next, table)
        IN  /\ OfShort(table, s.opt) # {}
            /\ <<s.opt, s.optarg>> = means[subopt + 1]
            /\ \/ subopt + 1 < k /\ s.used = 0 /\ s.subopt = subopt + 1
               \/ /\ subopt + 1 = k /\ s.subopt = 0
                  /\ s.used \in {1, 2} /\ s.used <= Len(words)
    BY <2>1, <2>4, ClusterRead
  <2> QED
    BY <2>3, <2>5
<1>5. Joined(m, i) \in Seq(Readings)
  BY <1>0, <1>1, JoinedType
<1> DEFINE u == Joined(m, i)
<1> DEFINE read == Append(u \o SubSeq(means, 1, subopt), <<r.opt, r.optarg>>)
<1>6. read = u \o SubSeq(means, 1, subopt + 1)
  <2>1. subopt \in 0 .. Len(means) - 1
    BY <1>2
  <2> HIDE DEF u, means
  <2>2. Append(u \o SubSeq(means, 1, subopt), means[subopt + 1])
            = u \o SubSeq(means, 1, subopt + 1)
    BY <1>1, <1>5, <2>1, AppendNext DEF u
  <2> QED
    BY <1>4, <2>2
<1>7. CASE subopt + 1 < k /\ r.used = 0 /\ r.subopt = subopt + 1
  <2>1. call.array = a
    BY <1>3, <1>7, PermuteNone
  <2>2. optind + r.used = optind
    BY <1>3, <1>7
  <2>3. subopt + 1 \in 1 .. k - 1
    BY <1>2, <1>7
  <2>4. InCluster(call.array, optind + r.used, r.subopt, table, m, read, i, k)
    BY <1>6, <1>7, <2>1, <2>2, <2>3 DEF InCluster
  <2> QED
    BY <1>4, <2>4 DEF Underway
<1>8. CASE /\ subopt + 1 = k /\ r.subopt = 0
           /\ r.used \in {1, 2} /\ r.used <= Len(words)
  <2>1. Reached(call.array, optind + r.used, i + 1)
    <3> DEFINE used == r.used
    <3>1. used \in {1, 2} /\ used <= Len(items[i + 1].words)
      BY <1>8
    <3> HIDE DEF used
    <3>2. Reached(Permute(a, optind, Upto(i) + 1, used), optind + used, i + 1)
      BY <3>1, ReachedUsed
    <3> QED
      BY <1>3, <3>2 DEF used
  <2>2. SubSeq(means, 1, Len(means)) = means
    BY <1>1
  <2>3. read = Joined(m, i + 1)
    <3>1. Joined(m, i + 1) = Joined(m, i) \o m[i + 1]
      BY <1>0, <1>1, JoinedNext
    <3>2. subopt + 1 = Len(means)
      BY <1>2, <1>8
    <3> QED
      BY <1>6, <2>2, <3>1, <3>2
  <2>4. AtItem(call.array, optind + r.used, r.subopt, m, read, i + 1)
    BY <1>0, <1>8, <2>1, <2>3 DEF AtItem
  <2> QED
    BY <1>4, <2>4 DEF Underway
<1> QED
  BY <1>4, <1>7, <1>8

\* What a call may do: end the pass when all has been read, pass over what is
\* not known, or read one option more.
Steps(call, table, m, read) ==
    \/ /\ call.r.opt = "-1" /\ read = Joined(m, Len(items))
       /\ ending.command # <<>> =>
              \A x \in Upto(Len(items)) + 2 .. Len(Written) : call.array[x] = Written[x]
    \/ /\ call.r.opt = "?"
       /\ Underway(call.array, optind + call.r.used, call.r.subopt, table, m, read)
    \/ /\ OfShort(table, call.r.opt) # {}
       /\ Underway(call.array, optind + call.r.used, call.r.subopt, table, m,
                  Append(read, <<call.r.opt, call.r.optarg>>))

\* An item that means nothing, or a long option.
PlainMeans(words, table, means) ==
    \/ means = <<>> /\ MeansNothing(words[1], table)
    \/ words[1].kind = "long" /\ LongMeans(words, table, means)

LEMMA PlainStep ==
    ASSUME items \in Seq(Items), ending \in Endings, PlainArguments,
           NEW i \in 0 .. Len(items) - 1, NEW a, Reached(a, optind, i), subopt \in 0 .. 0,
           NEW table, NEW m, Meaning(table, m),
           items[i + 1].words[1].kind # "word",
           PlainMeans(items[i + 1].words, table, m[i + 1]),
           NEW call \in Calls(a, table)
    PROVE  Steps(call, table, m, Joined(m, i))
<1> DEFINE words == items[i + 1].words
<1> DEFINE means == m[i + 1]
<1> DEFINE r == call.r
<1> DEFINE p == Upto(i) + 1
<1> DEFINE u == Joined(m, i)
<1>0. i + 1 \in 1 .. Len(items) /\ i + 1 \in 0 .. Len(items) /\ i \in 0 .. Len(items)
      /\ Len(items) \in Nat
  BY WordsType
<1>1. means \in Seq(Readings) /\ m \in [1 .. Len(items) -> Seq(Readings)]
  BY <1>0 DEF Meaning
<1>2. /\ call.array = Permute(a, optind, p, r.used)
      /\ words \in Seq(Argument) /\ words # <<>> /\ ItemReturn(r, words, table)
  <2>1. items[i + 1].words[1].kind # "word" /\ subopt \in Nat
    OBVIOUS
  <2> QED
    BY <2>1, ItemMeets
<1>3. PICK next : (Len(words) > 1 => next = words[2]) /\
             \/ words[1].kind = "short" /\ \E c \in Rest(words[1].text) :
                    r = ShortOption(c, next, table)
             \/ words[1].kind = "long" /\
                    r = LongOption(words[1].text, next, table)
  BY <1>2 DEF ItemReturn
<1>4. Joined(m, i + 1) = u \o means /\ u \in Seq(Readings)
  BY <1>0, <1>1, JoinedNext, JoinedType
<1>5. Len(words) \in Nat \ {0} /\ words[1] \in Argument
  <2>1. Len(words) \in Nat \ {0}
    BY <1>2, EmptySeq
  <2>2. 1 \in 1 .. Len(words)
    BY <2>1
  <2> QED
    BY <1>2, <2>1, <2>2, ElementOfSeq
<1>6. ASSUME r.used \in {1, 2}, r.used <= Len(words)
      PROVE  Reached(call.array, optind + r.used, i + 1)
  <2> DEFINE used == r.used
  <2>1. used \in {1, 2} /\ used <= Len(items[i + 1].words)
    BY <1>6
  <2> HIDE DEF used
  <2>2. Reached(Permute(a, optind, Upto(i) + 1, used), optind + used, i + 1)
    BY <2>1, ReachedUsed
  <2> QED
    BY <1>2, <2>2 DEF used
<1>7. CASE means = <<>> /\ MeansNothing(words[1], table)
  <2>1. r = UnknownOption
    <3>1. /\ words[1].kind = "short" => \A c \in Rest(words[1].text) :
                 ShortOption(c, next, table) = UnknownOption
          /\ words[1].kind = "long" => LongOption(words[1].text, next, table) = UnknownOption
      <4>1. subopt = 0
        OBVIOUS
      <4> HIDE DEF words
      <4> QED
        BY <1>5, <1>7, <4>1, NothingRead
    <3> QED
      BY <1>3, <3>1
  <2>2. r.opt = "?" /\ r.used = 1 /\ r.subopt = 0
    BY <2>1 DEF UnknownOption, Return
  <2>3. r.used \in {1, 2} /\ r.used <= Len(words)
    BY <1>5, <2>2
  <2>4. Reached(call.array, optind + r.used, i + 1)
    BY <1>6, <2>3
  <2>5. u = Joined(m, i + 1)
    BY <1>4, <1>7, ConcatEmptySeq
  <2>6. AtItem(call.array, optind + r.used, r.subopt, m, u, i + 1)
    BY <1>0, <2>2, <2>4, <2>5 DEF AtItem
  <2>7. Underway(call.array, optind + r.used, r.subopt, table, m, u)
    BY <2>6 DEF Underway
  <2> QED
    BY <2>2, <2>7 DEF Steps
<1>8. CASE words[1].kind = "long" /\ LongMeans(words, table, means)
  <2>1. r = LongOption(words[1].text, next, table)
    BY <1>3, <1>8
  <2>2. /\ <<r.opt, r.optarg>> = means[1] /\ Len(means) = 1
        /\ OfShort(table, r.opt) # {} /\ r.subopt = subopt
        /\ r.used \in {1, 2} /\ r.used <= Len(words)
    <3>1. LET s == LongOption(words[1].text, next, table)
          IN  /\ <<s.opt, s.optarg>> = means[1] /\ Len(means) = 1
              /\ OfShort(table, s.opt) # {} /\ s.subopt = subopt
              /\ s.used \in {1, 2} /\ s.used <= Len(words)
      <4> HIDE DEF words, means, r
      <4> QED
        BY <1>1, <1>2, <1>3, <1>8, LongRead
    <3> QED
      BY <2>1, <3>1
  <2>3. Reached(call.array, optind + r.used, i + 1)
    BY <1>6, <2>2
  <2>4. Append(u, <<r.opt, r.optarg>>) = Joined(m, i + 1)
    <3> DEFINE e == means[1]
    <3>1. e \in Readings
      <4>1. 1 \in 1 .. Len(means)
        BY <2>2
      <4> QED
        BY <1>1, <4>1, ElementOfSeq
    <3>2. means = <<e>>
      BY <1>1, <2>2
    <3> HIDE DEF e, u, means
    <3>3. Append(u, e) = u \o <<e>>
      BY <1>4, <3>1, AppendIsConcat
    <3> QED
      BY <1>4, <2>2, <3>2, <3>3 DEF e
  <2>5. AtItem(call.array, optind + r.used, r.subopt, m,
               Append(u, <<r.opt, r.optarg>>), i + 1)
    BY <1>0, <2>2, <2>3, <2>4 DEF AtItem
  <2>6. Underway(call.array, optind + r.used, r.subopt, table, m,
                Append(u, <<r.opt, r.optarg>>))
    BY <2>5 DEF Underway
  <2> QED
    BY <2>2, <2>6 DEF Steps
<1> QED
  BY <1>7, <1>8 DEF PlainMeans

\* What follows the items: "--", nothing, or an option that is not complete.
LEMMA EndingStep ==
    ASSUME items \in Seq(Items), ending \in Endings,
           NEW a, Reached(a, optind, Len(items)), subopt = 0,
           NEW table \in {opts, moj_opts}, NEW m, NEW call \in Calls(a, table)
    PROVE  Steps(call, table, m, Joined(m, Len(items)))
<1> DEFINE i == Len(items)
<1> DEFINE p == Upto(i) + 1
<1> DEFINE r == call.r
<1> DEFINE w == ending.words
<1>1. /\ Written \in Seq(Argument) /\ i \in Nat /\ Upto(i) \in Nat /\ Len(w) \in Nat
      /\ Len(Written) = Upto(i) + Len(w)
      /\ \A j \in 1 .. Len(w) : Written[Upto(i) + j] = w[j]
  BY WrittenCells
<1>2. /\ a \in Seq(Argument) /\ Len(a) = Len(Written) /\ optind \in 1 .. p
      /\ \A x \in optind .. Upto(i) : a[x].kind = "word"
      /\ \A x \in p .. Len(a) : a[x] = Written[x]
  BY DEF Reached
<1>3. w \in Seq(Argument) /\ ending.command \in Seq(Argument)
  BY EndingType
<1>4. \/ w = <<DashDash>> \o ending.command
      \/ w = <<>> /\ ending.command = <<>>
      \/ /\ Len(w) = 1 /\ ending.command = <<>> /\ Lacks(w[1], table)
  BY EndingsAssumption
<1>5. i \in 0 .. i /\ subopt \in Nat
  BY <1>1
<1> HIDE DEF w
<1>6. ASSUME Written[p].kind # "word" \/ ~(p <= Len(a))
      PROVE  /\ call.array = Permute(a, optind, p, r.used)
             /\ p \in Nat /\ optind \in Nat /\ optind >= 1 /\ optind <= p
             /\ p <= Len(a) + 1 /\ Len(a) \in Nat
             /\ \/ p > Len(a) /\ r = Return("-1", NoArg, 0, subopt)
                \/ /\ p <= Len(a) /\ Written[p].kind = "dashdash"
                   /\ r = Return("-1", NoArg, 1, subopt)
                \/ /\ p <= Len(a) /\ Written[p].kind = "short"
                   /\ \E c \in Rest(Written[p].text) :
                          r = ShortOption(c, NextOf(a, p), table)
                \/ /\ p <= Len(a) /\ Written[p].kind = "long"
                   /\ r = LongOption(Written[p].text, NextOf(a, p), table)
  <2>1. p <= Len(a) => Written[p].kind # "word"
    BY <1>6
  <2>2. i \in 0 .. Len(items)
    BY <1>5
  <2> HIDE DEF i
  <2>3. Reached(a, optind, i)
    BY DEF i
  <2> QED
    BY <1>5, <2>1, <2>2, <2>3, CallMeets
<1>7. CASE w = <<DashDash>> \o ending.command
  <2> DEFINE v == ending.command
  <2> HIDE DEF v
  <2>1. /\ Len(w) = 1 + Len(v) /\ Len(v) \in Nat /\ w[1] = DashDash
    <3>1. <<DashDash>> \in Seq({DashDash}) /\ v \in Seq(Argument) /\ Len(<<DashDash>>) = 1
          /\ <<DashDash>>[1] = DashDash
      BY <1>3 DEF v
    <3>2. Len(<<DashDash>> \o v) = 1 + Len(v) /\ (<<DashDash>> \o v)[1] = DashDash
      BY <3>1
    <3>3. w = <<DashDash>> \o v
      BY <1>7 DEF v
    <3> QED
      BY <3>1, <3>2, <3>3
  <2>2. Written[p] = w[1] /\ p <= Len(a) /\ Len(a) \in Nat /\ p \in Nat
    <3>1. 1 \in 1 .. Len(w)
      BY <2>1
    <3>2. Written[Upto(i) + 1] = w[1]
      BY <1>1, <3>1
    <3> QED
      BY <1>1, <1>2, <2>1, <3>2
  <2>3. Written[p].kind = "dashdash"
    BY <2>1, <2>2 DEF DashDash
  <2>4. r = Return("-1", NoArg, 1, subopt) /\ call.array = Permute(a, optind, p, r.used)
        /\ optind \in Nat /\ optind >= 1 /\ optind <= p
    BY <1>6, <2>2, <2>3
  <2>5. r.opt = "-1" /\ r.used = 1
    BY <2>4 DEF Return
  <2> HIDE DEF p, r
  <2>6. \A x \in p + 1 .. Len(a) : call.array[x] = Written[x]
    <3>1. /\ \A x \in 1 .. Len(a) : Permute(a, optind, p, 1)[x] = a[Source(x, optind, p, 1)]
      <4>1. p + 1 <= Len(a) + 1 /\ 1 \in Nat
        BY <2>2
      <4> QED
        BY <1>2, <2>2, <2>4, <4>1, PermuteCells
    <3> SUFFICES ASSUME NEW x \in p + 1 .. Len(a) PROVE call.array[x] = Written[x]
      OBVIOUS
    <3>2. x \in 1 .. Len(a) /\ x \in p .. Len(a) /\ ~(x < optind) /\ ~(x < optind + 1)
          /\ ~(x < p + 1)
      BY <2>2, <2>4
    <3>3. Source(x, optind, p, 1) = x
      BY <3>2 DEF Source
    <3> QED
      BY <1>2, <2>4, <2>5, <3>1, <3>2, <3>3
  <2>7. \A x \in Upto(i) + 2 .. Len(Written) : call.array[x] = Written[x]
    <3>1. Upto(i) + 2 = p + 1
      BY <1>1 DEF p
    <3> QED
      BY <1>2, <2>6, <3>1
  <2> QED
    BY <2>5, <2>7 DEF Steps, r
<1>8. CASE w = <<>> /\ ending.command = <<>>
  <2>1. Len(w) = 0
    BY <1>8
  <2>2. p > Len(a) /\ ~(p <= Len(a))
    BY <1>1, <1>2, <2>1
  <2>3. r = Return("-1", NoArg, 0, subopt)
    BY <1>6, <2>2
  <2>4. r.opt = "-1"
    BY <2>3 DEF Return
  <2> QED
    BY <1>8, <2>4 DEF Steps
<1>9. CASE Len(w) = 1 /\ ending.command = <<>> /\ Lacks(w[1], table)
  <2>1. Written[p] = w[1] /\ p = Len(a) /\ Len(a) \in Nat /\ p \in Nat /\ w[1] \in Argument
    <3>1. 1 \in 1 .. Len(w)
      BY <1>9
    <3>2. Written[Upto(i) + 1] = w[1]
      BY <1>1, <3>1
    <3>3. w[1] \in Argument
      BY <1>3, <3>1, ElementOfSeq
    <3> QED
      BY <1>1, <1>2, <1>9, <3>2, <3>3
  <2>2. NextOf(a, p) = NoArg
    BY <2>1 DEF NextOf
  <2>3. /\ w[1].kind \in {"short", "long"}
        /\ w[1].kind = "short" => \A c \in Rest(w[1].text) :
               ShortOption(c, NoArg, table) = Return("?", NoArg, 1, 0)
        /\ w[1].kind = "long" =>
               LongOption(w[1].text, NoArg, table) = Return("?", NoArg, 1, 0)
    BY <1>9, <2>1, LackRead
  <2>4. Written[p].kind # "word" /\ Written[p].kind # "dashdash" /\ ~(p > Len(a))
    BY <2>1, <2>3
  <2>5. r = Return("?", NoArg, 1, 0) /\ call.array = Permute(a, optind, p, r.used)
        /\ optind \in Nat /\ optind >= 1 /\ optind <= p
    BY <1>6, <2>1, <2>2, <2>3, <2>4
  <2>6. r.opt = "?" /\ r.used = 1 /\ r.subopt = 0
    BY <2>5 DEF Return
  <2> HIDE DEF p, r
  <2>7. Done(call.array, optind + r.used)
    <3>0. p + 1 <= Len(a) + 1 /\ 1 \in Nat
      BY <2>1
    <3>1. /\ Permute(a, optind, p, 1) \in Seq(Argument)
          /\ Len(Permute(a, optind, p, 1)) = Len(a)
          /\ \A x \in 1 .. Len(a) : Permute(a, optind, p, 1)[x] = a[Source(x, optind, p, 1)]
      BY <1>2, <2>1, <2>5, <3>0, PermuteCells
    <3>2. ASSUME NEW x \in optind + 1 .. Len(a) PROVE call.array[x].kind = "word"
      <4>1. x \in 1 .. Len(a) /\ ~(x < optind) /\ ~(x < optind + 1) /\ x < p + 1
        BY <2>1, <2>5
      <4>2. Source(x, optind, p, 1) = x - 1
        BY <4>1 DEF Source
      <4>3. x - 1 \in optind .. Upto(i)
        BY <1>1, <2>1, <2>5 DEF p
      <4> QED
        BY <1>2, <2>5, <2>6, <3>1, <4>1, <4>2, <4>3
    <3>3. optind + 1 \in 1 .. Len(a) + 1
      BY <2>1, <2>5
    <3>4. call.array = Permute(a, optind, p, 1) /\ optind + r.used = optind + 1
      BY <2>5, <2>6
    <3> QED
      BY <1>2, <1>9, <3>1, <3>2, <3>3, <3>4 DEF Done
  <2>8. AtEnd(call.array, optind + r.used, r.subopt, m, Joined(m, Len(items)))
    BY <2>6, <2>7 DEF AtEnd
  <2> QED
    BY <2>6, <2>8 DEF Steps, Underway, r
<1> QED
  BY <1>4, <1>7, <1>8, <1>9

\* Behind it there is nothing.
LEMMA EndStep ==
    ASSUME NEW a, Done(a, optind), subopt = 0, NEW table, NEW m, NEW call \in Calls(a, table)
    PROVE  Steps(call, table, m, Joined(m, Len(items)))
<1> DEFINE p == NextOption(a)
<1>1. /\ a \in Seq(Argument) /\ optind \in 1 .. Len(a) + 1
      /\ \A x \in optind .. Len(a) : a[x].kind = "word" /\ ending.command = <<>>
  BY DEF Done
<1>2. /\ p \in optind .. Len(a) + 1 /\ (p <= Len(a) => a[p].kind # "word")
  BY <1>1, Ahead
<1>3. p > Len(a)
  <2> HIDE DEF p
  <2>1. p <= Len(a) => p \in optind .. Len(a)
    BY <1>1, <1>2
  <2>2. p \in Nat /\ Len(a) \in Nat
    BY <1>1, <1>2
  <2> QED
    BY <1>1, <1>2, <2>1, <2>2
<1>4. call.r \in Parse(a, p, table)
  BY <1>1, CallType
<1>5. call.r = Return("-1", NoArg, 0, subopt)
  BY <1>3, <1>4 DEF Parse
<1>6. call.r.opt = "-1" /\ ending.command = <<>>
  BY <1>5 DEF Return, Done
<1> QED
  BY <1>6 DEF Steps

LEMMA ReadStep ==
    ASSUME items \in Seq(Items), ending \in Endings, PlainArguments,
           NEW a, NEW table, NEW m, Meaning(table, m), NEW read,
           Underway(a, optind, subopt, table, m, read), NEW call \in Calls(a, table)
    PROVE  Steps(call, table, m, read)
<1>0. Len(items) \in Nat
  BY WordsType
<1>m. m \in [1 .. Len(items) -> Seq(Readings)] /\ table \in {opts, moj_opts}
      /\ \A k \in 1 .. Len(items) : Means(items[k].words, table, m[k])
  BY DEF Meaning
<1>1. ASSUME NEW i, AtItem(a, optind, subopt, m, read, i) PROVE Steps(call, table, m, read)
  <2>1. i \in 0 .. Len(items) /\ Reached(a, optind, i) /\ subopt = 0 /\ read = Joined(m, i)
    BY <1>1 DEF AtItem
  <2>2. PICK l \in 0 .. Len(items) :
            /\ Reached(a, optind, l) /\ Joined(m, l) = Joined(m, i)
            /\ l < Len(items) => items[l + 1].words[1].kind # "word"
    BY <1>m, <2>1, SkipTo
  <2>3. CASE l = Len(items)
    <3>1. Reached(a, optind, Len(items)) /\ read = Joined(m, Len(items))
      BY <2>1, <2>2, <2>3
    <3> QED
      BY <1>m, <2>1, <3>1, EndingStep
  <2>4. CASE l # Len(items)
    <3>1. l \in 0 .. Len(items) - 1 /\ l + 1 \in 1 .. Len(items)
          /\ items[l + 1].words[1].kind # "word"
      BY <1>0, <2>2, <2>4
    <3>2. Means(items[l + 1].words, table, m[l + 1])
      BY <1>m, <3>1
    <3>3. CASE items[l + 1].words[1].kind = "short" /\ \E k \in 1 .. Len(m[l + 1]) :
                   ClusterMeans(items[l + 1].words, table, m[l + 1], k)
      <4>1. PICK k \in 1 .. Len(m[l + 1]) : ClusterMeans(items[l + 1].words, table, m[l + 1], k)
        BY <3>3
      <4>2. k \in Nat /\ k >= 1 /\ m[l + 1] \in Seq(Readings) /\ l \in 0 .. Len(items)
        BY <1>m, <2>2, <3>1, <4>1
      <4>3. subopt \in 0 .. k - 1
        BY <2>1, <4>2
      <4>4. /\ OfShort(table, call.r.opt) # {}
            /\ Underway(call.array, optind + call.r.used, call.r.subopt, table, m,
                       Append(Joined(m, l) \o SubSeq(m[l + 1], 1, subopt),
                              <<call.r.opt, call.r.optarg>>))
        BY <2>2, <3>1, <3>3, <4>1, <4>3, ClusterStep
      <4>5. Joined(m, l) \o SubSeq(m[l + 1], 1, subopt) = read
        <5>1. SubSeq(m[l + 1], 1, 0) = <<>>
          BY <4>2
        <5>2. Joined(m, l) \in Seq(Readings)
          BY <1>0, <1>m, <4>2, JoinedType
        <5> QED
          BY <2>1, <2>2, <5>1, <5>2, ConcatEmptySeq
      <4> QED
        BY <4>4, <4>5 DEF Steps
    <3>4. CASE PlainMeans(items[l + 1].words, table, m[l + 1])
      <4>1. Steps(call, table, m, Joined(m, l))
        <5>1. subopt \in 0 .. 0
          BY <2>1
        <5> QED
          BY <2>2, <3>1, <3>4, <5>1, PlainStep
      <4> QED
        BY <2>1, <2>2, <4>1
    <3> QED
      BY <3>2, <3>3, <3>4 DEF Means, PlainMeans
  <2> QED
    BY <2>3, <2>4
<1>2. ASSUME NEW i, NEW k, InCluster(a, optind, subopt, table, m, read, i, k)
      PROVE  Steps(call, table, m, read)
  <2>1. /\ i \in 0 .. Len(items) - 1 /\ Reached(a, optind, i)
        /\ items[i + 1].words[1].kind = "short"
        /\ ClusterMeans(items[i + 1].words, table, m[i + 1], k)
        /\ subopt \in 1 .. k - 1
        /\ read = Joined(m, i) \o SubSeq(m[i + 1], 1, subopt)
    BY <1>2 DEF InCluster
  <2>2. subopt \in 0 .. k - 1
    BY <2>1 DEF ClusterMeans
  <2>3. /\ OfShort(table, call.r.opt) # {}
        /\ Underway(call.array, optind + call.r.used, call.r.subopt, table, m,
                   Append(Joined(m, i) \o SubSeq(m[i + 1], 1, subopt),
                          <<call.r.opt, call.r.optarg>>))
    BY <2>1, <2>2, ClusterStep
  <2> QED
    BY <2>1, <2>3 DEF Steps
<1>3. ASSUME AtEnd(a, optind, subopt, m, read) PROVE Steps(call, table, m, read)
  <2>1. Done(a, optind) /\ subopt = 0 /\ read = Joined(m, Len(items))
    BY <1>3 DEF AtEnd
  <2> QED
    BY <2>1, EndStep
<1> QED
  BY <1>1, <1>2, <1>3 DEF Underway

-----------------------------------------------------------------------------
(* What has been read, when the next option is *)

LEMMA ClusterLength ==
    ASSUME NEW words, NEW table, NEW means, NEW k,
           ClusterMeans(words, table, means, k)
    PROVE  k \in Nat /\ k \in 1 .. Len(words[1].text) /\ Len(means) = k
<1>1. k \in 1 .. Len(words[1].text) /\ Len(means) = k
  BY DEF ClusterMeans
<1> QED
  BY <1>1

LEMMA UnderwayType ==
    ASSUME items \in Seq(Items), NEW a, NEW at, NEW off, NEW table, NEW m, NEW read,
           Meaning(table, m), Underway(a, at, off, table, m, read)
    PROVE  read \in Seq(Readings)
<1>0. Len(items) \in Nat /\ m \in [1 .. Len(items) -> Seq(Readings)]
  BY WordsType DEF Meaning
<1>1. ASSUME NEW i \in 0 .. Len(items) PROVE Joined(m, i) \in Seq(Readings)
  BY <1>0, JoinedType
<1>2. ASSUME NEW i, AtItem(a, at, off, m, read, i) PROVE read \in Seq(Readings)
  BY <1>1, <1>2 DEF AtItem
<1>3. ASSUME NEW i, NEW k, InCluster(a, at, off, table, m, read, i, k)
      PROVE  read \in Seq(Readings)
  <2>1. /\ i \in 0 .. Len(items) - 1 /\ off \in 1 .. k - 1
        /\ read = Joined(m, i) \o SubSeq(m[i + 1], 1, off)
        /\ ClusterMeans(items[i + 1].words, table, m[i + 1], k)
    BY <1>3 DEF InCluster
  <2>2. k \in Nat /\ Len(m[i + 1]) = k
    BY <2>1, ClusterLength
  <2>3. i \in 0 .. Len(items) /\ i + 1 \in 1 .. Len(items)
    BY <1>0, <2>1
  <2>4. m[i + 1] \in Seq(Readings)
    BY <1>0, <2>3
  <2>5. off \in Nat /\ 1 \in Nat /\ 1 <= off + 1 /\ off <= Len(m[i + 1])
    BY <2>1, <2>2
  <2>6. SubSeq(m[i + 1], 1, off) \in Seq(Readings)
    <3> DEFINE v == m[i + 1]
    <3>1. v \in Seq(Readings) /\ off <= Len(v)
      BY <2>4, <2>5
    <3> HIDE DEF v
    <3>2. SubSeq(v, 1, off) \in Seq(Readings)
      BY <2>5, <3>1, SubSeqCells
    <3> QED
      BY <3>2 DEF v
  <2>7. Joined(m, i) \in Seq(Readings)
    BY <1>1, <2>3
  <2> QED
    BY <2>1, <2>6, <2>7, ConcatProperties
<1>4. ASSUME AtEnd(a, at, off, m, read) PROVE read \in Seq(Readings)
  <2>1. Len(items) \in 0 .. Len(items)
    BY <1>0
  <2> QED
    BY <1>1, <1>4, <2>1 DEF AtEnd
<1> QED
  BY <1>2, <1>3, <1>4 DEF Underway

LEMMA AppendCells ==
    ASSUME NEW S, NEW read \in Seq(S), NEW e
    PROVE  /\ Len(read) \in Nat /\ Len(Append(read, e)) = Len(read) + 1
           /\ Append(read, e)[Len(read) + 1] = e
           /\ \A k \in 1 .. Len(read) : Append(read, e)[k] = read[k]
OBVIOUS

\* Where an option is given, and its last argument.
LEMMA GivenNext ==
    ASSUME NEW read \in Seq(Readings), NEW e, NEW c
    PROVE  /\ e[1] = c => Given(Append(read, e), c) = Given(read, c) \cup {Len(read) + 1}
           /\ e[1] # c => Given(Append(read, e), c) = Given(read, c)
<1> DEFINE n == Len(read)
<1> DEFINE more == Append(read, e)
<1>1. /\ n \in Nat /\ Len(more) = n + 1 /\ more[n + 1] = e
      /\ \A k \in 1 .. n : more[k] = read[k]
  BY AppendCells
<1> HIDE DEF more, n
<1>3. ASSUME NEW k \in 1 .. n + 1
      PROVE  more[k][1] = c <=> (k \in 1 .. n /\ read[k][1] = c) \/ (k = n + 1 /\ e[1] = c)
  <2>1. CASE k = n + 1
    <3>1. more[k] = e /\ k \notin 1 .. n
      BY <1>1, <2>1
    <3> QED
      BY <2>1, <3>1
  <2>2. CASE k # n + 1
    <3>1. k \in 1 .. n
      BY <1>1, <2>2
    <3> QED
      BY <1>1, <2>2, <3>1
  <2> QED
    BY <2>1, <2>2
<1>4. 1 .. n \subseteq 1 .. n + 1 /\ n + 1 \in 1 .. n + 1 /\ Len(more) = n + 1
  BY <1>1
<1>5. Given(more, c) = IF e[1] = c THEN Given(read, c) \cup {n + 1} ELSE Given(read, c)
  <2>1. Given(more, c) = {k \in 1 .. n + 1 : more[k][1] = c}
    BY <1>4 DEF Given
  <2>2. Given(read, c) = {k \in 1 .. n : read[k][1] = c}
    BY DEF Given, n
  <2> QED
    BY <1>3, <1>4, <2>1, <2>2
<1> QED
  BY <1>5 DEF more, n

LEMMA LastArgIs ==
    ASSUME NEW read \in Seq(Readings), NEW opt, NEW optarg, NEW c, NEW default
    PROVE  LastArg(Append(read, <<opt, optarg>>), c, default)
                  = IF opt = c THEN optarg ELSE LastArg(read, c, default)
<1> DEFINE n == Len(read)
<1> DEFINE e == <<opt, optarg>>
<1> DEFINE more == Append(read, e)
<1>1. /\ n \in Nat /\ Len(more) = n + 1 /\ more[n + 1] = e
      /\ \A k \in 1 .. n : more[k] = read[k]
  BY AppendCells
<1>2. e[2] = optarg
  OBVIOUS
<1>3. Given(more, c) = IF opt = c THEN Given(read, c) \cup {n + 1} ELSE Given(read, c)
  <2>1. e[1] = opt
    OBVIOUS
  <2> HIDE DEF e
  <2>2. /\ e[1] = c => Given(more, c) = Given(read, c) \cup {n + 1}
        /\ e[1] # c => Given(more, c) = Given(read, c)
    BY GivenNext
  <2> QED
    BY <2>1, <2>2
<1>4. Given(read, c) \subseteq 1 .. n
  BY DEF Given
<1> HIDE DEF more, e, n
<1>5. CASE opt = c
  <2>1. n + 1 \in Given(more, c) /\ Given(more, c) # {}
    BY <1>3, <1>5
  <2>2. Given(more, c) \subseteq Nat /\ \A x \in Given(more, c) : x <= n + 1
    BY <1>1, <1>3, <1>4, <1>5
  <2>3. Max(Given(more, c)) = n + 1
    BY <2>1, <2>2, MaxIs
  <2>4. LastArg(more, c, default) = optarg
    BY <1>1, <1>2, <2>1, <2>3 DEF LastArg
  <2> QED
    BY <1>5, <2>4 DEF more, e
<1>6. CASE opt # c
  <2>1. Given(more, c) = Given(read, c)
    BY <1>3, <1>6
  <2>2. ASSUME Given(read, c) # {}
        PROVE  more[Max(Given(read, c))][2] = read[Max(Given(read, c))][2]
    <3>1. Given(read, c) \subseteq 0 .. n /\ Given(read, c) \subseteq Nat
      BY <1>1, <1>4
    <3>2. PICK x \in Given(read, c) : \A y \in Given(read, c) : y <= x
      BY <1>1, <2>2, <3>1, Greatest
    <3>3. Max(Given(read, c)) = x
      BY <3>1, <3>2, MaxIs
    <3>4. x \in 1 .. n
      BY <1>4, <3>2
    <3> QED
      BY <1>1, <3>3, <3>4
  <2>3. LastArg(more, c, default) = LastArg(read, c, default)
    BY <2>1, <2>2 DEF LastArg
  <2> QED
    BY <1>6, <2>3 DEF more, e
<1> QED
  BY <1>5, <1>6

\* The settings, by what the options give last.
SettingsAs(f, t, some, o) ==
    [frequency |-> f, total_time |-> IF t # Word("0") THEN t ELSE Word("1"),
     delta |-> IF t # Word("0") THEN 1 ELSE 0,
     stat_mode |-> IF some THEN "on" ELSE "off", output_option |-> o]

LEMMA SetRecord ==
    ASSUME NEW f, NEW t, NEW some \in BOOLEAN, NEW o, NEW opt, NEW optarg
    PROVE  Set(SettingsAs(f, t, some, o), <<opt, optarg>>) =
               SettingsAs(IF opt = "f" THEN optarg ELSE f, IF opt = "t" THEN optarg ELSE t,
                      opt = "s" \/ some, IF opt = "o" THEN optarg ELSE o)
<1> DEFINE s == SettingsAs(f, t, some, o)
<1>1. s = [frequency |-> f, total_time |-> IF t # Word("0") THEN t ELSE Word("1"),
           delta |-> IF t # Word("0") THEN 1 ELSE 0,
           stat_mode |-> IF some THEN "on" ELSE "off", output_option |-> o]
  BY DEF SettingsAs
<1>2. Set(s, <<opt, optarg>>) =
          CASE opt = "f" -> [s EXCEPT !.frequency = optarg]
            [] opt = "t" ->
                  IF optarg = Word("0")
                  THEN [s EXCEPT !.total_time = Word("1"), !.delta = 0]
                  ELSE [s EXCEPT !.total_time = optarg, !.delta = 1]
            [] opt = "s" -> [s EXCEPT !.stat_mode = "on"]
            [] opt = "o" -> [s EXCEPT !.output_option = optarg]
            [] OTHER -> s
  BY DEF Set
<1> HIDE DEF s
<1>3. CASE opt = "f"
  <2>1. Set(s, <<opt, optarg>>) = [s EXCEPT !.frequency = optarg]
    BY <1>2, <1>3
  <2>2. [s EXCEPT !.frequency = optarg] = SettingsAs(optarg, t, some, o)
    BY <1>1 DEF SettingsAs
  <2> QED
    BY <1>3, <2>1, <2>2 DEF s
<1>4. CASE opt = "t" /\ optarg = Word("0")
  <2>1. Set(s, <<opt, optarg>>) = [s EXCEPT !.total_time = Word("1"), !.delta = 0]
    BY <1>2, <1>4
  <2>2. [s EXCEPT !.total_time = Word("1"), !.delta = 0]
            = [frequency |-> f, total_time |-> Word("1"), delta |-> 0,
               stat_mode |-> IF some THEN "on" ELSE "off", output_option |-> o]
    <3> DEFINE w == Word("1")
    <3> DEFINE total == IF t # Word("0") THEN t ELSE w
    <3> DEFINE mode == IF some THEN "on" ELSE "off"
    <3> DEFINE delta == IF t # Word("0") THEN 1 ELSE 0
    <3>1. s = [frequency |-> f, total_time |-> total, delta |-> delta,
               stat_mode |-> mode, output_option |-> o]
      BY <1>1
    <3> HIDE DEF w, total, mode, delta
    <3>2. [s EXCEPT !.total_time = w, !.delta = 0]
              = [[s EXCEPT !.total_time = w] EXCEPT !.delta = 0]
      BY <3>1
    <3> DEFINE set == [s EXCEPT !.total_time = w]
    <3>3. set = [frequency |-> f, total_time |-> w, delta |-> delta,
                 stat_mode |-> mode, output_option |-> o]
      BY <3>1
    <3> HIDE DEF set
    <3>4. [set EXCEPT !.delta = 0]
              = [frequency |-> f, total_time |-> w, delta |-> 0,
                 stat_mode |-> mode, output_option |-> o]
      BY <3>3
    <3> QED
      BY <3>2, <3>4 DEF w, mode, set
  <2>3. SettingsAs(f, optarg, some, o)
            = [frequency |-> f, total_time |-> Word("1"), delta |-> 0,
               stat_mode |-> IF some THEN "on" ELSE "off", output_option |-> o]
    BY <1>4 DEF SettingsAs
  <2> QED
    BY <1>4, <2>1, <2>2, <2>3 DEF s
<1>5. CASE opt = "t" /\ optarg # Word("0")
  <2>1. Set(s, <<opt, optarg>>) = [s EXCEPT !.total_time = optarg, !.delta = 1]
    BY <1>2, <1>5
  <2>2. [s EXCEPT !.total_time = optarg, !.delta = 1]
            = [frequency |-> f, total_time |-> optarg, delta |-> 1,
               stat_mode |-> IF some THEN "on" ELSE "off", output_option |-> o]
    <3> DEFINE w == Word("1")
    <3> DEFINE total == IF t # Word("0") THEN t ELSE w
    <3> DEFINE mode == IF some THEN "on" ELSE "off"
    <3> DEFINE delta == IF t # Word("0") THEN 1 ELSE 0
    <3>1. s = [frequency |-> f, total_time |-> total, delta |-> delta,
               stat_mode |-> mode, output_option |-> o]
      BY <1>1
    <3> HIDE DEF w, total, mode, delta
    <3>2. [s EXCEPT !.total_time = optarg, !.delta = 1]
              = [[s EXCEPT !.total_time = optarg] EXCEPT !.delta = 1]
      BY <3>1
    <3> DEFINE set == [s EXCEPT !.total_time = optarg]
    <3>3. set = [frequency |-> f, total_time |-> optarg, delta |-> delta,
                 stat_mode |-> mode, output_option |-> o]
      BY <3>1
    <3> HIDE DEF set
    <3>4. [set EXCEPT !.delta = 1]
              = [frequency |-> f, total_time |-> optarg, delta |-> 1,
                 stat_mode |-> mode, output_option |-> o]
      BY <3>3
    <3> QED
      BY <3>2, <3>4 DEF w, mode, set
  <2>3. SettingsAs(f, optarg, some, o)
            = [frequency |-> f, total_time |-> optarg, delta |-> 1,
               stat_mode |-> IF some THEN "on" ELSE "off", output_option |-> o]
    BY <1>5 DEF SettingsAs
  <2> QED
    BY <1>5, <2>1, <2>2, <2>3 DEF s
<1>6. CASE opt = "s"
  <2>1. Set(s, <<opt, optarg>>) = [s EXCEPT !.stat_mode = "on"]
    BY <1>2, <1>6
  <2>2. [s EXCEPT !.stat_mode = "on"] = SettingsAs(f, t, TRUE, o)
    BY <1>1 DEF SettingsAs
  <2>3. (opt = "s" \/ some) = TRUE
    BY <1>6
  <2> QED
    BY <1>6, <2>1, <2>2, <2>3 DEF s
<1>7. CASE opt = "o"
  <2>1. Set(s, <<opt, optarg>>) = [s EXCEPT !.output_option = optarg]
    BY <1>2, <1>7
  <2>2. [s EXCEPT !.output_option = optarg] = SettingsAs(f, t, some, optarg)
    BY <1>1 DEF SettingsAs
  <2>3. (opt = "s" \/ some) = some
    BY <1>7
  <2> QED
    BY <1>7, <2>1, <2>2, <2>3 DEF s
<1>8. CASE opt \notin {"f", "t", "s", "o"}
  <2>1. Set(s, <<opt, optarg>>) = s
    BY <1>2, <1>8
  <2>2. (opt = "s" \/ some) = some
    BY <1>8
  <2> QED
    BY <1>8, <2>1, <2>2 DEF s
<1> QED
  BY <1>3, <1>4, <1>5, <1>6, <1>7, <1>8

LEMMA SettingsRecord ==
    ASSUME NEW means
    PROVE  SettingsOf(means) =
               SettingsAs(LastArg(means, "f", Word("1")), LastArg(means, "t", Word("0")),
                      Given(means, "s") # {}, LastArg(means, "o", NoArg))
BY DEF SettingsOf, SettingsAs

\* main() sets what the option it reads means.
LEMMA SetNext ==
    ASSUME NEW read \in Seq(Readings), NEW opt, NEW optarg
    PROVE  Set(SettingsOf(read), <<opt, optarg>>) = SettingsOf(Append(read, <<opt, optarg>>))
<1> DEFINE more == Append(read, <<opt, optarg>>)
<1> DEFINE f == LastArg(read, "f", Word("1"))
<1> DEFINE t == LastArg(read, "t", Word("0"))
<1> DEFINE some == Given(read, "s") # {}
<1> DEFINE o == LastArg(read, "o", NoArg)
<1>1. LastArg(more, "f", Word("1")) = IF opt = "f" THEN optarg ELSE f
  BY LastArgIs
<1>2. LastArg(more, "t", Word("0")) = IF opt = "t" THEN optarg ELSE t
  BY LastArgIs
<1>3. (Given(more, "s") # {}) = (opt = "s" \/ some)
  <2> DEFINE e == <<opt, optarg>>
  <2>1. e[1] = opt
    OBVIOUS
  <2> HIDE DEF e
  <2>2. /\ e[1] = "s" => Given(Append(read, e), "s") = Given(read, "s") \cup {Len(read) + 1}
        /\ e[1] # "s" => Given(Append(read, e), "s") = Given(read, "s")
    BY GivenNext
  <2> QED
    BY <2>1, <2>2 DEF e
<1>4. LastArg(more, "o", NoArg) = IF opt = "o" THEN optarg ELSE o
  BY LastArgIs
<1>5. SettingsOf(read) = SettingsAs(f, t, some, o)
  BY SettingsRecord
<1>6. SettingsOf(more) =
          SettingsAs(LastArg(more, "f", Word("1")), LastArg(more, "t", Word("0")),
                 Given(more, "s") # {}, LastArg(more, "o", NoArg))
  BY SettingsRecord
<1>7. some \in BOOLEAN
  OBVIOUS
<1> HIDE DEF more, f, t, some, o
<1>8. Set(SettingsAs(f, t, some, o), <<opt, optarg>>) =
               SettingsAs(IF opt = "f" THEN optarg ELSE f, IF opt = "t" THEN optarg ELSE t,
                      opt = "s" \/ some, IF opt = "o" THEN optarg ELSE o)
  BY <1>7, SetRecord
<1>9. Set(SettingsOf(read), <<opt, optarg>>) = SettingsOf(more)
  BY <1>1, <1>2, <1>3, <1>4, <1>5, <1>6, <1>8
<1> QED
  BY <1>9 DEF more

\* What is not known changes no setting.
LEMMA SetNothing ==
    ASSUME NEW s, NEW opt \in {"?", "-1"}, NEW optarg
    PROVE  Set(s, <<opt, optarg>>) = s
BY DEF Set

-----------------------------------------------------------------------------
(* What both passes have read, at every moment *)

MainOf == [k \in 1 .. Len(items) |-> items[k].main]
SensorsOf == [k \in 1 .. Len(items) |-> items[k].sensors]

LEMMA Meanings ==
    ASSUME items \in Seq(Items), Unmixed
    PROVE  /\ Meaning(opts, MainOf) /\ Meaning(moj_opts, SensorsOf)
           /\ MeantMain = Joined(MainOf, Len(items))
           /\ MeantSensors = Joined(SensorsOf, Len(items))
<1>1. ASSUME NEW k \in 1 .. Len(items)
      PROVE  /\ items[k].main \in Seq(Readings) /\ items[k].sensors \in Seq(Readings)
             /\ Means(items[k].words, opts, items[k].main)
             /\ Means(items[k].words, moj_opts, items[k].sensors)
  <2>1. items[k] \in Items /\ Pure(items[k])
    BY DEF Unmixed
  <2> QED
    BY <2>1, ItemsAssumption DEF Readings
<1>2. /\ MainOf \in [1 .. Len(items) -> Seq(Readings)]
      /\ SensorsOf \in [1 .. Len(items) -> Seq(Readings)]
      /\ \A k \in 1 .. Len(items) : MainOf[k] = items[k].main
      /\ \A k \in 1 .. Len(items) : SensorsOf[k] = items[k].sensors
  BY <1>1 DEF MainOf, SensorsOf
<1>3. Meaning(opts, MainOf) /\ Meaning(moj_opts, SensorsOf)
  BY <1>1, <1>2 DEF Meaning
<1>4. MeantMain = Joined(MainOf, Len(items))
  <2>1. [k \in 1 .. Len(items) |-> MainOf[k]] = [k \in 1 .. Len(items) |-> items[k].main]
    BY <1>2
  <2> QED
    BY <2>1 DEF MeantMain, Joined
<1>5. MeantSensors = Joined(SensorsOf, Len(items))
  <2>1. [k \in 1 .. Len(items) |-> SensorsOf[k]]
            = [k \in 1 .. Len(items) |-> items[k].sensors]
    BY <1>2
  <2> QED
    BY <2>1 DEF MeantSensors, Joined
<1> QED
  BY <1>3, <1>4, <1>5

\* The command is in the array that main permutes where it was written.
Kept(a) ==
    /\ Len(a) = Len(Written) /\ a \in Seq(Argument)
    /\ ending.command # <<>> =>
           \A x \in Upto(Len(items)) + 2 .. Len(Written) : a[x] = Written[x]
CommandAt == IF ending.command = <<>> THEN 0 ELSE Upto(Len(items)) + 2

MainReads ==
    \E read : /\ Underway(argv, optind, subopt, opts, MainOf, read)
              /\ settings = SettingsOf(read)
SensorsReads == Underway(save, optind, subopt, moj_opts, SensorsOf, sources)

ReadRight ==
    /\ pass \in {"main", "command"} => save = Written /\ sources = <<>>
    /\ pass = "main" => MainReads
    /\ pass # "main" => settings = SettingsOf(MeantMain) /\ Kept(argv)
    /\ pass \notin {"main", "command"} => application = CommandAt
    /\ pass = "sensors" => SensorsReads
    /\ pass \in {"start", "run"} => sources = MeantSensors

ArgsReadInv == ArgsTypeInv /\ (PlainArguments /\ Unmixed => ReadRight)

\* What the user wrote does not change.
LEMMA WrittenKept ==
    ASSUME items' = items, ending' = ending
    PROVE  /\ Written' = Written /\ Len(items)' = Len(items)
           /\ WordsOf' = WordsOf /\ MainOf' = MainOf /\ SensorsOf' = SensorsOf
           /\ \A i : Upto(i)' = Upto(i)
           /\ PlainArguments' = PlainArguments /\ Unmixed' = Unmixed
           /\ MeantMain' = MeantMain /\ MeantSensors' = MeantSensors
           /\ CommandAt' = CommandAt
BY DEF Written, Words, WordsOf, MainOf, SensorsOf, Upto, PlainArguments, Unmixed,
       MeantMain, MeantSensors, CommandAt

LEMMA MainReadingKept ==
    ASSUME items' = items, ending' = ending, NEW a, NEW at, NEW off, NEW read,
           argv' = a, optind' = at, subopt' = off,
           Underway(a, at, off, opts, MainOf, read)
    PROVE  Underway(argv, optind, subopt, opts, MainOf, read)'
<1>1. /\ Written' = Written /\ Len(items)' = Len(items) /\ MainOf' = MainOf
      /\ \A i : Upto(i)' = Upto(i)
  BY WrittenKept
<1>2. \A i : Reached(argv, optind, i)' <=> Reached(a, at, i)
  BY <1>1 DEF Reached
<1>3. Done(argv, optind)' <=> Done(a, at)
  BY <1>1 DEF Done
<1>4. \A i : AtItem(argv, optind, subopt, MainOf, read, i)'
                 <=> AtItem(a, at, off, MainOf, read, i)
  BY <1>1, <1>2 DEF AtItem
<1>5. \A i, k : InCluster(argv, optind, subopt, opts, MainOf, read, i, k)'
                 <=> InCluster(a, at, off, opts, MainOf, read, i, k)
  BY <1>1, <1>2 DEF InCluster
<1>6. AtEnd(argv, optind, subopt, MainOf, read)' <=> AtEnd(a, at, off, MainOf, read)
  BY <1>1, <1>3 DEF AtEnd
<1> QED
  BY <1>4, <1>5, <1>6 DEF Underway

LEMMA SensorsReadingKept ==
    ASSUME items' = items, ending' = ending, NEW a, NEW at, NEW off, NEW read,
           save' = a, optind' = at, subopt' = off, sources' = read,
           Underway(a, at, off, moj_opts, SensorsOf, read)
    PROVE  SensorsReads'
<1>1. /\ Written' = Written /\ Len(items)' = Len(items) /\ SensorsOf' = SensorsOf
      /\ \A i : Upto(i)' = Upto(i)
  BY WrittenKept
<1>2. \A i : Reached(save, optind, i)' <=> Reached(a, at, i)
  BY <1>1 DEF Reached
<1>3. Done(save, optind)' <=> Done(a, at)
  BY <1>1 DEF Done
<1>4. \A i : AtItem(save, optind, subopt, SensorsOf, sources, i)'
                 <=> AtItem(a, at, off, SensorsOf, read, i)
  BY <1>1, <1>2 DEF AtItem
<1>5. \A i, k : InCluster(save, optind, subopt, moj_opts, SensorsOf, sources, i, k)'
                 <=> InCluster(a, at, off, moj_opts, SensorsOf, read, i, k)
  BY <1>1, <1>2 DEF InCluster
<1>6. AtEnd(save, optind, subopt, SensorsOf, sources)' <=> AtEnd(a, at, off, SensorsOf, read)
  BY <1>1, <1>3 DEF AtEnd
<1> QED
  BY <1>4, <1>5, <1>6 DEF Underway, SensorsReads

LEMMA KeptKept ==
    ASSUME items' = items, ending' = ending, NEW a, argv' = a, Kept(a)
    PROVE  Kept(argv)'
<1>1. Written' = Written /\ Len(items)' = Len(items) /\ \A i : Upto(i)' = Upto(i)
  BY WrittenKept
<1> QED
  BY <1>1 DEF Kept

\* At the start of a pass nothing has been read.
LEMMA NothingYet ==
    ASSUME items \in Seq(Items), ending \in Endings, NEW table, NEW m
    PROVE  Underway(Written, 1, 0, table, m, <<>>)
<1>1. Written \in Seq(Argument) /\ Len(items) \in Nat
  BY WrittenCells
<1>2. Upto(0) = 0
  <2>1. Joined(WordsOf, 0) = <<>>
    BY JoinedNone
  <2> QED
    BY <2>1 DEF Upto
<1>3. Reached(Written, 1, 0)
  BY <1>1, <1>2 DEF Reached
<1>4. Joined(m, 0) = <<>>
  BY JoinedNone
<1>5. AtItem(Written, 1, 0, m, <<>>, 0)
  BY <1>1, <1>3, <1>4 DEF AtItem
<1> QED
  BY <1>5 DEF Underway

\* The defaults are the settings of no options.
LEMMA DefaultsAre == Defaults = SettingsOf(<<>>)
<1>1. \A c : Given(<<>>, c) = {}
  BY DEF Given
<1>2. \A c, d : LastArg(<<>>, c, d) = d
  BY <1>1 DEF LastArg
<1> QED
  BY <1>1, <1>2 DEF Defaults, SettingsOf

\* There is one "--", before the command.
LEMMA DashesAre ==
    ASSUME items \in Seq(Items), ending \in Endings, PlainArguments, save = Written
    PROVE  (IF Dashes = {} THEN 0 ELSE Min(Dashes) + 1) = CommandAt
<1> DEFINE n == Len(items)
<1> DEFINE c == Upto(n)
<1> DEFINE w == ending.words
<1>1. /\ Written \in Seq(Argument) /\ n \in Nat /\ c \in Nat /\ Len(w) \in Nat
      /\ Len(Written) = c + Len(w)
      /\ \A j \in 1 .. Len(w) : Written[c + j] = w[j]
  BY WrittenCells
<1>2. ASSUME NEW p \in 1 .. c PROVE Written[p] # DashDash
  <2>1. /\ WordsOf \in [1 .. n -> Seq(Argument)] /\ p \in 1 .. Len(Joined(WordsOf, n))
        /\ n \in Nat
    BY WordsType DEF Upto
  <2>0. PlaceOf(WordsOf, n, p)
    BY <2>1, JoinedPlace
  <2>2. PICK i \in 0 .. n - 1 : \E j \in 1 .. Len(WordsOf[i + 1]) :
            p = Len(Joined(WordsOf, i)) + j /\ Joined(WordsOf, n)[p] = WordsOf[i + 1][j]
    BY <2>0 DEF PlaceOf
  <2>3. PICK j \in 1 .. Len(WordsOf[i + 1]) : p = Len(Joined(WordsOf, i)) + j
    BY <2>2
  <2>4. i + 1 \in 1 .. n /\ WordsOf[i + 1] = items[i + 1].words
    BY <1>1 DEF WordsOf
  <2>5. /\ items[i + 1] \in Items /\ Len(items[i + 1].words) \in Nat \ {0}
        /\ \A x \in 1 .. Len(items[i + 1].words) : Written[Upto(i) + x] = items[i + 1].words[x]
    BY ItemCells
  <2>6. Written[p] = items[i + 1].words[j] /\ j \in 1 .. Len(items[i + 1].words)
    BY <2>3, <2>4, <2>5 DEF Upto
  <2>7. items[i + 1].words[j].kind # "dashdash"
    <3>1. CASE j = 1
      BY <2>5, <3>1, ItemsAssumption
    <3>2. CASE j # 1
      <4>1. j \in 2 .. Len(items[i + 1].words)
        BY <2>5, <2>6, <3>2
      <4>2. items[i + 1].words[j].kind = "word"
        BY <2>4, <4>1 DEF PlainArguments
      <4> QED
        BY <4>2
    <3> QED
      BY <3>1, <3>2
  <2> QED
    BY <2>6, <2>7 DEF DashDash
<1>3. Dashes = {k \in 1 .. Len(Written) - 1 : Written[k] = DashDash}
  BY DEF Dashes
<1>4. \/ w = <<DashDash>> \o ending.command
      \/ w = <<>> /\ ending.command = <<>>
      \/ Len(w) = 1 /\ ending.command = <<>>
  BY EndingsAssumption
<1>5. ending.command \in Seq(Argument)
  BY EndingType
<1> HIDE DEF n, c, w
<1>6. ASSUME NEW k \in Dashes PROVE k > c /\ k \in Nat /\ k <= Len(Written) - 1
  <2>1. k \in 1 .. Len(Written) - 1 /\ Written[k] = DashDash
    BY <1>3
  <2>2. k \notin 1 .. c
    BY <1>2, <2>1
  <2> QED
    BY <1>1, <2>1, <2>2
<1>7. CASE ending.command = <<>>
  <2>1. Len(w) <= 1
    <3>1. CASE w = <<DashDash>> \o ending.command
      <4>1. w = <<DashDash>> \o <<>>
        BY <1>7, <3>1
      <4>2. Len(<<DashDash>> \o <<>>) = 1
        OBVIOUS
      <4> QED
        BY <4>1, <4>2
    <3>2. CASE w = <<>>
      BY <3>2
    <3> QED
      BY <1>4, <3>1, <3>2
  <2>2. Dashes = {}
    BY <1>1, <1>6, <2>1
  <2> QED
    BY <1>7, <2>2 DEF CommandAt
<1>8. CASE ending.command # <<>>
  <2> DEFINE v == ending.command
  <2>1. Len(v) \in Nat \ {0} /\ v \in Seq(Argument) /\ w = <<DashDash>> \o v
    BY <1>4, <1>5, <1>8, EmptySeq
  <2> HIDE DEF v
  <2>2. Len(w) = 1 + Len(v) /\ w[1] = DashDash
    <3>1. Len(<<DashDash>> \o v) = 1 + Len(v) /\ (<<DashDash>> \o v)[1] = DashDash
      BY <2>1
    <3> QED
      BY <2>1, <3>1
  <2>3. c + 1 \in Dashes
    <3>1. 1 \in 1 .. Len(w)
      BY <2>1, <2>2
    <3>2. Written[c + 1] = DashDash
      BY <1>1, <2>2, <3>1
    <3>3. c + 1 \in 1 .. Len(Written) - 1
      BY <1>1, <2>1, <2>2
    <3> QED
      BY <1>3, <3>2, <3>3
  <2>4. Dashes \subseteq Nat /\ \A x \in Dashes : c + 1 <= x
    BY <1>1, <1>6
  <2>5. Min(Dashes) = c + 1
    BY <2>3, <2>4, MinIs
  <2>6. Min(Dashes) + 1 = c + 2 /\ Dashes # {}
    BY <1>1, <2>3, <2>5
  <2> QED
    BY <1>8, <2>6 DEF CommandAt, c, n
<1> QED
  BY <1>7, <1>8

LEMMA InitReads == ASSUME ArgsInit PROVE ArgsReadInv
<1>1. ArgsTypeInv
  BY InitTypes
<1>2. /\ items \in Seq(Items) /\ ending \in Endings
      /\ argv = Written /\ save = Written /\ optind = 1 /\ subopt = 0 /\ pass = "main"
      /\ settings = Defaults /\ sources = <<>>
  BY <1>1 DEF ArgsTypeInv, ArgsInit, Written
<1>3. Underway(argv, optind, subopt, opts, MainOf, <<>>)
  BY <1>2, NothingYet
<1>4. MainReads
  BY <1>2, <1>3, DefaultsAre DEF MainReads
<1>5. ReadRight
  BY <1>2, <1>4 DEF ReadRight
<1> QED
  BY <1>1, <1>5 DEF ArgsReadInv

LEMMA NoSuchOption ==
    ASSUME NEW table \in {opts, moj_opts}, NEW c, OfShort(table, c) # {}
    PROVE  c \notin {"?", "-1"}
<1>1. PICK o \in table : o.shortname = c
  BY DEF OfShort
<1>2. o.shortname \in STRING \ {"?", "-1"}
  BY TablesAssumption
<1> QED
  BY <1>1, <1>2

LEMMA MainOptionReads ==
    ASSUME ArgsTypeInv, PlainArguments, Unmixed, ReadRight, MainOption
    PROVE  ReadRight'
<1>0. /\ items \in Seq(Items) /\ ending \in Endings /\ argv \in Seq(Argument)
      /\ optind \in 1 .. Len(argv) + 1 /\ subopt \in Nat
      /\ Len(argv) = Len(Words(items)) + Len(ending.words)
  BY DEF ArgsTypeInv, ParserTypeOK
<1>1. PICK call \in Calls(argv, opts) :
          /\ argv' = call.array /\ optind' = optind + call.r.used
          /\ subopt' = call.r.subopt
          /\ settings' = Set(settings, <<call.r.opt, call.r.optarg>>)
          /\ pass' = IF call.r.opt = "-1" THEN "command" ELSE "main"
  BY DEF MainOption
<1>2. /\ items' = items /\ ending' = ending /\ save' = save /\ sources' = sources
      /\ pass = "main" /\ save = Written /\ sources = <<>>
  BY DEF MainOption, meant, ReadRight
<1>3. PICK read : /\ Underway(argv, optind, subopt, opts, MainOf, read)
                  /\ settings = SettingsOf(read)
  BY <1>2 DEF ReadRight, MainReads
<1>4. Meaning(opts, MainOf) /\ MeantMain = Joined(MainOf, Len(items))
  BY <1>0, Meanings
<1>5. Steps(call, opts, MainOf, read)
  BY <1>0, <1>3, <1>4, ReadStep
<1>6. read \in Seq(Readings)
  BY <1>0, <1>3, <1>4, UnderwayType
<1>7. /\ Written' = Written /\ MeantMain' = MeantMain
  BY <1>2, WrittenKept
<1>8. CASE /\ call.r.opt = "-1" /\ read = Joined(MainOf, Len(items))
           /\ ending.command # <<>> =>
                \A x \in Upto(Len(items)) + 2 .. Len(Written) : call.array[x] = Written[x]
  <2>1. pass' = "command" /\ settings' = settings
    BY <1>1, <1>8, SetNothing
  <2>2. settings' = SettingsOf(MeantMain)'
    BY <1>3, <1>4, <1>7, <1>8, <2>1
  <2>3. call.array \in Seq(Argument) /\ Len(call.array) = Len(Written)
    <3>1. call.array \in Seq(Argument) /\ Len(call.array) = Len(argv)
      BY <1>0, CallKeeps
    <3>2. Len(Written) = Len(argv)
      <4>1. Words(items) \in Seq(Argument) /\ ending.words \in Seq(Argument)
        BY <1>0, WordsType, EndingType
      <4>2. Len(Written) = Upto(Len(items)) + Len(ending.words)
            /\ Words(items) = Joined(WordsOf, Len(items))
        BY <1>0, WrittenCells, WordsType
      <4> QED
        BY <1>0, <4>2 DEF Upto
    <3> QED
      BY <3>1, <3>2
  <2>4. Kept(call.array)
    BY <1>8, <2>3 DEF Kept
  <2>5. Kept(argv)'
    BY <1>1, <1>2, <2>4, KeptKept
  <2> QED
    BY <1>2, <1>7, <2>1, <2>2, <2>5 DEF ReadRight
<1>9. CASE /\ call.r.opt = "?"
           /\ Underway(call.array, optind + call.r.used, call.r.subopt, opts, MainOf, read)
  <2>1. pass' = "main" /\ settings' = settings
    BY <1>1, <1>9, SetNothing
  <2>2. Underway(argv, optind, subopt, opts, MainOf, read)'
    BY <1>1, <1>2, <1>9, MainReadingKept
  <2>3. MainReads'
    BY <1>3, <2>1, <2>2 DEF MainReads
  <2> QED
    BY <1>2, <1>7, <2>1, <2>3 DEF ReadRight
<1>10. CASE /\ OfShort(opts, call.r.opt) # {}
            /\ Underway(call.array, optind + call.r.used, call.r.subopt, opts, MainOf,
                       Append(read, <<call.r.opt, call.r.optarg>>))
  <2> DEFINE more == Append(read, <<call.r.opt, call.r.optarg>>)
  <2>1. pass' = "main"
    BY <1>1, <1>10, NoSuchOption
  <2>2. settings' = SettingsOf(more)
    BY <1>1, <1>3, <1>6, SetNext
  <2>3. Underway(call.array, optind + call.r.used, call.r.subopt, opts, MainOf, more)
    BY <1>10
  <2> HIDE DEF more
  <2>4. Underway(argv, optind, subopt, opts, MainOf, more)'
    BY <1>1, <1>2, <2>3, MainReadingKept
  <2>5. MainReads'
    BY <2>2, <2>4 DEF MainReads
  <2> QED
    BY <1>2, <1>7, <2>1, <2>5 DEF ReadRight
<1> QED
  BY <1>5, <1>8, <1>9, <1>10 DEF Steps

LEMMA FindCommandReads ==
    ASSUME ArgsTypeInv, PlainArguments, ReadRight, FindCommand
    PROVE  ReadRight'
<1>0. items \in Seq(Items) /\ ending \in Endings /\ save \in Seq(Argument)
  BY DEF ArgsTypeInv
<1>1. /\ items' = items /\ ending' = ending /\ argv' = argv /\ save' = save
      /\ settings' = settings /\ sources' = sources /\ pass = "command"
      /\ pass' = "sensors" /\ optind' = 1 /\ subopt' = 0
  BY DEF FindCommand, meant
<1>2. save = Written /\ sources = <<>> /\ settings = SettingsOf(MeantMain) /\ Kept(argv)
  BY <1>1 DEF ReadRight
<1>3. MeantMain' = MeantMain /\ CommandAt' = CommandAt
  BY <1>1, WrittenKept
<1>4. application' = CommandAt'
  BY <1>0, <1>2, <1>3, CommandPlace, DashesAre
<1>5. Kept(argv)'
  BY <1>1, <1>2, KeptKept
<1>6. SensorsReads'
  <2>1. Underway(Written, 1, 0, moj_opts, SensorsOf, <<>>)
    BY <1>0, NothingYet
  <2> QED
    BY <1>1, <1>2, <2>1, SensorsReadingKept
<1> QED
  BY <1>1, <1>2, <1>3, <1>4, <1>5, <1>6 DEF ReadRight

LEMMA SensorOptionReads ==
    ASSUME ArgsTypeInv, PlainArguments, Unmixed, ReadRight, SensorOption
    PROVE  ReadRight'
<1>0. items \in Seq(Items) /\ ending \in Endings
  BY DEF ArgsTypeInv
<1>1. PICK call \in Calls(save, moj_opts) :
          LET found == OfShort(moj_opts, call.r.opt)
          IN  /\ save' = call.array /\ optind' = optind + call.r.used
              /\ subopt' = call.r.subopt
              /\ sources' = IF \E o \in found : ~o.fn
                            THEN Append(sources, <<call.r.opt, call.r.optarg>>)
                            ELSE sources
              /\ pass' = CASE call.r.opt = "-1" -> "start"
                           [] \E o \in found : o.fn -> "exit"
                           [] OTHER -> "sensors"
  BY DEF SensorOption
<1>2. /\ items' = items /\ ending' = ending /\ argv' = argv /\ settings' = settings
      /\ application' = application /\ pass = "sensors"
  BY DEF SensorOption, meant
<1>3. /\ settings = SettingsOf(MeantMain) /\ Kept(argv) /\ application = CommandAt
      /\ Underway(save, optind, subopt, moj_opts, SensorsOf, sources)
  BY <1>2 DEF ReadRight, SensorsReads
<1>4. Meaning(moj_opts, SensorsOf) /\ MeantSensors = Joined(SensorsOf, Len(items))
  BY <1>0, Meanings
<1>5. Steps(call, moj_opts, SensorsOf, sources)
  BY <1>0, <1>3, <1>4, ReadStep
<1>6. /\ MeantMain' = MeantMain /\ MeantSensors' = MeantSensors /\ CommandAt' = CommandAt
  BY <1>2, WrittenKept
<1>7. /\ settings' = SettingsOf(MeantMain)' /\ Kept(argv)' /\ application' = CommandAt'
  BY <1>2, <1>3, <1>6, KeptKept
<1>n. ASSUME call.r.opt \in {"?", "-1"} PROVE OfShort(moj_opts, call.r.opt) = {}
  BY <1>n, NoSuchOption
<1>p. pass' \in {"start", "exit", "sensors"}
  BY <1>1
<1> SUFFICES /\ pass' = "sensors" => SensorsReads'
             /\ pass' = "start" => sources' = MeantSensors'
  BY <1>7, <1>p DEF ReadRight
<1>8. CASE call.r.opt = "-1" /\ sources = Joined(SensorsOf, Len(items))
  <2>1. sources' = sources /\ pass' = "start"
    BY <1>1, <1>8, <1>n
  <2> QED
    BY <1>4, <1>6, <1>8, <2>1
<1>9. CASE /\ call.r.opt = "?"
           /\ Underway(call.array, optind + call.r.used, call.r.subopt, moj_opts,
                      SensorsOf, sources)
  <2>1. sources' = sources /\ pass' = "sensors"
    BY <1>1, <1>9, <1>n
  <2>2. SensorsReads'
    BY <1>1, <1>2, <1>9, <2>1, SensorsReadingKept
  <2> QED
    BY <2>1, <2>2
<1>10. CASE /\ OfShort(moj_opts, call.r.opt) # {}
            /\ Underway(call.array, optind + call.r.used, call.r.subopt, moj_opts,
                       SensorsOf, Append(sources, <<call.r.opt, call.r.optarg>>))
  <2> DEFINE found == OfShort(moj_opts, call.r.opt)
  <2> DEFINE more == Append(sources, <<call.r.opt, call.r.optarg>>)
  <2>1. call.r.opt # "-1"
    BY <1>10, NoSuchOption
  <2>2. CASE \E o \in found : o.fn
    <3>1. pass' = "exit"
      BY <1>1, <2>1, <2>2
    <3> QED
      BY <3>1
  <2>3. CASE ~\E o \in found : o.fn
    <3>1. PICK o \in found : ~o.fn
      BY <1>10, <2>3
    <3>2. sources' = more /\ pass' = "sensors"
      BY <1>1, <2>1, <2>3, <3>1
    <3>3. Underway(call.array, optind + call.r.used, call.r.subopt, moj_opts, SensorsOf, more)
      BY <1>10
    <3> HIDE DEF more
    <3>4. SensorsReads'
      BY <1>1, <1>2, <3>2, <3>3, SensorsReadingKept
    <3> QED
      BY <3>2, <3>4
  <2> QED
    BY <2>2, <2>3
<1> QED
  BY <1>5, <1>8, <1>9, <1>10 DEF Steps

LEMMA ReadsKept == ASSUME ArgsReadInv, [ArgsNext]_argsVars PROVE ArgsReadInv'
<1>1. ArgsTypeInv /\ ArgsTypeInv'
  BY TypesKept DEF ArgsReadInv
<1>2. items' = items /\ ending' = ending
  BY DEF ArgsNext, MainOption, FindCommand, SensorOption, Start, ArgsEnd, argsVars, meant
<1>3. PlainArguments' = PlainArguments /\ Unmixed' = Unmixed
  BY <1>2, WrittenKept
<1> SUFFICES ASSUME PlainArguments, Unmixed PROVE ReadRight'
  BY <1>1, <1>3 DEF ArgsReadInv
<1>4. ReadRight
  BY DEF ArgsReadInv
<1>5. CASE MainOption
  BY <1>1, <1>4, <1>5, MainOptionReads
<1>6. CASE FindCommand
  BY <1>1, <1>4, <1>6, FindCommandReads
<1>7. CASE SensorOption
  BY <1>1, <1>4, <1>7, SensorOptionReads
<1>8. CASE Start
  <2>1. /\ pass = "start" /\ pass' \in {"run", "exit"} /\ argv' = argv
        /\ settings' = settings /\ application' = application /\ sources' = sources
    BY <1>8 DEF Start
  <2>2. /\ settings = SettingsOf(MeantMain) /\ Kept(argv) /\ application = CommandAt
        /\ sources = MeantSensors
    BY <1>4, <2>1 DEF ReadRight
  <2>3. /\ MeantMain' = MeantMain /\ MeantSensors' = MeantSensors /\ CommandAt' = CommandAt
    BY <1>2, WrittenKept
  <2>4. Kept(argv)'
    BY <1>2, <2>1, <2>2, KeptKept
  <2> QED
    BY <2>1, <2>2, <2>3, <2>4 DEF ReadRight
<1>9. CASE UNCHANGED argsVars
  <2>1. /\ argv' = argv /\ save' = save /\ optind' = optind /\ subopt' = subopt
        /\ pass' = pass /\ settings' = settings /\ application' = application
        /\ sources' = sources
    BY <1>9 DEF argsVars
  <2>2. /\ MeantMain' = MeantMain /\ MeantSensors' = MeantSensors /\ CommandAt' = CommandAt
        /\ Written' = Written
    BY <1>2, WrittenKept
  <2>3. MainReads => MainReads'
    <3> SUFFICES ASSUME MainReads PROVE MainReads'
      OBVIOUS
    <3>1. PICK read : /\ Underway(argv, optind, subopt, opts, MainOf, read)
                      /\ settings = SettingsOf(read)
      BY DEF MainReads
    <3>2. Underway(argv, optind, subopt, opts, MainOf, read)'
      BY <1>2, <2>1, <3>1, MainReadingKept
    <3> QED
      BY <2>1, <3>1, <3>2 DEF MainReads
  <2>4. SensorsReads => SensorsReads'
    BY <1>2, <2>1, SensorsReadingKept DEF SensorsReads
  <2>5. Kept(argv) => Kept(argv)'
    BY <1>2, <2>1, KeptKept
  <2> QED
    BY <1>4, <2>1, <2>2, <2>3, <2>4, <2>5 DEF ReadRight
<1> QED
  BY <1>5, <1>6, <1>7, <1>8, <1>9 DEF ArgsNext, ArgsEnd

LEMMA ReadsInductive == ArgsSpec => []ArgsReadInv
<1>1. ArgsInit => ArgsReadInv
  BY InitReads
<1>2. ArgsReadInv /\ [ArgsNext]_argsVars => ArgsReadInv'
  BY ReadsKept
<1> QED
  BY <1>1, <1>2, PTL DEF ArgsSpec

\* Whatever the user writes, in whichever order, main() takes the settings of
\* its own options, with the arguments they have last: neither the options of
\* sensors it passes over nor those of the command change them.
THEOREM SettingsRead == ArgsSpec => []SettingsRight
<1>1. ArgsReadInv => SettingsRight
  BY DEF ArgsReadInv, ReadRight, SettingsRight
<1> QED
  BY <1>1, ReadsInductive, PTL

\* moj_init() adds the sensors that were asked for, in their order, each with
\* its argument, whatever options and words main() has passed over.
THEOREM SensorsRead == ArgsSpec => []SensorsRight
<1>1. ArgsReadInv => SensorsRight
  BY DEF ArgsReadInv, ReadRight, SensorsRight
<1> QED
  BY <1>1, ReadsInductive, PTL

LEMMA CommandIs ==
    ASSUME items \in Seq(Items), ending \in Endings, Kept(argv), ending.command # <<>>
    PROVE  CommandAt # 0 /\ SubSeq(argv, CommandAt, Len(argv)) = ending.command
<1> DEFINE c == Upto(Len(items))
<1> DEFINE w == ending.words
<1> DEFINE v == ending.command
<1> DEFINE n == Len(argv)
<1>1. /\ c \in Nat /\ Len(Written) = c + Len(w)
      /\ \A j \in 1 .. Len(w) : Written[c + j] = w[j]
  BY WrittenCells
<1>2. v \in Seq(Argument) /\ Len(v) \in Nat
  BY EndingType
<1>3. w = <<DashDash>> \o v
  BY EndingsAssumption
<1>4. /\ n = Len(Written) /\ argv \in Seq(Argument)
      /\ \A x \in c + 2 .. Len(Written) : argv[x] = Written[x]
  BY DEF Kept
<1>5. CommandAt = c + 2
  BY DEF CommandAt
<1> DEFINE s == SubSeq(argv, c + 2, n)
<1> HIDE DEF w, v, c, n
<1>6. Len(w) = 1 + Len(v) /\ \A j \in 1 .. Len(v) : w[1 + j] = v[j]
  <2>1. <<DashDash>> \in Seq({DashDash}) /\ Len(<<DashDash>>) = 1
    OBVIOUS
  <2>2. Len(<<DashDash>> \o v) = 1 + Len(v)
        /\ \A j \in 1 .. Len(v) : (<<DashDash>> \o v)[1 + j] = v[j]
    BY <1>2
  <2> QED
    BY <1>3, <2>2
<1>7. n = c + 1 + Len(v) /\ n \in Nat /\ n + 1 - (c + 2) = Len(v) /\ c + 2 \in Nat
      /\ c + 2 >= 1 /\ c + 2 <= n + 1 /\ n <= Len(argv)
  BY <1>1, <1>2, <1>4, <1>6 DEF n
<1>8. /\ s \in Seq(Argument) /\ Len(s) = Len(v)
      /\ \A j \in 1 .. Len(v) : s[j] = argv[c + 2 + j - 1]
  <2>1. /\ s \in Seq(Argument) /\ Len(s) = n + 1 - (c + 2)
        /\ \A j \in 1 .. n + 1 - (c + 2) : s[j] = argv[c + 2 + j - 1]
    BY <1>4, <1>7, SubSeqCells
  <2> QED
    BY <1>7, <2>1
<1>9. ASSUME NEW j \in 1 .. Len(v) PROVE s[j] = v[j]
  <2>1. /\ c + 2 + j - 1 = c + (1 + j) /\ 1 + j \in 1 .. Len(w)
        /\ c + (1 + j) \in c + 2 .. Len(Written)
    BY <1>1, <1>2, <1>6
  <2>2. s[j] = argv[c + (1 + j)]
    BY <1>8, <2>1
  <2>3. argv[c + (1 + j)] = Written[c + (1 + j)]
    BY <1>4, <2>1
  <2>4. Written[c + (1 + j)] = w[1 + j]
    BY <1>1, <2>1
  <2> QED
    BY <1>6, <2>2, <2>3, <2>4
<1> HIDE DEF s
<1>10. s = v
  BY <1>2, <1>8, <1>9, SeqEqual
<1>11. CommandAt # 0
  BY <1>1, <1>5
<1> QED
  BY <1>5, <1>10, <1>11 DEF s, v, n

\* The command that main() runs is what was written behind "--", with all of
\* its arguments and nothing else, although the first pass has moved words.
THEOREM CommandFound == ArgsSpec => []CommandRight
<1>1. ASSUME ArgsReadInv PROVE CommandRight
  <2> SUFFICES ASSUME pass \notin {"main", "command"}, PlainArguments, Unmixed
               PROVE  IF ending.command = <<>> THEN application = 0
                      ELSE /\ application # 0
                           /\ SubSeq(argv, application, Len(argv)) = ending.command
    BY DEF CommandRight
  <2>1. /\ application = CommandAt /\ Kept(argv)
        /\ items \in Seq(Items) /\ ending \in Endings
    BY <1>1 DEF ArgsReadInv, ReadRight, ArgsTypeInv
  <2>2. CASE ending.command = <<>>
    BY <2>1, <2>2 DEF CommandAt
  <2>3. CASE ending.command # <<>>
    BY <2>1, <2>3, CommandIs
  <2> QED
    BY <2>2, <2>3
<1> QED
  BY <1>1, ReadsInductive, PTL
=============================================================================
