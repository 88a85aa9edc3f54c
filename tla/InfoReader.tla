----------------------------- MODULE InfoReader -----------------------------
(***************************************************************************)
(* lib/info_reader.c, the line parser behind two sensors: memory_counters  *)
(* reads one record of /proc/meminfo at every sample, amd_rapl one record  *)
(* per processor of /proc/cpuinfo at its start.                            *)
(*                                                                         *)
(* A line is its name (the text before the delimiter), "" for an empty     *)
(* line; Begins says which name starts with which key.  The value of a     *)
(* line is its position and the sample in which it was read.               *)
(***************************************************************************)
EXTENDS Naturals, Sequences, FiniteSets

CONSTANTS
    Files,       \* the files to read: sequences of line names
    KeyLists,    \* the lists of keys to look for
    Begins,      \* pairs <<key, name>>: name starts with key
    Capacity,    \* records the storage holds
    MaxSamples   \* bound on the number of parses

ASSUME CapacityAssumption == Capacity \in Nat \ {0} /\ MaxSamples \in Nat \ {0}
ASSUME FilesAssumption ==
    /\ \A f \in Files : f \in Seq(STRING)
    /\ \A l \in KeyLists : l \in Seq(STRING)

VARIABLES
    file, keys,
    pos,           \* lines read
    key_assigned,  \* values stored for the current record
    nb_stored,     \* records completed
    storage,       \* record -> column -> value
    ret,           \* what parse() returned, or Running
    sample         \* number of the parse

vars == <<file, keys, pos, key_assigned, nb_stored, storage, ret, sample>>

nb_keys == Len(keys)
Unset == [line |-> 0, at |-> 0]
Running == 2  \* parse() returns 0 or 1

Init ==
    /\ file \in Files /\ keys \in KeyLists
    /\ pos = 0 /\ key_assigned = 0 /\ nb_stored = 0 /\ ret = Running
    /\ sample = 1
    /\ storage = [r \in 1 .. Capacity |-> [k \in 1 .. Len(keys) |-> Unset]]

start_with(key, name) == key = name \/ <<key, name>> \in Begins

\* The columns whose key the line starts with; match() takes the first.
Candidates(name) == {k \in 1 .. nb_keys : start_with(keys[k], name)}
Match(name) == CHOOSE k \in Candidates(name) : \A l \in Candidates(name) : k <= l

Reading == ret = Running /\ pos < Len(file)
Line == file[pos + 1]

\* Every key of the record has been seen: its other lines are passed over.
SkipLine ==
    /\ Reading
    /\ key_assigned = nb_keys /\ Line # ""
    /\ pos' = pos + 1
    /\ UNCHANGED <<file, keys, key_assigned, nb_stored, storage, ret, sample>>

\* Fault: the test against the capacity lets one record too many begin.
NextRecordOneMore ==
    /\ Reading
    /\ Line = ""
    /\ pos' = pos + 1
    /\ nb_stored' = nb_stored + 1
    /\ IF nb_stored + 1 > Capacity
       THEN ret' = 0 /\ UNCHANGED key_assigned
       ELSE key_assigned' = 0 /\ UNCHANGED ret
    /\ UNCHANGED <<file, keys, storage, sample>>

\* Fault: key_assigned is not reset for the next record.
NextRecordNoReset ==
    /\ Reading
    /\ Line = ""
    /\ pos' = pos + 1
    /\ nb_stored' = nb_stored + 1
    /\ ret' = IF nb_stored + 1 >= Capacity THEN 0 ELSE ret
    /\ UNCHANGED <<file, keys, key_assigned, storage, sample>>

\* An empty line ends the record; the last record ends the parse.
NextRecord ==
    /\ Reading
    /\ Line = ""
    /\ pos' = pos + 1
    /\ nb_stored' = nb_stored + 1
    /\ IF nb_stored + 1 >= Capacity
       THEN ret' = 0 /\ UNCHANGED key_assigned
       ELSE key_assigned' = 0 /\ UNCHANGED ret
    /\ UNCHANGED <<file, keys, storage, sample>>

\* Fault: lines are stored, and counted, after the last key was assigned.
StoreLineAlways ==
    /\ Reading
    /\ Line # ""
    /\ pos' = pos + 1
    /\ IF Candidates(Line) = {}
       THEN UNCHANGED <<key_assigned, storage>>
       ELSE /\ storage' = [storage EXCEPT ![nb_stored + 1][Match(Line)] =
                              [line |-> pos + 1, at |-> sample]]
            /\ key_assigned' = key_assigned + 1
    /\ UNCHANGED <<file, keys, nb_stored, ret, sample>>

\* match() and set_value(), whose setter is the one of the matched column.
StoreLine ==
    /\ Reading
    /\ key_assigned # nb_keys /\ Line # ""
    /\ pos' = pos + 1
    /\ IF Candidates(Line) = {}
       THEN UNCHANGED <<key_assigned, storage>>
       ELSE /\ storage' = [storage EXCEPT ![nb_stored + 1][Match(Line)] =
                              [line |-> pos + 1, at |-> sample]]
            /\ key_assigned' = key_assigned + 1
    /\ UNCHANGED <<file, keys, nb_stored, ret, sample>>

EndOfFile ==
    /\ ret = Running
    /\ pos = Len(file)
    /\ nb_stored' = IF key_assigned > 0 THEN nb_stored + 1 ELSE nb_stored
    /\ ret' = 1
    /\ UNCHANGED <<file, keys, pos, key_assigned, storage, sample>>

\* get_memory_counters() of the next sample: back to the start of the file,
\* into the same results.
NextSample ==
    /\ ret # Running
    /\ sample < MaxSamples
    /\ sample' = sample + 1
    /\ pos' = 0 /\ key_assigned' = 0 /\ nb_stored' = 0 /\ ret' = Running
    /\ UNCHANGED <<file, keys, storage>>

Terminated == ret # Running /\ sample = MaxSamples /\ UNCHANGED vars

Next == SkipLine \/ NextRecord \/ StoreLine \/ EndOfFile \/ NextSample
            \/ Terminated

Spec == Init /\ [][Next]_vars

-----------------------------------------------------------------------------
(* Properties *)

TypeOK ==
    /\ pos \in 0 .. Len(file) /\ key_assigned \in 0 .. nb_keys
    /\ nb_stored \in 0 .. Capacity
    /\ ret \in {0, 1, Running} /\ sample \in 1 .. MaxSamples
    /\ \A r \in 1 .. Capacity, k \in 1 .. nb_keys :
           storage[r][k] \in [line : 0 .. Len(file), at : 0 .. MaxSamples]

Blank(q) == file[q] = ""
Record(r) == {p \in 1 .. Len(file) :
                ~Blank(p) /\ Cardinality({q \in 1 .. p : Blank(q)}) = r - 1}

\* The values that column k of record r may show: those of the lines of the
\* record whose name is the key, read by the current parse.
Expected(r, k) == {[line |-> p, at |-> sample] :
                      p \in {q \in Record(r) : file[q] = keys[k]}}

ColumnRight(r, k) == Expected(r, k) # {} => storage[r][k] \in Expected(r, k)

\* No key is asked for twice, none is the beginning of the name of another
\* line, and no record has two lines of one name.
Unambiguous ==
    /\ \A k, l \in 1 .. nb_keys : keys[k] = keys[l] => k = l
    /\ \A k \in 1 .. nb_keys, p \in 1 .. Len(file) :
           start_with(keys[k], file[p]) => keys[k] = file[p]
    /\ \A r \in 1 .. Capacity : \A p, q \in Record(r) :
           file[p] = file[q] => p = q

\* When a parse is over each record holds, in the column of each key that it
\* has, the value of that line and of that parse: skipping lines once all
\* keys are assigned loses nothing and leaves nothing from an earlier sample.
RecordsRight ==
    ret # Running /\ Unambiguous =>
        \A r \in 1 .. Capacity, k \in 1 .. nb_keys : ColumnRight(r, k)

\* set_value() never writes behind the storage, whatever the file holds.
InStorage == Reading => nb_stored < Capacity
=============================================================================
