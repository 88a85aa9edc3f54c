---------------------------- MODULE FileSensors ----------------------------
(***************************************************************************)
(* The sensors that find their columns when they start and read them from  *)
(* files kept open: rapl.c, temperature.c, disk.c, infiniband.c,           *)
(* network.c, load.c, counters.c and memory_counters.c.  They walk         *)
(* numbered directories until one is missing, take what glob() lists, or   *)
(* take the names listed in their argument; devices may go away at any     *)
(* moment.                                                                 *)
(*                                                                         *)
(* A file is a pair of numbers: zone and subzone (0 for the package) of    *)
(* RAPL, hwmon and temp of temperature (0 for the name of the hwmon),      *)
(* disk (and 0), port or device and counter of infiniband and network,     *)
(* event and core of perf.  A value is the sequence of the fields it was   *)
(* made of.                                                                *)
(***************************************************************************)
EXTENDS Integers, Sequences, FiniteSets, SequencesExt

CONSTANTS
    Machines,     \* records: the sensor, the files, the cores or the option
    Coretemp,     \* numbers of the hwmon called "coretemp"
    Name(_),      \* what the name or label file next to a file holds
    NbFields,     \* fields of the stat file of a disk, counters of a port
    NbCounters,   \* names in perf_static_info[] and in memory_counters[]
    MaxUnplugs    \* bound on the devices that go away

ASSUME BoundsAssumption ==
    /\ NbFields \in Nat \ {0} /\ NbCounters \in Nat \ {0}
    /\ MaxUnplugs \in Nat /\ Coretemp \subseteq Nat
\* What the kernel shows of the devices that a sensor looks for, and the names
\* in the option.
ASSUME MachinesAssumption ==
    \A m \in Machines :
        /\ m.kind \in {"rapl", "temperature", "disk", "infiniband", "network",
                       "load", "perf", "memory"}
        /\ m.files \subseteq Nat \X Nat /\ IsFiniteSet(m.files)
        /\ m.list \in Seq(Nat)
        /\ m.kind = "disk" => \A f \in m.files : f[2] = 0
        /\ m.kind \in {"infiniband", "network"} =>
               \A f \in m.files : f[2] \in 1 .. NbFields
        /\ m.kind = "network" =>
               \A j, k \in 1 .. Len(m.list) : m.list[j] = m.list[k] => j = k
        /\ m.kind = "perf" =>
               /\ m.files # {}
               /\ m.files = (1 .. NbCounters) \X {f[2] : f \in m.files}
        /\ m.kind \in {"load", "memory"} => m.files = {<<0, 0>>}
\* The zones of RAPL, the subzones of a zone and the temperatures of a hwmon
\* have different names.
ASSUME NamesAssumption ==
    \A m \in Machines : m.kind \in {"rapl", "temperature"} =>
        \A f, g \in m.files :
            /\ Name(f) = Name(g)
            /\ \/ f[1] = g[1] /\ f[2] > 0 /\ g[2] > 0
               \/ m.kind = "rapl" /\ f[2] = 0 /\ g[2] = 0
            => f = g

VARIABLES
    machine,      \* the machine and the command line
    files,        \* the files there are now
    unplugs,
    pc,
    at,           \* the file the walk is looking at
    key,          \* temperature: the coretemp hwmon met so far
    indexes,      \* the names of the option found so far
    todo,         \* the files that are still to be opened
    fids,         \* the file behind each descriptor, None for -1
    open,         \* descriptors that are open
    labels,
    buffer,       \* the file whose content the buffer holds
    d,            \* descriptors read for this row
    row           \* the values read so far

environment == <<machine, files, unplugs>>
search  == <<at, key, indexes, todo>>
columns == <<fids, open, labels>>
reading == <<buffer, d, row>>
vars == <<environment, pc, search, columns, reading>>

kind == machine.kind
None == <<-1, -1>>  \* a descriptor of -1
Proc == <<0, 0>>    \* /proc/meminfo, /proc/stat

Init ==
    /\ machine \in Machines /\ files = machine.files /\ unplugs = 0
    /\ pc = CASE kind \in {"rapl", "temperature"} -> "walk"
              [] kind \in {"perf", "memory"}      -> "list"
              [] OTHER                             -> "find"
    /\ at = <<0, 0>> /\ key = 0 /\ indexes = <<>> /\ todo = <<>>
    /\ fids = <<>> /\ open = {} /\ labels = <<>>
    /\ buffer = None /\ d = 0 /\ row = <<>>

\* A sensor that finds nothing returns 0, and add_source() drops it.
Found == IF labels = <<>> THEN "dropped" ELSE "ready"

-----------------------------------------------------------------------------
(* rapl.c and temperature.c walk numbered directories *)

\* The name of the zone, and for a subzone the number of its package.
RaplLabel(f) == <<Name(f), IF f[2] = 0 THEN -1 ELSE f[1]>>

\* The file at which the walk has arrived has a name: a zone, or a temperature
\* of a coretemp hwmon.  It is opened next.
WalkFound ==
    /\ pc = "walk" /\ at \in files
    /\ kind = "rapl" \/ at[2] > 0
    /\ labels' = Append(labels, IF kind = "rapl" THEN RaplLabel(at)
                                                 ELSE <<Name(at), key>>)
    /\ pc' = "open"
    /\ UNCHANGED <<environment, search, fids, open, reading>>

\* It may have gone, or be closed to the user: the program ends.  Of a zone
\* that went before its range was read, a string is converted that is not
\* there: the program dies, and cleans nothing.
WalkOpen ==
    /\ pc = "open"
    /\ \/ /\ at \in files
          /\ fids' = Append(fids, at) /\ open' = open \cup {Len(fids) + 1}
          /\ at' = <<at[1], at[2] + 1>>
          /\ pc' = "walk"
       \/ pc' = "exit" /\ UNCHANGED <<fids, open, at>>
       \/ /\ kind = "rapl" /\ at \notin files
          /\ pc' = "crash" /\ UNCHANGED <<fids, open, at>>
    /\ UNCHANGED <<environment, key, indexes, todo, labels, reading>>

\* init_temperature() reads the name of a hwmon.
HwmonName ==
    /\ pc = "walk" /\ kind = "temperature"
    /\ at \in files /\ at[2] = 0
    /\ at' = IF at[1] \in Coretemp THEN <<at[1], 1>> ELSE <<at[1] + 1, 0>>
    /\ UNCHANGED <<environment, pc, key, indexes, todo, columns, reading>>

\* Fault: key is not incremented.
WalkNextSameKey ==
    /\ pc = "walk" /\ at \notin files /\ at[2] > 0
    /\ at' = <<at[1] + 1, 0>>
    /\ UNCHANGED <<environment, pc, key, indexes, todo, columns, reading>>

\* No more subzone, or temperature: on to the next zone, or hwmon.
WalkNext ==
    /\ pc = "walk" /\ at \notin files /\ at[2] > 0
    /\ at' = <<at[1] + 1, 0>>
    /\ key' = IF kind = "temperature" THEN key + 1 ELSE key
    /\ UNCHANGED <<environment, pc, indexes, todo, columns, reading>>

\* The first zone, or hwmon, that is missing ends the walk.
WalkEnd ==
    /\ pc = "walk" /\ at \notin files /\ at[2] = 0
    /\ pc' = IF kind = "rapl" THEN "base" ELSE Found
    /\ UNCHANGED <<environment, search, columns, reading>>

-----------------------------------------------------------------------------
(* counters.c and memory_counters.c: the list of names in the option *)

\* Fault: one name too many is let through.
TooManyByOne(list) == kind = "memory" /\ Len(list) > NbCounters + 1

\* memory_list() counts the names, after the index of the last one has been
\* stored; perf_event_list() grows its array.
TooMany(list) == kind = "memory" /\ Len(list) > NbCounters

\* A turn of perf_event_list() or memory_list(): a name that is unknown ends
\* the program.
ListName ==
    /\ pc = "list" /\ Len(indexes) < Len(machine.list)
    /\ LET name == machine.list[Len(indexes) + 1]
       IN  IF name \in 1 .. NbCounters
           THEN indexes' = Append(indexes, name)
                    /\ pc' = IF TooMany(indexes') THEN "exit" ELSE pc
           ELSE indexes' = indexes /\ pc' = "exit"
    /\ UNCHANGED <<environment, at, key, todo, columns, reading>>

\* sysconf(_SC_NPROCESSORS_ONLN): how many, not which.
NbCores == Cardinality({f[2] : f \in files})

\* Fault: the events are opened on one processor only.
PerfFilesOneCore == [e \in 1 .. Len(indexes) |-> <<indexes[e], 0>>]

\* _init_counters(): one event of each name on each of the first processors.
PerfFiles == FlattenSeq([e \in 1 .. Len(indexes) |->
                            [c \in 1 .. NbCores |-> <<indexes[e], c - 1>>]])

ListEnd ==
    /\ pc = "list" /\ Len(indexes) = Len(machine.list)
    /\ todo' = IF kind = "perf" THEN PerfFiles ELSE <<Proc>>
    /\ labels' = [e \in 1 .. Len(indexes) |-> <<indexes[e], 0>>]
    /\ pc' = "openList"
    /\ UNCHANGED <<environment, at, key, indexes, fids, open, reading>>

-----------------------------------------------------------------------------
(* disk.c, infiniband.c, network.c and load.c: devices, and one file *)

DiskLabels(list) ==
    FlattenSeq([k \in 1 .. Len(list) |-> [j \in 1 .. NbFields |-> <<list[k][1], j>>]])

\* Every disk, in alphabetical order.
GlobDisks ==
    /\ pc = "find" /\ kind = "disk"
    /\ \E list \in [1 .. Cardinality(files) -> files] :
           /\ \A j, k \in DOMAIN list : j < k => list[j][1] < list[k][1]
           /\ todo' = list /\ labels' = DiskLabels(list)
    /\ pc' = IF files = {} THEN "dropped" ELSE "openList"
    /\ UNCHANGED <<environment, at, key, indexes, fids, open, reading>>

\* The port of the argument, or with X the first of those there are.
GlobPorts ==
    /\ pc = "find" /\ kind = "infiniband"
    /\ LET ports == IF machine.port = "X" THEN {f[1] : f \in files} ELSE {0}
       IN  IF ports = {}
           THEN pc' = "dropped" /\ UNCHANGED <<todo, labels>>
           ELSE /\ todo' = [j \in 1 .. NbFields |-> <<Min(ports), j>>]
                /\ labels' = [j \in 1 .. NbFields |-> <<0, j>>]
                /\ pc' = "openList"
    /\ UNCHANGED <<environment, at, key, indexes, fids, open, reading>>

\* Every counter of every device: the one of the option, or those that
\* init_network() has found in the route table.
FindDevices ==
    /\ pc = "find" /\ kind = "network"
    /\ todo' = FlattenSeq([k \in 1 .. Len(machine.list) |->
                              [j \in 1 .. NbFields |-> <<machine.list[k], j>>]])
    /\ labels' = todo'
    /\ pc' = "openList"
    /\ UNCHANGED <<environment, at, key, indexes, fids, open, reading>>

FindStat ==
    /\ pc = "find" /\ kind = "load"
    /\ todo' = <<Proc>> /\ labels' = [j \in 1 .. NbFields |-> <<0, j>>]
    /\ pc' = "openList"
    /\ UNCHANGED <<environment, at, key, indexes, fids, open, reading>>

\* The next file of the list.  The opens of disk and infiniband are not
\* checked, and store -1.
OpenListed ==
    /\ pc = "openList" /\ todo # <<>>
    /\ IF Head(todo) \in files
       THEN /\ fids' = Append(fids, Head(todo))
            /\ open' = open \cup {Len(fids) + 1}
            /\ pc' = pc
       ELSE /\ fids' = Append(fids, None) /\ open' = open
            /\ pc' = IF kind \in {"disk", "infiniband"} THEN pc ELSE "exit"
    /\ todo' = Tail(todo)
    /\ UNCHANGED <<environment, at, key, indexes, labels, reading>>

OpenedAll ==
    /\ pc = "openList" /\ todo = <<>>
    /\ pc' = IF kind = "memory" THEN Found ELSE "base"
    /\ UNCHANGED <<environment, search, columns, reading>>

-----------------------------------------------------------------------------
(* The readings: a first one in init, one for each sample *)

Get ==
    /\ pc \in {"ready", "use"}
    /\ pc' = "get" /\ d' = 0 /\ row' = <<>>
    /\ UNCHANGED <<environment, search, columns, buffer>>

\* What the content of file f adds to the values read before it: the fields
\* of a disk or of a file of /proc, the part of one processor, or a number.
With(values, f) ==
    CASE kind \in {"disk", "load"} -> values \o [j \in 1 .. NbFields |-> <<<<f, j>>>>]
      [] kind = "memory" -> values \o [e \in 1 .. Len(indexes) |-> <<<<f, indexes[e]>>>>]
      [] kind = "perf" /\ d % (Len(fids) \div Len(indexes)) # 0 ->
             [values EXCEPT ![Len(values)] = Append(@, <<f, 0>>)]
      [] OTHER -> Append(values, <<<<f, 0>>>>)

\* A descriptor that was never opened, or whose device has gone, cannot be
\* read.  An event of a processor that went off line keeps its last count.
Readable(f) == f # None /\ (f \in files \/ kind = "perf")

\* Fault: the result of pread() is looked at in init only.
ReadUnchecked ==
    /\ pc \in {"base", "get"} /\ d < Len(fids)
    /\ LET f == fids[d + 1]
       IN  IF Readable(f) \/ pc = "get"
           THEN /\ buffer' = IF Readable(f) THEN f ELSE buffer
                /\ row' = With(row, buffer') /\ d' = d + 1 /\ pc' = pc
           ELSE pc' = "exit" /\ UNCHANGED reading
    /\ UNCHANGED <<environment, search, columns>>

\* A turn of the loops of _get_rapl(), _get_disk(), _get_infiniband(),
\* _get_network(), _get_counters() and get_temperature(): a read that fails
\* ends the program.
Read ==
    /\ pc \in {"base", "get"} /\ d < Len(fids)
    /\ LET f == fids[d + 1]
       IN  IF Readable(f)
           THEN buffer' = f /\ row' = With(row, f) /\ d' = d + 1 /\ pc' = pc
           ELSE pc' = "exit" /\ UNCHANGED reading
    /\ UNCHANGED <<environment, search, columns>>

EndRead ==
    /\ pc \in {"base", "get"} /\ d = Len(fids)
    /\ pc' = IF pc = "base" THEN Found ELSE "use"
    /\ UNCHANGED <<environment, search, columns, reading>>

\* Fault: the last descriptor is left open.
CleanButLast ==
    /\ pc \in {"ready", "use"}
    /\ open' = open \ (1 .. Len(fids) - 1)
    /\ pc' = "cleaned"
    /\ UNCHANGED <<environment, search, fids, labels, reading>>

Clean ==
    /\ pc \in {"ready", "use"}
    /\ open' = open \ (1 .. Len(fids))
    /\ pc' = "cleaned"
    /\ UNCHANGED <<environment, search, fids, labels, reading>>

-----------------------------------------------------------------------------
\* A device goes away with all of its files, or a processor, not the last one,
\* goes off line.
Unplug ==
    /\ unplugs < MaxUnplugs /\ kind \notin {"memory", "load"}
    /\ pc \notin {"exit", "crash", "dropped", "cleaned"}
    /\ \E f \in files :
           files' = IF kind = "perf" THEN {g \in files : g[2] # f[2]}
                                     ELSE {g \in files : g[1] # f[1]}
    /\ kind = "perf" => files' # {}
    /\ unplugs' = unplugs + 1
    /\ UNCHANGED <<machine, pc, search, columns, reading>>

Terminated == pc \in {"exit", "crash", "dropped", "cleaned"} /\ UNCHANGED vars

Next == WalkFound \/ WalkOpen \/ HwmonName \/ WalkNext \/ WalkEnd \/ ListName
            \/ ListEnd \/ GlobDisks \/ GlobPorts \/ FindDevices \/ FindStat
            \/ OpenListed \/ OpenedAll
            \/ Get \/ Read \/ EndRead \/ Clean \/ Unplug \/ Terminated

Spec == Init /\ [][Next]_vars

-----------------------------------------------------------------------------
(* Properties *)

\* The lists of names fit: a memory sensor that starts has no more columns
\* than setter functions, and one that does not has written one index, never
\* more, behind the array.
ListFits ==
    kind = "memory" =>
        /\ Len(indexes) <= NbCounters + 1
        /\ pc \notin {"list", "exit"} => Len(indexes) <= NbCounters

\* The number of coretemp hwmon before that of file f.
KeyOf(f) == Cardinality({h \in Coretemp : h < f[1]})

\* What the label of a column promises to report.
Promised(l) ==
    CASE kind = "rapl" -> {<<<<f, 0>>>> : f \in {g \in machine.files :
             l = <<Name(g), IF g[2] = 0 THEN -1 ELSE g[1]>>}}
      [] kind = "temperature" -> {<<<<f, 0>>>> : f \in {g \in machine.files :
             g[2] > 0 /\ g[1] \in Coretemp /\ l = <<Name(g), KeyOf(g)>>}}
      [] kind \in {"disk", "load"} -> {<<<<<<l[1], 0>>, l[2]>>>>}
      [] kind = "network" -> {<<<<l, 0>>>>}
      [] kind = "infiniband" -> {<<<<<<p, l[2]>>, 0>>>> : p \in {f[1] : f \in machine.files}}
      [] kind = "perf" ->
             {[c \in 1 .. Len(fids) \div Len(indexes) |-> <<<<l[1], c - 1>>, 0>>]}
      [] kind = "memory" -> {<<<<Proc, l[1]>>>>}

\* A row has one value under each label, made of the files that the label
\* names and of no other: nothing is read from the buffer of another file
\* when a device has gone, and no file is missing from the middle.
ColumnsMatch ==
    pc = "use" => /\ Len(row) = Len(labels)
                  /\ \A k \in 1 .. Len(row) : row[k] \in Promised(labels[k])

\* Columns that the sensor has found by itself can be told apart, also those
\* of several packages whose cores and zones have the same names.
LabelsDistinct ==
    kind \notin {"perf", "memory"} =>
        \A j, k \in 1 .. Len(labels) : labels[j] = labels[k] => j = k

\* The directories are numbered without a gap.
NoGap == \A f \in machine.files :
            \A i \in 0 .. f[1], j \in 0 .. f[2] :
                (i < f[1] => <<i, 0>> \in machine.files) /\ <<f[1], j>> \in machine.files

Wanted ==
    CASE kind = "temperature" -> {f \in machine.files : f[1] \in Coretemp /\ f[2] > 0}
      [] kind = "infiniband"  -> {f \in machine.files : f[1] = fids[1][1]}
      [] kind = "network"     -> {f \in machine.files : f[1] \in ToSet(machine.list)}
      [] kind = "perf"        -> {f \in machine.files : f[1] \in ToSet(indexes)}
      [] OTHER                -> machine.files

\* On a machine that stays as it is, a sensor that starts measures all there
\* is to measure: every zone and temperature where the numbers have no gap,
\* every disk, and each event on every processor that is on line.
AllMeasured ==
    pc = "ready" /\ unplugs = 0 /\ (kind \in {"rapl", "temperature"} => NoGap) =>
        ToSet(fids) = Wanted

\* A sensor that was cleaned holds no file, nor does one that add_source()
\* drops and will never clean; but for a list without a name of a memory
\* counter, with which /proc/meminfo stays open.
NothingLeftOpen ==
    /\ pc = "cleaned" => open = {}
    /\ pc = "dropped" /\ (kind = "memory" => machine.list # <<>>) => open = {}
=============================================================================
