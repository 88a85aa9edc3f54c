----------------------------- MODULE AmdTopology -----------------------------
(***************************************************************************)
(* src/amd_rapl.c: which processors the AMD RAPL sensor opens.  An energy  *)
(* counter belongs to a core, and the processors of a core share it, so    *)
(* that init_amd_rapl() keeps one processor per core and package.  It      *)
(* looks at the machine three times (the msr devices, /proc/cpuinfo, the   *)
(* msr devices again), and processors may go off and on line meanwhile.    *)
(***************************************************************************)
EXTENDS Naturals, Sequences

CONSTANTS
    NbCpus,       \* processors of the machine, on line or not
    Topologies,   \* where they are: processor -> [core, package]
    OnlineSets,   \* sets of processors on line at the start
    MaxHotplugs   \* bound on the processors that go off or on line

Cpus == 0 .. NbCpus - 1

ASSUME TopologyAssumption ==
    /\ NbCpus \in Nat /\ MaxHotplugs \in Nat
    /\ Topologies \subseteq [Cpus -> [core : Nat, package : Nat]]
    /\ OnlineSets \subseteq SUBSET Cpus

VARIABLES
    pc,
    topology, online, hotplugs,   \* the machine
    max_cpus,                     \* processors counted
    cpu_information,              \* processors, in the order of /proc/cpuinfo
    i,
    nb_package, nb_core,
    cpu_map,                      \* pairs <<core, package>> marked so far
    sensors,                      \* processors opened
    open                          \* processors whose device is open

machine == <<topology, online, hotplugs>>
vars == <<pc, machine, max_cpus, cpu_information, i, nb_package, nb_core,
          cpu_map, sensors, open>>

Core(cpu) == topology[cpu].core
Package(cpu) == topology[cpu].package

Init ==
    /\ topology \in Topologies /\ online \in OnlineSets /\ hotplugs = 0
    /\ pc = "count" /\ max_cpus = 0 /\ cpu_information = <<>> /\ i = 0
    /\ nb_package = 0 /\ nb_core = 0 /\ cpu_map = {} /\ sensors = <<>>
    /\ open = {}

\* Fault: the number of the gap is counted too.
CountGap ==
    /\ pc = "count"
    /\ max_cpus' = max_cpus + 1
    /\ pc' = IF max_cpus \in online THEN pc ELSE "parse"
    /\ UNCHANGED <<machine, cpu_information, i, nb_package, nb_core, cpu_map,
                   sensors, open>>

\* get_nb_cpu(): the device of a processor on line opens.  The count ends at
\* the first gap, and the program with it when there is no device 0.
CountCpu ==
    /\ pc = "count"
    /\ IF max_cpus \in online
       THEN max_cpus' = max_cpus + 1 /\ pc' = pc
       ELSE pc' = (IF max_cpus = 0 THEN "exit" ELSE "parse") /\ max_cpus' = max_cpus
    /\ UNCHANGED <<machine, cpu_information, i, nb_package, nb_core, cpu_map,
                   sensors, open>>

\* s lists the first max_cpus processors on line, in their order.
FirstRecords(s) ==
    /\ \A j \in 1 .. max_cpus : s[j] \in online
    /\ \A j, k \in 1 .. max_cpus : j < k => s[j] < s[k]
    /\ \A cpu \in online : cpu < s[max_cpus] => \E j \in 1 .. max_cpus : s[j] = cpu

\* parse_cpuinfo(): the parser fills max_cpus records and stops; a file with
\* fewer of them ends the program.
ParseCpuinfo ==
    /\ pc = "parse"
    /\ \/ /\ \E s \in [1 .. max_cpus -> Cpus] :
                FirstRecords(s) /\ cpu_information' = s
          /\ pc' = "arch"
       \/ /\ ~ \E s \in [1 .. max_cpus -> Cpus] : FirstRecords(s)
          /\ cpu_information' = cpu_information
          /\ pc' = "exit"
    /\ UNCHANGED <<machine, max_cpus, i, nb_package, nb_core, cpu_map, sensors,
                   open>>

Larger(a, b) == IF b > a THEN b ELSE a

\* One turn of get_arch(), the largest number of a package and of a core.
ArchOf ==
    /\ pc = "arch" /\ i < max_cpus
    /\ nb_package' = Larger(nb_package, Package(cpu_information[i + 1]))
    /\ nb_core' = Larger(nb_core, Core(cpu_information[i + 1]))
    /\ i' = i + 1
    /\ UNCHANGED <<pc, machine, max_cpus, cpu_information, cpu_map, sensors, open>>

\* Fault: the largest numbers are taken for the sizes of the map.
EndArchNoIncrement ==
    /\ pc = "arch" /\ i = max_cpus
    /\ i' = 0 /\ pc' = "map"
    /\ UNCHANGED <<machine, max_cpus, cpu_information, nb_package, nb_core,
                   cpu_map, sensors, open>>

EndArch ==
    /\ pc = "arch" /\ i = max_cpus
    /\ nb_package' = nb_package + 1 /\ nb_core' = nb_core + 1
    /\ i' = 0 /\ pc' = "map"
    /\ UNCHANGED <<machine, max_cpus, cpu_information, cpu_map, sensors, open>>

\* Fault: the place in the map forgets the package.
PlaceCore(cpu) == <<Core(cpu), 0>>

\* The place of a processor in cpu_map.
Place(cpu) == <<Core(cpu), Package(cpu)>>

\* Fault: only the neighbour in /proc/cpuinfo is looked at.
KnownNeighbour(cpu) == i > 0 /\ Place(cpu_information[i]) = Place(cpu)

\* is_duplicate() returns 0 for a processor whose core is known.
Known(cpu) == Place(cpu) \in cpu_map

SkipCpu ==
    /\ pc = "map" /\ i < max_cpus /\ Known(cpu_information[i + 1])
    /\ i' = i + 1
    /\ UNCHANGED <<pc, machine, max_cpus, cpu_information, nb_package, nb_core,
                   cpu_map, sensors, open>>

\* init_cpu_sensor() opens the device again, and exits if it has gone.
OpenCpu ==
    /\ pc = "map" /\ i < max_cpus
    /\ LET cpu == cpu_information[i + 1]
       IN /\ ~ Known(cpu)
          /\ cpu_map' = cpu_map \cup {Place(cpu)}
          /\ IF cpu \in online
             THEN /\ sensors' = Append(sensors, cpu) /\ open' = open \cup {cpu}
                  /\ i' = i + 1 /\ pc' = pc
             ELSE pc' = "exit" /\ UNCHANGED <<sensors, open, i>>
    /\ UNCHANGED <<machine, max_cpus, cpu_information, nb_package, nb_core>>

EndInit ==
    /\ pc = "map" /\ i = max_cpus
    /\ pc' = "ready" /\ i' = 0
    /\ UNCHANGED <<machine, max_cpus, cpu_information, nb_package, nb_core,
                   cpu_map, sensors, open>>

\* One turn of get_amd_rapl(): the register of a processor that has gone
\* cannot be read, which ends the program through the exit functions.
GetCpu ==
    /\ pc = "ready"
    /\ i' = IF i + 1 = Len(sensors) THEN 0 ELSE i + 1
    /\ pc' = IF sensors[i + 1] \in online THEN "ready" ELSE "clean"
    /\ UNCHANGED <<machine, max_cpus, cpu_information, nb_package, nb_core,
                   cpu_map, sensors, open>>

Clean ==
    /\ pc = "clean"
    /\ open' = open \ {sensors[j] : j \in 1 .. Len(sensors)}
    /\ pc' = "done"
    /\ UNCHANGED <<machine, max_cpus, cpu_information, i, nb_package, nb_core,
                   cpu_map, sensors>>

\* The main program stops, after its time or at a signal.
Stop ==
    /\ pc = "ready"
    /\ pc' = "clean"
    /\ UNCHANGED <<machine, max_cpus, cpu_information, i, nb_package, nb_core,
                   cpu_map, sensors, open>>

Hotplug ==
    /\ hotplugs < MaxHotplugs /\ hotplugs' = hotplugs + 1
    /\ \E cpu \in Cpus : online' = (online \ {cpu}) \cup ({cpu} \ online)
    /\ UNCHANGED <<pc, topology, max_cpus, cpu_information, i, nb_package,
                   nb_core, cpu_map, sensors, open>>

Terminated == pc \in {"exit", "done"} /\ UNCHANGED vars

Next == \/ CountCpu \/ ParseCpuinfo \/ ArchOf \/ EndArch
        \/ SkipCpu \/ OpenCpu \/ EndInit \/ GetCpu \/ Clean \/ Stop
        \/ Hotplug \/ Terminated

Spec == Init /\ [][Next]_vars

-----------------------------------------------------------------------------
(* Properties *)

TypeOK ==
    /\ pc \in {"count", "parse", "arch", "map", "ready", "clean", "exit", "done"}
    /\ topology \in Topologies /\ online \subseteq Cpus
    /\ hotplugs \in 0 .. MaxHotplugs
    /\ max_cpus \in 0 .. NbCpus /\ i \in Nat
    /\ cpu_information \in Seq(Cpus)
    /\ nb_package \in Nat /\ nb_core \in Nat
    /\ cpu_map \subseteq Nat \X Nat
    /\ sensors \in Seq(Cpus) /\ open \subseteq Cpus

\* is_duplicate() stays inside unsigned char map[nb_core][nb_package],
\* whatever the numbers of the cores and packages.
InMap ==
    pc = "map" =>
        \A j \in 1 .. Len(cpu_information) :
            /\ Place(cpu_information[j])[1] < nb_core
            /\ Place(cpu_information[j])[2] < nb_package

\* No core is measured by two columns, which would count its energy twice.
OnePerCore ==
    \A j, k \in 1 .. Len(sensors) :
        j # k => topology[sensors[j]] # topology[sensors[k]]

\* No gap in the numbers of the processors on line.
Contiguous == \A cpu \in online : \A c \in 0 .. cpu : c \in online

\* On a machine that does not change, and without a gap, the sensor opens at
\* least one processor of every core.
EveryCoreMeasured ==
    pc = "ready" /\ hotplugs = 0 /\ Contiguous =>
        {topology[cpu] : cpu \in online} = {topology[cpu] : cpu \in open}
=============================================================================
