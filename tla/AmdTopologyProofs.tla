-------------------------- MODULE AmdTopologyProofs --------------------------
(***************************************************************************)
(* The choice of processors in AmdTopology, proved for every machine: any  *)
(* number of processors, numbered in any way, that go off and on line at   *)
(* any moment.                                                             *)
(***************************************************************************)
EXTENDS AmdTopology, WellFoundedInduction, TLAPS

\* What get_arch() has found so far bounds the processors it has looked at.
ArchInv ==
    /\ pc \in {"count", "parse"} => i = 0
    /\ pc \in {"arch", "map"} => Len(cpu_information) = max_cpus
    /\ pc = "arch" =>
        \A j \in 1 .. Len(cpu_information) :
            j <= i => /\ Core(cpu_information[j]) <= nb_core
                      /\ Package(cpu_information[j]) <= nb_package

\* The core of every sensor is marked in the map.
MarkedInv == \A j \in 1 .. Len(sensors) : Place(sensors[j]) \in cpu_map

IInv == TypeOK /\ ArchInv /\ InMap /\ MarkedInv /\ OnePerCore

\* The numbers of a processor on a machine of the right type.
LEMMA PlaceType ==
    ASSUME topology \in Topologies, NEW cpu \in Cpus
    PROVE  /\ Core(cpu) \in Nat /\ Package(cpu) \in Nat
           /\ Place(cpu) \in Nat \X Nat
BY TopologyAssumption DEF Core, Package, Place

\* Nothing is opened or listed at the start.
LEMMA InitIInv == Init => IInv
BY TopologyAssumption
   DEF Init, IInv, TypeOK, ArchInv, InMap, MarkedInv, OnePerCore

\* The machine keeps its topology, and processors stay what they are.
LEMMA StepTypeOK == TypeOK /\ ArchInv /\ [Next]_vars => TypeOK'
<1> SUFFICES ASSUME TypeOK, ArchInv, [Next]_vars PROVE TypeOK'
  OBVIOUS
<1> USE TopologyAssumption
<1>1. CASE CountCpu
  <2>1. max_cpus' \in 0 .. NbCpus
    <3>1. max_cpus \in 0 .. NbCpus /\ online \subseteq 0 .. NbCpus - 1
      BY DEF TypeOK, Cpus
    <3>2. \/ max_cpus \in online /\ max_cpus' = max_cpus + 1
          \/ max_cpus' = max_cpus
      BY <1>1 DEF CountCpu
    <3> QED
      BY <3>1, <3>2
  <2>2. pc' \in {"count", "parse", "exit"}
    BY <1>1 DEF CountCpu
  <2>3. UNCHANGED <<topology, online, hotplugs, cpu_information, i, nb_package,
                    nb_core, cpu_map, sensors, open>>
    BY <1>1 DEF CountCpu, machine
  <2> QED
    BY <2>1, <2>2, <2>3 DEF TypeOK
<1>2. CASE ParseCpuinfo
  BY <1>2 DEF ParseCpuinfo, TypeOK, machine
<1>3. CASE ArchOf
  <2>1. cpu_information[i + 1] \in Cpus
    BY <1>3 DEF ArchOf, TypeOK, ArchInv
  <2>2. /\ Core(cpu_information[i + 1]) \in Nat
        /\ Package(cpu_information[i + 1]) \in Nat
    BY <2>1, PlaceType DEF TypeOK
  <2>3. nb_package' \in Nat /\ nb_core' \in Nat /\ i' \in Nat
    BY <1>3, <2>2 DEF ArchOf, TypeOK, Larger
  <2> QED
    BY <1>3, <2>3 DEF ArchOf, TypeOK, machine
<1>4. CASE EndArch
  BY <1>4 DEF EndArch, TypeOK, machine
<1>5. CASE SkipCpu
  BY <1>5 DEF SkipCpu, TypeOK, machine
<1>6. CASE OpenCpu
  <2>1. cpu_information[i + 1] \in Cpus
    BY <1>6 DEF OpenCpu, TypeOK, ArchInv
  <2>2. Place(cpu_information[i + 1]) \in Nat \X Nat
    BY <2>1, PlaceType DEF TypeOK
  <2>3. sensors' \in Seq(Cpus) /\ open' \subseteq Cpus
    <3> DEFINE cpu == cpu_information[i + 1]
    <3>1. \/ sensors' = Append(sensors, cpu) /\ open' = open \cup {cpu}
          \/ sensors' = sensors /\ open' = open
      BY <1>6 DEF OpenCpu
    <3>2. cpu \in Cpus
      BY <2>1
    <3>3. sensors \in Seq(Cpus) /\ open \subseteq Cpus
      BY DEF TypeOK
    <3> HIDE DEF cpu
    <3>4. Append(sensors, cpu) \in Seq(Cpus)
      BY <3>2, <3>3
    <3>5. open \cup {cpu} \subseteq Cpus
      BY <3>2, <3>3
    <3> QED BY <3>1, <3>3, <3>4, <3>5
  <2>4. cpu_map' \subseteq Nat \X Nat
    BY <1>6, <2>2 DEF OpenCpu, TypeOK
  <2>5. i' \in Nat /\ pc' \in {"map", "exit"}
    BY <1>6 DEF OpenCpu, TypeOK
  <2> QED
    BY <1>6, <2>3, <2>4, <2>5 DEF OpenCpu, TypeOK, machine
<1>7. CASE EndInit
  BY <1>7 DEF EndInit, TypeOK, machine
<1>8. CASE GetCpu
  BY <1>8 DEF GetCpu, TypeOK, machine
<1>9. CASE Clean
  BY <1>9 DEF Clean, TypeOK, machine
<1>10. CASE Stop
  BY <1>10 DEF Stop, TypeOK, machine
<1>11. CASE Hotplug
  BY <1>11 DEF Hotplug, TypeOK
<1>12. CASE Terminated \/ UNCHANGED vars
  BY <1>12 DEF Terminated, TypeOK, vars, machine
<1> QED
  BY <1>1, <1>2, <1>3, <1>4, <1>5, <1>6, <1>7, <1>8, <1>9, <1>10, <1>11, <1>12
     DEF Next

\* The largest numbers bound every processor, and the map is one larger.
LEMMA StepArch == TypeOK /\ ArchInv /\ InMap /\ [Next]_vars => ArchInv' /\ InMap'
<1> SUFFICES ASSUME TypeOK, ArchInv, InMap, [Next]_vars PROVE ArchInv' /\ InMap'
  OBVIOUS
<1> USE TopologyAssumption
<1>a. \A j \in 1 .. Len(cpu_information) :
         /\ Core(cpu_information[j]) \in Nat
         /\ Package(cpu_information[j]) \in Nat
  BY PlaceType DEF TypeOK
<1>1. CASE CountCpu
  BY <1>1 DEF CountCpu, ArchInv, InMap
<1>2. CASE ParseCpuinfo
  <2>1. CASE pc' = "arch"
    <3>1. /\ cpu_information' \in [1 .. max_cpus -> Cpus]
          /\ max_cpus \in Nat /\ i' = 0 /\ max_cpus' = max_cpus
      BY <1>2, <2>1 DEF ParseCpuinfo, ArchInv, TypeOK
    <3>2. Len(cpu_information') = max_cpus'
      BY <3>1
    <3> QED
      BY <2>1, <3>1, <3>2 DEF ArchInv, InMap
  <2>2. CASE pc' = "exit"
    BY <2>2 DEF ArchInv, InMap
  <2> QED BY <1>2, <2>1, <2>2 DEF ParseCpuinfo
<1>3. CASE ArchOf
  <2>1. /\ pc' = "arch" /\ i' = i + 1 /\ i \in Nat
        /\ cpu_information' = cpu_information /\ topology' = topology
        /\ Len(cpu_information) = max_cpus /\ max_cpus' = max_cpus
    BY <1>3 DEF ArchOf, ArchInv, TypeOK, machine
  <2>2. /\ nb_core' \in Nat /\ nb_core <= nb_core'
        /\ Core(cpu_information[i + 1]) <= nb_core'
    BY <1>3, <1>a, <2>1 DEF ArchOf, TypeOK, Larger
  <2>3. /\ nb_package' \in Nat /\ nb_package <= nb_package'
        /\ Package(cpu_information[i + 1]) <= nb_package'
    BY <1>3, <1>a, <2>1 DEF ArchOf, TypeOK, Larger
  <2>4. \A j \in 1 .. Len(cpu_information) : j <= i + 1 =>
           /\ Core(cpu_information[j]) <= nb_core'
           /\ Package(cpu_information[j]) <= nb_package'
    <3> TAKE j \in 1 .. Len(cpu_information)
    <3>1. CASE j <= i
      BY <1>3, <1>a, <2>2, <2>3, <3>1 DEF ArchOf, ArchInv, TypeOK
    <3>2. CASE j = i + 1
      BY <2>2, <2>3, <3>2
    <3> QED BY <2>1, <3>1, <3>2
  <2> QED
    BY <2>1, <2>4 DEF ArchInv, InMap, Core, Package
<1>4. CASE EndArch
  BY <1>4, <1>a DEF EndArch, ArchInv, InMap, TypeOK, machine, Place, Core, Package
<1>5. CASE SkipCpu \/ OpenCpu
  BY <1>5 DEF SkipCpu, OpenCpu, ArchInv, InMap, machine, Place, Core, Package
<1>6. CASE EndInit \/ GetCpu \/ Clean \/ Stop
  BY <1>6 DEF EndInit, GetCpu, Clean, Stop, ArchInv, InMap
<1>7. CASE Hotplug
  BY <1>7 DEF Hotplug, ArchInv, InMap, Place, Core, Package
<1>8. CASE Terminated \/ UNCHANGED vars
  BY <1>8 DEF Terminated, vars, machine, ArchInv, InMap, Place, Core, Package
<1> QED
  BY <1>1, <1>2, <1>3, <1>4, <1>5, <1>6, <1>7, <1>8 DEF Next

\* A sensor is added for an unmarked core, which is marked by the same step.
LEMMA StepOnePerCore ==
    TypeOK /\ ArchInv /\ MarkedInv /\ OnePerCore /\ [Next]_vars
        => MarkedInv' /\ OnePerCore'
<1> SUFFICES ASSUME TypeOK, ArchInv, MarkedInv, OnePerCore, [Next]_vars
             PROVE  MarkedInv' /\ OnePerCore'
  OBVIOUS
<1>1. CASE OpenCpu
  <2> DEFINE cpu == cpu_information[i + 1]
  <2>1. cpu \in Cpus /\ ~ Known(cpu) /\ topology' = topology
        /\ cpu_map' = cpu_map \cup {Place(cpu)}
    BY <1>1 DEF OpenCpu, TypeOK, ArchInv, machine
  <2>2. CASE sensors' = sensors
    BY <2>1, <2>2 DEF MarkedInv, OnePerCore, Place, Core, Package
  <2>3. CASE sensors' = Append(sensors, cpu)
    <3> HIDE DEF cpu
    <3>1. Len(sensors') = Len(sensors) + 1
          /\ sensors'[Len(sensors) + 1] = cpu
          /\ \A j \in 1 .. Len(sensors) : sensors'[j] = sensors[j]
      BY <2>1, <2>3 DEF TypeOK
    <3>2. \A j \in 1 .. Len(sensors) : topology[sensors[j]] # topology[cpu]
      BY <2>1 DEF MarkedInv, Known, Place, Core, Package
    <3>3. Len(sensors) \in Nat
      BY DEF TypeOK
    <3>4. MarkedInv'
      BY <2>1, <3>1, <3>3 DEF MarkedInv, Place, Core, Package
    <3>5. OnePerCore'
      BY <2>1, <3>1, <3>2, <3>3 DEF OnePerCore
    <3> QED BY <3>4, <3>5
  <2> QED BY <1>1, <2>2, <2>3 DEF OpenCpu
<1>2. CASE UNCHANGED <<topology, cpu_map, sensors>>
  BY <1>2 DEF MarkedInv, OnePerCore, Place, Core, Package
<1> QED
  BY <1>1, <1>2 DEF Next, CountCpu, ParseCpuinfo, ArchOf, EndArch, SkipCpu,
     EndInit, GetCpu, Clean, Stop, Hotplug, Terminated, vars, machine

\* The invariant is inductive.
LEMMA Invariance == Spec => []IInv
<1>1. IInv /\ [Next]_vars => IInv'
  BY StepTypeOK, StepArch, StepOnePerCore DEF IInv
<1> QED BY InitIInv, <1>1, PTL DEF Spec

\* The variables of the sensor keep their types, on every machine.
THEOREM TypeCorrect == Spec => []TypeOK
BY Invariance, PTL DEF IInv

\* is_duplicate() never leaves its map, however the cores and the packages
\* are numbered.
THEOREM MapBound == Spec => []InMap
BY Invariance, PTL DEF IInv

\* No core has two columns, whatever the order of /proc/cpuinfo and whatever
\* goes off or on line during init_amd_rapl().
THEOREM CoresOnce == Spec => []OnePerCore
BY Invariance, PTL DEF IInv

-----------------------------------------------------------------------------
(* Every core is measured *)

LEMMA Least ==
    ASSUME NEW T, T \subseteq Nat, T # {}
    PROVE  \E x \in T : \A y \in T : x <= y
<1>1. PICK x \in T : \A y \in T : ~(<<y, x>> \in OpToRel(<, Nat))
  BY NatLessThanWellFounded, WFMin
<1>2. ASSUME NEW y \in T PROVE x <= y
  <2>1. ~(y < x)
    BY <1>1 DEF OpToRel
  <2> QED
    BY <2>1
<1> QED
  BY <1>2

\* An increasing sequence of naturals leaves nobody behind.
LEMMA Increasing ==
    ASSUME NEW m \in Nat, NEW s \in [1 .. m -> Nat],
           \A j, l \in 1 .. m : j < l => s[j] < s[l]
    PROVE  \A j \in 1 .. m : s[j] >= j - 1
<1> DEFINE T == {j \in 1 .. m : s[j] < j - 1}
<1> SUFFICES ASSUME T # {} PROVE FALSE
  OBVIOUS
<1>0. T \subseteq Nat
  OBVIOUS
<1>1. PICK x \in T : \A y \in T : x <= y
  BY <1>0, Least
<1>2. x - 1 \in 1 .. m /\ x - 1 < x /\ ~(x <= x - 1)
  OBVIOUS
<1>3. s[x - 1] < s[x] /\ s[x - 1] >= (x - 1) - 1
  BY <1>1, <1>2
<1> QED
  BY <1>1, <1>2, <1>3

\* The processors are numbered from 0 to max_cpus - 1, so that the parser,
\* which reads max_cpus records, meets them all.
LEMMA AllListed ==
    ASSUME TypeOK, Contiguous, max_cpus \notin online,
           NEW s \in [1 .. max_cpus -> Cpus], FirstRecords(s), NEW cpu \in online
    PROVE  \E j \in 1 .. max_cpus : s[j] = cpu
<1>1. max_cpus \in Nat /\ cpu \in Nat /\ Cpus \subseteq Nat
  BY TopologyAssumption DEF TypeOK, Cpus
<1>2. cpu < max_cpus
  BY <1>1 DEF Contiguous
<1>3. s[max_cpus] >= max_cpus - 1 /\ s[max_cpus] \in Nat
  <2>1. /\ s \in [1 .. max_cpus -> Nat]
        /\ \A j, l \in 1 .. max_cpus : j < l => s[j] < s[l]
    BY <1>1 DEF FirstRecords
  <2>2. \A j \in 1 .. max_cpus : s[j] >= j - 1
    BY <1>1, <2>1, Increasing
  <2>3. max_cpus \in 1 .. max_cpus
    BY <1>1, <1>2
  <2> QED
    BY <2>1, <2>2, <2>3
<1> QED
  BY <1>1, <1>2, <1>3 DEF FirstRecords

Steady == hotplugs = 0 /\ Contiguous

\* What is on line has been counted, then listed, then marked in the map; and
\* behind every mark a processor is open.
CoverInv ==
    /\ pc \in {"count", "parse", "arch"} => open = {} /\ cpu_map = {}
    /\ pc = "parse" /\ Steady => max_cpus \notin online
    /\ pc \in {"arch", "map"} /\ Steady =>
           \A cpu \in online : \E j \in 1 .. max_cpus : cpu_information[j] = cpu
    /\ pc = "map" =>
           \A j \in 1 .. max_cpus :
               j <= i => Place(cpu_information[j]) \in cpu_map
    /\ pc \in {"map", "ready"} =>
           \A p \in cpu_map : \E cpu \in open : Place(cpu) = p
    /\ pc \in {"map", "ready"} /\ Steady => open \subseteq online
    /\ pc = "ready" /\ Steady => \A cpu \in online : Place(cpu) \in cpu_map

LEMMA CoverInit == Init => CoverInv
  BY DEF Init, CoverInv

\* A machine that is steady after a step was so before it.
LEMMA StepSteady ==
    ASSUME TypeOK, [Next]_vars
    PROVE  /\ Steady' => Steady /\ UNCHANGED online
           /\ \A cpu : Place(cpu)' = Place(cpu)
<1>1. hotplugs \in Nat
  BY TopologyAssumption DEF TypeOK
<1>2. CASE Hotplug
  BY <1>1, <1>2 DEF Hotplug, Steady, Place, Core, Package
<1>3. CASE UNCHANGED machine
  BY <1>3 DEF machine, Steady, Contiguous, Place, Core, Package
<1> QED
  BY <1>2, <1>3 DEF Next, CountCpu, ParseCpuinfo, ArchOf, EndArch, SkipCpu,
     OpenCpu, EndInit, GetCpu, Clean, Stop, Terminated, vars

LEMMA CoverStep == IInv /\ CoverInv /\ [Next]_vars => CoverInv'
<1> SUFFICES ASSUME IInv, CoverInv, [Next]_vars PROVE CoverInv'
  OBVIOUS
<1>0. TypeOK /\ i \in Nat /\ max_cpus \in Nat
  BY TopologyAssumption DEF IInv, TypeOK
<1>s. /\ Steady' => Steady /\ UNCHANGED online
      /\ \A cpu : Place(cpu)' = Place(cpu)
  BY <1>0, StepSteady
<1>1. CASE CountCpu
  BY <1>1, <1>s DEF CountCpu, CoverInv
<1>2. CASE ParseCpuinfo
  <2>1. CASE pc' = "exit"
    BY <2>1 DEF CoverInv
  <2>2. CASE pc' = "arch"
    <3>1. /\ cpu_information' \in [1 .. max_cpus -> Cpus]
          /\ FirstRecords(cpu_information')
          /\ pc = "parse" /\ UNCHANGED <<max_cpus, online, open, cpu_map>>
      BY <1>2, <2>2 DEF ParseCpuinfo, machine
    <3>2. Steady => \A cpu \in online :
                        \E j \in 1 .. max_cpus : cpu_information'[j] = cpu
      BY <1>0, <3>1, AllListed DEF CoverInv, Steady
    <3> QED
      BY <1>s, <2>2, <3>1, <3>2 DEF CoverInv
  <2> QED
    BY <1>2, <2>1, <2>2 DEF ParseCpuinfo
<1>3. CASE ArchOf
  BY <1>3, <1>s DEF ArchOf, CoverInv
<1>4. CASE EndArch
  BY <1>4, <1>s DEF EndArch, CoverInv
<1>5. CASE SkipCpu
  <2>1. /\ pc = "map" /\ pc' = "map" /\ i' = i + 1
        /\ Place(cpu_information[i + 1]) \in cpu_map
        /\ UNCHANGED <<max_cpus, cpu_information, cpu_map, open>>
    BY <1>5 DEF SkipCpu, Known
  <2>2. \A j \in 1 .. max_cpus : j <= i' => j <= i \/ j = i + 1
    BY <1>0, <2>1
  <2> QED
    BY <1>s, <2>1, <2>2 DEF CoverInv
<1>6. CASE OpenCpu
  <2> DEFINE cpu == cpu_information[i + 1]
  <2>1. CASE pc' = "exit"
    BY <2>1 DEF CoverInv
  <2>2. CASE pc' # "exit"
    <3>1. /\ pc = "map" /\ pc' = "map" /\ i' = i + 1 /\ cpu \in online
          /\ cpu_map' = cpu_map \cup {Place(cpu)} /\ open' = open \cup {cpu}
          /\ UNCHANGED <<max_cpus, cpu_information>>
      BY <1>6, <2>2 DEF OpenCpu
    <3>2. \A j \in 1 .. max_cpus : j <= i' => j <= i \/ j = i + 1
      BY <1>0, <3>1
    <3>3. \A j \in 1 .. max_cpus :
              j <= i' => Place(cpu_information[j]) \in cpu_map'
      BY <3>1, <3>2 DEF CoverInv
    <3> HIDE DEF cpu
    <3>4. \A p \in cpu_map' : \E c \in open' : Place(c) = p
      BY <3>1 DEF CoverInv
    <3>5. Steady' => open' \subseteq online
      BY <1>s, <3>1 DEF CoverInv
    <3> QED
      BY <1>s, <3>1, <3>3, <3>4, <3>5 DEF CoverInv
  <2> QED
    BY <2>1, <2>2
<1>7. CASE EndInit
  <2>1. /\ pc = "map" /\ pc' = "ready" /\ i = max_cpus
        /\ UNCHANGED <<cpu_map, open>>
    BY <1>7 DEF EndInit
  <2>2. \A j \in 1 .. max_cpus : Place(cpu_information[j]) \in cpu_map
    BY <1>0, <2>1 DEF CoverInv
  <2> QED
    BY <1>s, <2>1, <2>2 DEF CoverInv
<1>8. CASE GetCpu
  BY <1>8, <1>s DEF GetCpu, CoverInv
<1>9. CASE Clean \/ Stop
  BY <1>9 DEF Clean, Stop, CoverInv
<1>10. CASE Hotplug
  <2>1. ~Steady' /\ UNCHANGED <<pc, max_cpus, i, cpu_information, cpu_map, open>>
    BY <1>10, TopologyAssumption DEF Hotplug, Steady, IInv, TypeOK
  <2> QED
    BY <1>s, <2>1 DEF CoverInv
<1>11. CASE Terminated \/ UNCHANGED vars
  <2>1. UNCHANGED <<pc, max_cpus, i, cpu_information, cpu_map, open>>
    BY <1>11 DEF Terminated, vars
  <2> QED
    BY <1>s, <2>1 DEF CoverInv
<1> QED
  BY <1>1, <1>2, <1>3, <1>4, <1>5, <1>6, <1>7, <1>8, <1>9, <1>10, <1>11 DEF Next

\* On a machine that does not change and has no gap in its numbers, every core
\* has a processor among those that init_amd_rapl() opens.
THEOREM CoresCovered == Spec => []EveryCoreMeasured
<1>1. TypeOK /\ CoverInv => EveryCoreMeasured
  <2> SUFFICES ASSUME TypeOK, CoverInv, pc = "ready", Steady
               PROVE  {topology[cpu] : cpu \in online} =
                          {topology[cpu] : cpu \in open}
    BY DEF EveryCoreMeasured, Steady
  <2>1. open \subseteq online
    BY DEF CoverInv
  <2>2. ASSUME NEW cpu \in online
        PROVE  \E c \in open : topology[c] = topology[cpu]
    <3>1. PICK c \in open : Place(c) = Place(cpu)
      BY DEF CoverInv
    <3>2. c \in Cpus /\ cpu \in Cpus
      BY DEF TypeOK
    <3>3. /\ topology[c] \in [core : Nat, package : Nat]
          /\ topology[cpu] \in [core : Nat, package : Nat]
      BY <3>2, TopologyAssumption DEF TypeOK
    <3>4. topology[c] = topology[cpu]
      BY <3>1, <3>3 DEF Place, Core, Package
    <3> QED
      BY <3>4
  <2> QED
    BY <2>1, <2>2
<1>2. CoverInv /\ IInv /\ [Next]_vars => CoverInv'
  BY CoverStep
<1> QED
  BY <1>1, <1>2, CoverInit, Invariance, PTL DEF IInv, Spec
=============================================================================
