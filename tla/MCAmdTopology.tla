---------------------------- MODULE MCAmdTopology ----------------------------
(* Machines of four processors for TLC. *)
EXTENDS AmdTopology

At(c, p) == [core |-> c, package |-> p]
Four(f(_)) == [cpu \in Cpus |-> f(cpu)]

Neighbours(cpu) == At(3 * (cpu \div 2), 0)   \* 0 and 1 share a core; core 3 follows core 0
Halves(cpu) == At(cpu % 2, 0)                \* 0 and 2 share a core
Sockets(cpu) == At(cpu % 2, cpu \div 2)      \* core numbers start again in each package
Alternate(cpu) == At(cpu \div 2, cpu % 2)    \* the packages take turns
Mixed(cpu) == At(IF cpu = 3 THEN 0 ELSE cpu, 0)

MCTopologies == {Four(Neighbours), Four(Halves), Four(Sockets),
                 Four(Alternate), Four(Mixed)}
MCOnlineSets == SUBSET Cpus
=============================================================================
