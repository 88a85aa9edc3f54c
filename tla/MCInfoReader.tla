---------------------------- MODULE MCInfoReader ----------------------------
(* InfoReader on a piece of /proc/meminfo and on a /proc/cpuinfo of two     *)
(* processors, complete or cut short.                                       *)
EXTENDS InfoReader

MemNames == {"Active", "Active(anon)", "Dirty", "Zswap", "Zswapped"}
CpuNames == {"processor", "physical id", "core id"}

Meminfo == <<"MemTotal", "Active", "Active(anon)", "Dirty", "Zswap", "Zswapped">>
Cpuinfo == <<"processor", "flags", "physical id", "core id", "",
             "processor", "flags", "core id", "physical id", "">>
OneCpu  == <<"processor", "flags", "physical id", "">>
LastCut == <<"processor", "core id", "", "processor", "core id">>
\* More processors than the storage was made for (some without an msr file).
ThreeCpus == Cpuinfo \o <<"processor", "physical id", "core id", "">>
AllFiles == {Meminfo, Cpuinfo, OneCpu, LastCut, ThreeCpus}

Lists(names, n) == UNION {[1 .. k -> names] : k \in 1 .. n}
AllKeyLists == Lists(MemNames, 3) \cup Lists(CpuNames, 3)

\* Which names of these files start with another one.
SomeBegin == {<<"Active", "Active(anon)">>, <<"Zswap", "Zswapped">>}
=============================================================================
