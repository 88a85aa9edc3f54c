--------------------------- MODULE MCFileSensors ---------------------------
(* FileSensors on the trees of files of small machines, with and without   *)
(* gaps in their numbers.                                                  *)
EXTENDS FileSensors

Tree(fs) == \A f \in fs : <<f[1], 0>> \in fs
Machine(k, fs, list, port) ==
    [kind |-> k, files |-> fs, list |-> list, port |-> port]

\* Two packages and psys, the zone of the whole machine.
Zones == {<<0, 0>>, <<0, 1>>, <<0, 2>>, <<1, 0>>, <<1, 1>>, <<2, 0>>}
\* A disk (hwmon0) and two packages.
Hwmons == {<<0, 0>>, <<0, 1>>, <<1, 0>>, <<1, 1>>, <<1, 2>>, <<2, 0>>, <<2, 1>>}
MCCoretemp == {1, 2}
MCName(f) ==
    CASE f = <<0, 0>> -> "package-0" [] f = <<1, 0>> -> "package-1"
      [] f = <<2, 0>> -> "psys"      [] f[2] = 1     -> "core"
      [] OTHER        -> "dram"

Files(ds, fields) == ds \X fields
Lists(n) == UNION {[1 .. k -> 0 .. 2] : k \in 0 .. n}  \* 0 is no counter

AllMachines ==
    {Machine("rapl", fs, <<>>, "") : fs \in {s \in SUBSET Zones : Tree(s)}}
    \cup {Machine("temperature", fs, <<>>, "") :
             fs \in {s \in SUBSET Hwmons : Tree(s)}}
    \cup {Machine("disk", Files(ds, {0}), <<>>, "") : ds \in SUBSET (0 .. 2)}
    \cup {Machine("infiniband", Files(ps, 1 .. 2), <<>>, port) :
             ps \in SUBSET {0, 1}, port \in {"X", "port0"}}
    \cup {Machine("network", Files(ds, 1 .. 2), list, "") :
             ds \in SUBSET {1, 2}, list \in {<<1>>, <<2, 1>>}}
    \cup {Machine("load", {<<0, 0>>}, <<>>, "")}
    \cup {Machine("perf", Files(1 .. 2, cores), list, "") :
             cores \in SUBSET (0 .. 2) \ {{}}, list \in Lists(2)}
    \cup {Machine("memory", {<<0, 0>>}, list, "") : list \in Lists(4)}
=============================================================================
