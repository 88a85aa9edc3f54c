----------------------------- MODULE MCRegistry -----------------------------
(* Registry with the kinds of sensors the sources show: static state, an    *)
(* option that lists and exits, an init that may find nothing, several      *)
(* columns.                                                                 *)
EXTENDS Registry

\* A build with load, counters and disk.
SmallOpts == << [sensor |-> "load",     short |-> "u", fn |-> FALSE],
                [sensor |-> "counters", short |-> "p", fn |-> FALSE],
                [sensor |-> "counters", short |-> "l", fn |-> TRUE],
                [sensor |-> "disk",     short |-> "a", fn |-> FALSE] >>
SmallOutcomes == [load |-> {2}, counters |-> {1, 2}, disk |-> {0, 2}]
=============================================================================
