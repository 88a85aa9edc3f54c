---------------------------- MODULE MCNvidiaGpu ----------------------------
(* NvidiaGpu with two clocks, a kind of two columns and one of a single one. *)
EXTENDS NvidiaGpu

SomeKinds == <<"clock", "memory", "power">>
SomeItems == [clock |-> 2, memory |-> 2, power |-> 1]
=============================================================================
