---------------------------- MODULE MCSimulatePhase ----------------------------
(* Dry runs and one kind of real build in one directory. *)
EXTENDS SimulatePhase

RealBuild == [start |-> TRUE, simulate |-> FALSE, prefetch |-> FALSE, keep |-> FALSE]
Prefetch  == [start |-> FALSE, simulate |-> FALSE, prefetch |-> TRUE, keep |-> FALSE]

MCOptions == {SimOptions, RealBuild, Prefetch}

=============================================================================
