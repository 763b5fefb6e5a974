--------------------------- MODULE MCSimulateVerdict ---------------------------
(* A guest with up to three checks, as gentoo's simulate block: the exact-use resolve,   *)
(* the full list, the enumeration of the atoms; real builds and dry runs alike.   *)
EXTENDS SimulateVerdict

=============================================================================
