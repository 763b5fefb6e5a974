----------------------------- MODULE MCVmShutdown -----------------------------
(* shutdown_and_verify on a host with three processes, two targets and a       *)
(* QEMU of the operator's among them in every combination.                     *)
EXTENDS VmShutdown

MCPids == {1, 2, 3}
MCAllFaults == {"unusable", "hang"}
MCHang == {"hang"}

=============================================================================
