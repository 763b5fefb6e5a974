--------------------------- MODULE MCConsoleMonitor ---------------------------
(* Two marks of three bytes, in logs of up to seven, read with an overlap of two. *)
EXTENDS ConsoleMonitor

=============================================================================
