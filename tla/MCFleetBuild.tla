----------------------------- MODULE MCFleetBuild -----------------------------
(* Two builds on a host with one process running at the start and as many free *)
(* process identities as there are launches to come.                           *)
EXTENDS FleetBuild

CONSTANTS ubuntu, gentoo

MCDistros  == {ubuntu, gentoo}
MCOrder    == <<ubuntu, gentoo>>
MCTwice    == <<gentoo, gentoo>>
MCPids     == {1, 2, 3}
MCFreshPids == {2, 3}
MCOrphans  == {1}
MCNone     == {}
MCAllFaults == {"unusable", "hang"}
MCUnusable == {"unusable"}

=============================================================================
