----------------------------- MODULE MCFleetMain -----------------------------
(* The two distros of the code and a misspelt one; every combination of the    *)
(* mode flags with lists of up to two names; all gates on, one off, all off.   *)
EXTENDS FleetMain

CONSTANTS ubuntu, gentoo, typo

MCDistros == <<ubuntu, gentoo>>

MCLists == {<<>>, <<ubuntu>>, <<gentoo>>, <<ubuntu, gentoo>>, <<gentoo, ubuntu>>,
            <<gentoo, gentoo>>, <<ubuntu, typo>>}

MCArgSets ==
  [distros : MCLists \cup {Absent}, startFrom : {Absent, ubuntu, gentoo, typo},
   skipped : {{}, {1}, 1..5}, prefetchOnly : BOOLEAN, noPrefetch : BOOLEAN,
   simulateOnly : BOOLEAN, noSimulate : BOOLEAN, noPreflight : BOOLEAN]

=============================================================================
