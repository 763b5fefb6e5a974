------------------------------- MODULE BuildLoop -------------------------------
(***************************************************************************)
(* What the loop of fleet/main.py over distros_to_build promises           *)
(* ("continue-on-failure"): each distro is built in its turn, whatever     *)
(* became of the ones before; every build that comes back is counted       *)
(* exactly once, as a success or as a failure; and the loop is complete    *)
(* only behind the last distro.  FleetMain has the loop with everything    *)
(* before and after it, FleetBuild with the inside of a build; both        *)
(* implement this.                                                         *)
(***************************************************************************)
EXTENDS Integers, Sequences

VARIABLES
  plan,  \* distros_to_build; <<>> until it is made
  done,  \* builds that have come back
  good,  \* the distros whose last build was a success
  bad,   \* the distros in failed_distros
  end    \* "complete" behind the last build, "stopped" by anything else

loopVars == <<plan, done, good, bad, end>>

Init == done = 0 /\ good = {} /\ bad = {} /\ end = "none"

MakePlan == plan = <<>> /\ done = 0 /\ UNCHANGED <<done, good, bad, end>>

Running == end = "none" /\ done < Len(plan)
Current == plan[done + 1]

\* A new build of a distro: what an earlier one came to no longer counts.
BuildBegins ==
  /\ Running
  /\ good' = good \ {Current}
  /\ UNCHANGED <<plan, done, bad, end>>

BuildSucceeds ==
  /\ Running
  /\ done' = done + 1
  /\ good' = good \cup {Current}
  /\ UNCHANGED <<plan, bad, end>>

BuildFails ==
  /\ Running
  /\ done' = done + 1
  /\ good' = good \ {Current}
  /\ bad' = bad \cup {Current}
  /\ UNCHANGED <<plan, end>>

\* All distros have been built, or an exception or an exit has come first.
Ends ==
  /\ end = "none"
  /\ \/ end' = "complete" /\ done = Len(plan)
     \/ end' = "stopped"
  /\ UNCHANGED <<plan, done, good, bad>>

Next == MakePlan \/ BuildBegins \/ BuildSucceeds \/ BuildFails \/ Ends

Spec == Init /\ [][Next]_loopVars

=============================================================================
