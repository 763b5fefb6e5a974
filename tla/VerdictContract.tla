---------------------------- MODULE VerdictContract ----------------------------
(***************************************************************************)
(* What waiting for cloud-init promises: one verdict is given, once, and   *)
(* it is "complete" only when the guest's success marker is there          *)
(* (docs/ARCHITECTURE.md, the verify-block contract).                      *)
(***************************************************************************)

VARIABLES
  marked,   \* the guest has emitted the success marker
  verdict   \* "none" until the wait is over

Init == marked \in BOOLEAN /\ verdict = "none"

Mark == marked' = TRUE /\ UNCHANGED verdict

Decide ==
  /\ verdict = "none"
  /\ verdict' \in {"complete", "failed", "timeout"}
  /\ verdict' = "complete" => marked
  /\ UNCHANGED marked

Next == Mark \/ Decide

Spec == Init /\ [][Next]_<<marked, verdict>> /\ WF_<<marked, verdict>>(Decide)

=============================================================================
