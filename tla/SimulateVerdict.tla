---------------------------- MODULE SimulateVerdict ----------------------------
(***************************************************************************)
(* orchestrator.simulate_distro from the wait for cloud-init on: what the  *)
(* marks of a simulate-mode guest make of its dry run.  The wait itself is *)
(* CloudInitWait with the SIMULATE-OK mark; it may return while the guest  *)
(* is still running its checks, and the guest goes on during the probes.   *)
(***************************************************************************)
EXTENDS CloudInitWait

CONSTANT MarkerAttempts  \* range(5) of the marker loop

ASSUME AttemptsAssumption == MarkerAttempts \in Nat \ {0}

VARIABLES
  attempt,   \* _marker_attempt
  okSeen,    \* ok
  failSeen,  \* fail_seen
  status     \* of the result; "none" until there is one

markVars == <<attempt, okSeen, failSeen, status>>
simVars == <<ciVars, markVars>>

Statuses == {"none", "PASS", "FAIL", "ERROR"}
SimPoints == WaitPoints \cup {"ok_probe", "fail_probe", "last_probe", "decided"}

SimInit ==
  /\ Init
  /\ attempt = 0
  /\ okSeen = FALSE
  /\ failSeen = FALSE
  /\ status = "none"

-----------------------------------------------------------------------------
Decide(result) == status' = result /\ pc' = "decided"

\* PhaseAbort on a timeout; any other verdict of the wait is left to the marks.
AfterWait ==
  /\ pc = "returned" /\ simulate
  /\ IF rc = "timeout" THEN Decide("ERROR") ELSE pc' = "ok_probe" /\ UNCHANGED status
  /\ UNCHANGED <<guestVars, view, elapsed, sets, rc, missed, attempt, okSeen, failSeen>>

OkProbe ==
  /\ pc = "ok_probe"
  /\ \E seen \in BOOLEAN : Look("ok", seen) /\ okSeen' = seen
  /\ pc' = "fail_probe"
  /\ UNCHANGED <<guestVars, view, elapsed, sets, rc, attempt, failSeen, status>>

\* Bug: the OK mark ends the loop before the FAIL mark counts.
FailProbeOkWins ==
  /\ pc = "fail_probe"
  /\ \E seen \in BOOLEAN : Look("fail", seen) /\ failSeen' = (failSeen \/ seen)
  /\ IF okSeen THEN Decide("PASS") /\ UNCHANGED attempt
     ELSE IF failSeen' \/ attempt + 1 >= MarkerAttempts THEN Decide("FAIL") /\ UNCHANGED attempt
     ELSE pc' = "ok_probe" /\ attempt' = attempt + 1 /\ UNCHANGED status
  /\ UNCHANGED <<guestVars, view, elapsed, sets, rc, okSeen>>

\* Bug: an unfinished round is not counted.
FailProbeUncounted ==
  /\ pc = "fail_probe"
  /\ \E seen \in BOOLEAN : Look("fail", seen) /\ failSeen' = (failSeen \/ seen)
  /\ \/ failSeen' /\ Decide("FAIL")
     \/ okSeen /\ ~failSeen' /\ pc' = "last_probe" /\ UNCHANGED status
     \/ ~okSeen /\ ~failSeen' /\ pc' = "ok_probe" /\ UNCHANGED status
  /\ UNCHANGED <<guestVars, view, elapsed, sets, rc, okSeen, attempt>>

\* Bug: no FAIL mark in the last round is as good as an OK mark.
FailProbeAbsentIsOk ==
  /\ pc = "fail_probe"
  /\ \E seen \in BOOLEAN : Look("fail", seen) /\ failSeen' = (failSeen \/ seen)
  /\ \/ failSeen' /\ Decide("FAIL") /\ UNCHANGED attempt
     \/ /\ ~failSeen'
        /\ attempt' = attempt + 1
        /\ IF attempt' < MarkerAttempts THEN pc' = "ok_probe" /\ UNCHANGED status
                                        ELSE pc' = "last_probe" /\ UNCHANGED status
  /\ UNCHANGED <<guestVars, view, elapsed, sets, rc, okSeen>>

\* The FAIL mark wins; without either mark the loop goes on, five rounds at most.
FailProbe ==
  /\ pc = "fail_probe"
  /\ \E seen \in BOOLEAN : Look("fail", seen) /\ failSeen' = (failSeen \/ seen)
  /\ \/ failSeen' /\ Decide("FAIL") /\ UNCHANGED attempt
     \/ okSeen /\ ~failSeen' /\ pc' = "last_probe" /\ UNCHANGED <<attempt, status>>
     \/ /\ ~okSeen /\ ~failSeen'
        /\ attempt' = attempt + 1
        /\ IF attempt' < MarkerAttempts THEN pc' = "ok_probe" /\ UNCHANGED status
                                        ELSE Decide("FAIL")
  /\ UNCHANGED <<guestVars, view, elapsed, sets, rc, okSeen>>

\* One last look for the FAIL mark, now that the OK mark is confirmed.
LastProbe ==
  /\ pc = "last_probe"
  /\ \E seen \in BOOLEAN :
       /\ Look("fail", seen)
       /\ failSeen' = seen
       /\ Decide(IF seen THEN "FAIL" ELSE "PASS")
  /\ UNCHANGED <<guestVars, view, elapsed, sets, rc, attempt, okSeen>>

SimStep ==
  \/ WaitStep /\ UNCHANGED markVars
  \/ AfterWait \/ OkProbe \/ FailProbe \/ LastProbe

SimNext == SimStep \/ ((Guest \/ ClockSet) /\ UNCHANGED markVars)

\* As for the wait: each remote command of the host has a hard timeout.
SimSpec == SimInit /\ [][SimNext]_simVars /\ WF_simVars(SimStep)

-----------------------------------------------------------------------------
(* Properties. *)

SimTypeOK ==
  /\ WaitTypeOK
  /\ pc \in SimPoints
  /\ attempt \in 0..MarkerAttempts
  /\ okSeen \in BOOLEAN
  /\ failSeen \in BOOLEAN
  /\ status \in Statuses

\* However unreliable SSH is, PASS needs a SIMULATE-OK in the guest's log: a guest
\* that could not be looked at, or that died in its checks, does not pass.
PassMeansOk == status = "PASS" => "ok" \in log

\* "A SIMULATE-FAIL marker WINS over any SIMULATE-OK marker": with cloud-init at its end
\* when the wait returned, a guest in which any check failed, before or after the
\* ones that passed, is never reported PASS, unless a look has missed a mark.
FailWins == status = "PASS" /\ view \in DoneStates /\ ~missed => "fail" \notin log

\* The simulate phase of a distro comes to a result, whatever its guest and the clock do.
SimulateDecides == simulate ~> status # "none"

\* "a later check can still fail AFTER an earlier one passed.  Probing FAIL last
\* closes that window": no check fails in a guest that was reported PASS, as long
\* as no look has missed a mark.
NoFailAfterPass == status = "PASS" /\ ~missed => "fail" \notin log

=============================================================================
