------------------------- MODULE SimulateVerdict_proofs -------------------------
(***************************************************************************)
(* Proofs about the wait for cloud-init and the verdict of a dry run, for  *)
(* every number of checks, deadline, fallback, number of rounds and of     *)
(* settings of the clock.                                                  *)
(***************************************************************************)
EXTENDS SimulateVerdict, TLAPS

USE CountsAssumption, AttemptsAssumption

\* The guest: a real build that carries the success mark has run all its checks without
\* one failing; and nothing moves on once cloud-init has come to its end.
GuestInv ==
  /\ ~simulate /\ "ok" \in log => ran = Checks /\ log = {"ok"}
  /\ view \in DoneStates => ci = view

\* The wait: no verdict before it returns, and "complete" only with the mark there.
WaitInv ==
  /\ pc \in {"probe", "judge"} => rc = "none"
  /\ rc = "complete" => "ok" \in log

\* The marks: none is looked for during the wait, there is a round left while they are
\* looked for, an OK mark that was seen is there, and the result comes last.
MarkInv ==
  /\ pc \in WaitPoints => attempt = 0
  /\ status # "none" => pc = "decided"
  /\ pc \in {"ok_probe", "fail_probe"} => attempt < MarkerAttempts
  /\ okSeen => "ok" \in log
  /\ pc = "last_probe" => okSeen

SimInv ==
  /\ SimTypeOK
  /\ GuestInv
  /\ WaitInv
  /\ MarkInv
  /\ PassMeansOk
  /\ FailWins

\* The initial states satisfy the invariant.
LEMMA SimInitInv == SimInit => SimInv
<1> SUFFICES ASSUME SimInit PROVE SimInv
  OBVIOUS
<1>1. SimTypeOK
  <2>1. 0 \in 0..Checks /\ 0 \in 0..Deadline /\ 0 \in 0..MaxClockSets /\ 0 \in 0..MarkerAttempts
    OBVIOUS
  <2>2. WaitTypeOK
    BY <2>1 DEF SimInit, Init, WaitTypeOK, Verdicts, RunningStates, Unseen
  <2> QED
    BY <2>1, <2>2 DEF SimInit, Init, SimTypeOK, SimPoints, WaitPoints, Statuses
<1>2. GuestInv /\ WaitInv /\ MarkInv /\ PassMeansOk /\ FailWins
  BY DEF SimInit, Init, GuestInv, WaitInv, MarkInv, PassMeansOk, FailWins, DoneStates, Unseen
<1> QED
  BY <1>1, <1>2 DEF SimInv

-----------------------------------------------------------------------------
(* What a step may do. *)

\* The guest adds marks while cloud-init runs, and takes none away.
GuestStep ==
  /\ ci \in RunningStates
  /\ ci' \in RunningStates \cup DoneStates
  /\ log \subseteq log' /\ log' \subseteq {"ok", "fail"}
  /\ \/ ran' = ran /\ log' = log
     \/ /\ ran < Checks /\ ran' = ran + 1
        /\ "ok" \in log' \ log => simulate \/ (ran' = Checks /\ "fail" \notin log)
        /\ "fail" \in log' \ log => log' = log \cup {"fail"}
  /\ UNCHANGED <<simulate, waitVars, markVars>>

\* The clock is set.
ClockStep ==
  /\ elapsed' \in 0..Deadline /\ sets' \in 0..MaxClockSets
  /\ UNCHANGED <<guestVars, pc, view, rc, missed, markVars>>

\* The wait goes on: it has looked at the status, or slept.
WaitsOn ==
  /\ pc \in {"probe", "judge"} /\ pc' \in {"probe", "judge"}
  /\ view' \in {view, ci, Unseen}
  /\ elapsed' \in 0..Deadline
  /\ missed' \in BOOLEAN
  /\ UNCHANGED <<guestVars, sets, rc, markVars>>

\* The wait returns: "complete" with the mark there, and otherwise only if it is not
\* there or was missed.
WaitReturns ==
  /\ pc \in {"probe", "judge"} /\ pc' = "returned"
  /\ \/ rc' = "complete" /\ "ok" \in log
     \/ rc' \in {"failed", "timeout"} /\ ("ok" \in log => missed')
  /\ missed' \in BOOLEAN
  /\ UNCHANGED <<guestVars, view, elapsed, sets, markVars>>

MarkStep ==
  /\ AfterWait \/ OkProbe \/ FailProbe \/ LastProbe
  /\ missed' \in BOOLEAN
  /\ UNCHANGED <<guestVars, view, elapsed, sets, rc>>

\* Every step of the composition is of one of these kinds.
LEMMA StepKinds ==
  ASSUME SimTypeOK, [SimNext]_simVars
  PROVE  \/ GuestStep \/ ClockStep \/ WaitsOn \/ WaitReturns \/ MarkStep
         \/ UNCHANGED simVars
<1>a. WaitTypeOK
  BY DEF SimTypeOK
<1>1. CASE GuestCheck /\ UNCHANGED markVars
  <2>1. PICK mark \in {"ok", "fail", "nothing"} :
          MayEmit(mark) /\ log' = log \cup ({mark} \ {"nothing"})
    BY <1>1 DEF GuestCheck
  <2>2. "ok" \in log' \ log => simulate \/ (ran' = Checks /\ "fail" \notin log)
    BY <1>1, <2>1 DEF GuestCheck, MayEmit
  <2>3. log \subseteq log' /\ log' \subseteq {"ok", "fail"}
    BY <2>1, <1>a DEF WaitTypeOK
  <2>4. "fail" \in log' \ log => log' = log \cup {"fail"}
    BY <2>1
  <2> QED
    BY <1>1, <2>2, <2>3, <2>4 DEF GuestCheck, GuestStep
<1>2. CASE (GuestErrs \/ GuestFinishes) /\ UNCHANGED markVars
  BY <1>2, <1>a DEF GuestErrs, GuestFinishes, GuestStep, RunningStates, WaitTypeOK
<1>3. CASE ClockSet /\ UNCHANGED markVars
  BY <1>3, <1>a DEF ClockSet, ClockStep, WaitTypeOK
<1>4. CASE Probe /\ UNCHANGED markVars
  BY <1>4, <1>a DEF Probe, WaitsOn, WaitTypeOK
<1>5. CASE JudgeDone /\ UNCHANGED markVars
  BY <1>5, <1>a DEF JudgeDone, Look, Return, WaitReturns, WaitTypeOK
<1>6. CASE JudgeOther /\ UNCHANGED markVars
  <2>1. CASE SleepTurn /\ missed' \in BOOLEAN
    BY <1>6, <2>1, <1>a DEF JudgeOther, SleepTurn, WaitsOn, WaitTypeOK
  <2>2. CASE Return("complete") /\ "ok" \in log /\ missed' \in BOOLEAN
    BY <1>6, <2>2 DEF JudgeOther, Return, WaitReturns
  <2> QED
    BY <1>6, <2>1, <2>2, <1>a DEF JudgeOther, Look, WaitTypeOK
<1>7. CASE Final /\ UNCHANGED markVars
  BY <1>7, <1>a DEF Final, Look, Return, WaitReturns, WaitTypeOK
<1>8. CASE AfterWait \/ OkProbe \/ FailProbe \/ LastProbe
  BY <1>8, <1>a DEF MarkStep, AfterWait, OkProbe, FailProbe, LastProbe, Look, WaitTypeOK
<1> QED
  BY <1>1, <1>2, <1>3, <1>4, <1>5, <1>6, <1>7, <1>8 DEF SimNext, SimStep, WaitStep, Guest

-----------------------------------------------------------------------------
(* The parts of the invariant. *)

\* The types are preserved.
LEMMA SimTypeStep == SimTypeOK /\ MarkInv /\ [SimNext]_simVars => SimTypeOK'
<1> SUFFICES ASSUME SimTypeOK, MarkInv, [SimNext]_simVars PROVE SimTypeOK'
  OBVIOUS
<1> USE DEF SimTypeOK, WaitTypeOK
<1>1. CASE GuestStep
  BY <1>1 DEF GuestStep, waitVars, markVars
<1>2. CASE ClockStep
  BY <1>2 DEF ClockStep, guestVars, markVars
<1>3. CASE WaitsOn
  BY <1>3 DEF WaitsOn, guestVars, markVars, SimPoints, WaitPoints
<1>4. CASE WaitReturns
  BY <1>4 DEF WaitReturns, guestVars, markVars, SimPoints, WaitPoints, Verdicts
<1>5. CASE MarkStep
  <2>1. WaitTypeOK'
    BY <1>5 DEF MarkStep, guestVars
  <2>2. CASE AfterWait
    BY <2>1, <2>2 DEF AfterWait, Decide, SimPoints, Statuses
  <2>3. CASE OkProbe
    BY <2>1, <2>3 DEF OkProbe, SimPoints
  <2>4. CASE FailProbe
    BY <2>1, <2>4 DEF FailProbe, Decide, SimPoints, Statuses, MarkInv
  <2>5. CASE LastProbe
    BY <2>1, <2>5 DEF LastProbe, Decide, SimPoints, Statuses
  <2> QED
    BY <1>5, <2>2, <2>3, <2>4, <2>5 DEF MarkStep
<1>6. CASE UNCHANGED simVars
  BY <1>6 DEF simVars, ciVars, guestVars, waitVars, markVars
<1> QED
  BY <1>1, <1>2, <1>3, <1>4, <1>5, <1>6, StepKinds

\* GuestInv is preserved.
LEMMA GuestInvStep == SimTypeOK /\ GuestInv /\ [SimNext]_simVars => GuestInv'
<1> SUFFICES ASSUME SimTypeOK, GuestInv, [SimNext]_simVars PROVE GuestInv'
  OBVIOUS
<1> USE DEF GuestInv
<1>1. CASE GuestStep
  <2>1. view' \notin DoneStates
    BY <1>1 DEF GuestStep, waitVars, RunningStates, DoneStates
  <2>2. ASSUME ~simulate, "ok" \in log' PROVE ran' = Checks /\ log' = {"ok"}
    <3>1. CASE "ok" \in log
      BY <1>1, <2>2, <3>1 DEF GuestStep
    <3>2. CASE "ok" \notin log
      BY <1>1, <2>2, <3>2 DEF GuestStep
    <3> QED
      BY <3>1, <3>2
  <2> QED
    BY <1>1, <2>1, <2>2 DEF GuestStep
<1>2. CASE WaitsOn
  BY <1>2 DEF WaitsOn, guestVars, Unseen, DoneStates
<1>3. CASE ClockStep \/ WaitReturns \/ MarkStep \/ UNCHANGED simVars
  BY <1>3 DEF ClockStep, WaitReturns, MarkStep, simVars, ciVars, guestVars, waitVars
<1> QED
  BY <1>1, <1>2, <1>3, StepKinds

\* WaitInv is preserved.
LEMMA WaitInvStep == SimTypeOK /\ WaitInv /\ [SimNext]_simVars => WaitInv'
<1> SUFFICES ASSUME SimTypeOK, WaitInv, [SimNext]_simVars PROVE WaitInv'
  OBVIOUS
<1> USE DEF WaitInv
<1>1. CASE GuestStep
  BY <1>1 DEF GuestStep, waitVars
<1>2. CASE ClockStep \/ WaitsOn \/ WaitReturns \/ UNCHANGED simVars
  BY <1>2 DEF ClockStep, WaitsOn, WaitReturns, guestVars, simVars, ciVars, waitVars
<1>3. CASE MarkStep
  <2>1. pc' \notin {"probe", "judge"}
    BY <1>3 DEF MarkStep, AfterWait, OkProbe, FailProbe, LastProbe, Decide
  <2> QED
    BY <1>3, <2>1 DEF MarkStep, guestVars
<1> QED
  BY <1>1, <1>2, <1>3, StepKinds

\* MarkInv is preserved.
LEMMA MarkInvStep == SimTypeOK /\ MarkInv /\ [SimNext]_simVars => MarkInv'
<1> SUFFICES ASSUME SimTypeOK, MarkInv, [SimNext]_simVars PROVE MarkInv'
  OBVIOUS
<1> USE DEF MarkInv, WaitPoints
<1>1. CASE GuestStep
  BY <1>1 DEF GuestStep, waitVars, markVars
<1>2. CASE ClockStep \/ WaitsOn \/ WaitReturns \/ UNCHANGED simVars
  BY <1>2 DEF ClockStep, WaitsOn, WaitReturns, guestVars, simVars, ciVars, waitVars, markVars
<1>3. CASE AfterWait
  BY <1>3 DEF AfterWait, Decide, guestVars
<1>4. CASE OkProbe
  BY <1>4 DEF OkProbe, Look, guestVars
<1>5. CASE FailProbe
  BY <1>5 DEF FailProbe, Decide, guestVars
<1>6. CASE LastProbe
  BY <1>6 DEF LastProbe, Decide, guestVars
<1> QED
  BY <1>1, <1>2, <1>3, <1>4, <1>5, <1>6, StepKinds DEF MarkStep

\* PassMeansOk is preserved: only the last probe says PASS, and an OK mark stays.
LEMMA PassStep ==
  SimTypeOK /\ MarkInv /\ PassMeansOk /\ [SimNext]_simVars => PassMeansOk'
<1> SUFFICES ASSUME SimTypeOK, MarkInv, PassMeansOk, [SimNext]_simVars, status' = "PASS"
             PROVE  "ok" \in log'
  BY DEF PassMeansOk
<1>1. CASE GuestStep \/ ClockStep \/ WaitsOn \/ WaitReturns \/ UNCHANGED simVars
  BY <1>1 DEF GuestStep, ClockStep, WaitsOn, WaitReturns, guestVars, markVars, simVars, ciVars,
     PassMeansOk
<1>2. CASE MarkStep
  <2>1. log' = log
    BY <1>2 DEF MarkStep, guestVars
  <2>2. CASE AfterWait \/ OkProbe \/ FailProbe
    BY <2>1, <2>2 DEF AfterWait, OkProbe, FailProbe, Decide, PassMeansOk
  <2>3. CASE LastProbe
    BY <2>1, <2>3 DEF LastProbe, MarkInv
  <2> QED
    BY <1>2, <2>2, <2>3 DEF MarkStep
<1> QED
  BY <1>1, <1>2, StepKinds

\* FailWins is preserved: the last probe finds a FAIL mark that is there or misses it, and
\* with cloud-init at its end no mark comes later.
LEMMA FailWinsStep ==
  SimTypeOK /\ GuestInv /\ MarkInv /\ FailWins /\ [SimNext]_simVars => FailWins'
<1> SUFFICES ASSUME SimTypeOK, GuestInv, MarkInv, FailWins, [SimNext]_simVars,
                    status' = "PASS", view' \in DoneStates, ~missed'
             PROVE  "fail" \notin log'
  BY DEF FailWins
<1>1. CASE pc = "decided"
  <2>1. ~WaitsOn /\ ~WaitReturns /\ ~MarkStep
    BY <1>1 DEF WaitsOn, WaitReturns, MarkStep, AfterWait, OkProbe, FailProbe, LastProbe
  <2>2. UNCHANGED <<status, view, missed>>
    BY <2>1, StepKinds DEF GuestStep, ClockStep, waitVars, markVars, simVars, ciVars
  <2>3. "fail" \notin log /\ ci \in DoneStates
    BY <2>2 DEF FailWins, GuestInv
  <2>4. log' = log
    BY <2>1, <2>3, StepKinds
       DEF GuestStep, ClockStep, RunningStates, DoneStates, simVars, ciVars, guestVars
  <2> QED
    BY <2>3, <2>4
<1>2. CASE pc # "decided"
  <2>1. status = "none"
    BY <1>2 DEF MarkInv
  <2>2. MarkStep
    BY <2>1, StepKinds DEF GuestStep, ClockStep, WaitsOn, WaitReturns, markVars, simVars
  <2>3. LastProbe /\ log' = log
    BY <2>1, <2>2 DEF MarkStep, AfterWait, OkProbe, FailProbe, Decide, guestVars
  <2> QED
    BY <2>3 DEF LastProbe, Look, Decide
<1> QED
  BY <1>1, <1>2

-----------------------------------------------------------------------------
(* The theorems. *)

\* The inductive invariant of the wait and of what follows it.
THEOREM SimInvariant == SimSpec => []SimInv
<1>1. SimInit => SimInv
  BY SimInitInv
<1>2. SimInv /\ [SimNext]_simVars => SimInv'
  BY SimTypeStep, GuestInvStep, WaitInvStep, MarkInvStep, PassStep, FailWinsStep DEF SimInv
<1> QED
  BY <1>1, <1>2, PTL DEF SimSpec

\* The variables keep their types: in particular no more than MarkerAttempts rounds, and
\* no sleep past the deadline.
THEOREM SimTypeCorrect == SimSpec => []SimTypeOK
<1>1. SimInv => SimTypeOK
  BY DEF SimInv
<1> QED
  BY <1>1, SimInvariant, PTL

\* A real build that the wait calls complete has run its last gate, and none before it has
\* failed (ssh_wait_cloud_init with the VERIFY-OK of the templates).
THEOREM CompleteIsVerified == SimSpec => []CompleteMeansVerified
<1>1. SimInv => CompleteMeansVerified
  BY DEF SimInv, GuestInv, WaitInv, CompleteMeansVerified
<1> QED
  BY <1>1, SimInvariant, PTL

\* PASS is never said of a guest that has not printed SIMULATE-OK, whatever the probes of
\* simulate_distro have missed.
THEOREM PassIsOk == SimSpec => []PassMeansOk
<1>1. SimInv => PassMeansOk
  BY DEF SimInv
<1> QED
  BY <1>1, SimInvariant, PTL

\* A SIMULATE-FAIL wins over any SIMULATE-OK, once cloud-init had ended when the wait
\* returned and no look missed a mark (the marker loop and the last probe).
THEOREM FailureWins == SimSpec => []FailWins
<1>1. SimInv => FailWins
  BY DEF SimInv
<1> QED
  BY <1>1, SimInvariant, PTL

\* A guest with its success mark is not reported FAILED or TIMEOUT, unless the look for it
\* has missed it: through every exit of ssh_wait_cloud_init, the deadline included.
THEOREM FinishedIsKept == SimSpec => FinishedIsNotLost
<1>1. SimInv /\ [SimNext]_simVars =>
        [pc # "returned" /\ pc' = "returned" /\ rc' # "complete" /\ ~missed' => "ok" \notin log]_ciVars
  <2> SUFFICES ASSUME SimInv, [SimNext]_simVars,
                      pc # "returned", pc' = "returned", rc' # "complete", ~missed'
               PROVE  "ok" \notin log
    OBVIOUS
  <2>1. WaitReturns
    <3>1. ~MarkStep
      BY DEF MarkStep, AfterWait, OkProbe, FailProbe, LastProbe, Decide
    <3>2. pc' # pc
      OBVIOUS
    <3> QED
      BY <3>1, <3>2, StepKinds
         DEF SimInv, GuestStep, ClockStep, WaitsOn, waitVars, simVars, ciVars
  <2> QED
    BY <2>1 DEF WaitReturns
<1> QED
  BY <1>1, SimInvariant, PTL DEF SimSpec, FinishedIsNotLost

\* The wait implements the safety of VerdictContract: it begins as the contract does, and
\* each of its steps gives the one verdict, is the guest's mark, or is none of the
\* contract's concern.
ContractSafety == Contract!Init /\ [][Contract!Next]_<<"ok" \in log, rc>>

THEOREM ContractIsKept == SimSpec => ContractSafety
<1>1. SimInit => Contract!Init
  BY DEF SimInit, Init, Contract!Init
<1>2. SimInv /\ [SimNext]_simVars => [Contract!Next]_<<"ok" \in log, rc>>
  <2> SUFFICES ASSUME SimInv, [SimNext]_simVars PROVE [Contract!Next]_<<"ok" \in log, rc>>
    OBVIOUS
  <2> USE DEF Contract!Next, Contract!Mark, Contract!Decide
  <2>1. CASE GuestStep
    BY <2>1 DEF GuestStep, waitVars
  <2>2. CASE WaitReturns
    BY <2>2 DEF WaitReturns, guestVars, SimInv, WaitInv
  <2>3. CASE ClockStep \/ WaitsOn \/ MarkStep \/ UNCHANGED simVars
    BY <2>3 DEF ClockStep, WaitsOn, MarkStep, guestVars, simVars, ciVars, waitVars
  <2> QED
    BY <2>1, <2>2, <2>3, StepKinds DEF SimInv
<1> QED
  BY <1>1, <1>2, SimInvariant, PTL DEF SimSpec, ContractSafety

=============================================================================
