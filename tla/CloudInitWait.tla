----------------------------- MODULE CloudInitWait -----------------------------
(***************************************************************************)
(* fleet/ssh.py: ssh_wait_cloud_init polling a guest whose cloud-init runs *)
(* the template's checks, one runcmd entry after the other.                *)
(*                                                                         *)
(* The guest writes marks to cloud-init-output.log: VERIFY-OK/VERIFY-FAIL  *)
(* in a real build, SIMULATE-OK/SIMULATE-FAIL in a simulate-mode VM; here  *)
(* "ok" and "fail".  It may stop at any point.  The host looks twice per   *)
(* turn, at the status and then at the marks, and the guest moves on in    *)
(* between; either look may find nothing because SSH is down.  Time is     *)
(* counted in turns of the 300 s sleep, as time.time() tells it: the clock *)
(* of the host may be set meanwhile.                                       *)
(***************************************************************************)
EXTENDS Naturals

CONSTANTS
  Checks,         \* number of runcmd entries that may write a mark
  Deadline,       \* overall_timeout_sec, in turns
  FallbackAfter,  \* 900 s, in turns
  MaxClockSets    \* bound on how often the clock is set

ASSUME CountsAssumption ==
  /\ Checks \in Nat
  /\ Deadline \in Nat \ {0}
  /\ FallbackAfter \in Nat
  /\ MaxClockSets \in Nat

VARIABLES
  simulate,  \* TRUE: simulate-mode templates; FALSE: the verify block
  ran,      \* checks that have run
  log,      \* marks in the log
  ci,       \* extended_status of cloud-init
  pc,       \* control point of the host
  view,     \* extended status as last seen by the host
  elapsed,  \* turns since the wait began, by the host's clock
  sets,     \* how often that clock has been set
  rc,       \* verdict: 0, 1 and -1 are "complete", "failed" and "timeout"
  missed    \* history: a look has missed a mark that was there

guestVars == <<simulate, ran, log, ci>>
waitVars == <<pc, view, elapsed, sets, rc, missed>>
ciVars == <<guestVars, waitVars>>

RunningStates == {"running", "error - running"}
DoneStates    == {"done", "degraded done", "error - done"}
Unseen        == "(no extended_status)"
WaitPoints    == {"probe", "judge", "returned"}
Verdicts      == {"none", "complete", "failed", "timeout"}

Init ==
  /\ simulate \in BOOLEAN
  /\ ran = 0
  /\ log = {}
  /\ ci = "running"
  /\ pc = "probe"
  /\ view = Unseen
  /\ elapsed = 0 /\ sets = 0
  /\ rc = "none"
  /\ missed = FALSE

-----------------------------------------------------------------------------
(* The guest. *)

\* Bug: the verify macro prints VERIFY-OK over an earlier gate's failure.
MayEmitUnvetoed(mark) ==
  \/ mark \in {"nothing", "fail"}
  \/ mark = "ok" /\ simulate
  \/ mark = "ok" /\ ran + 1 = Checks

\* What the next check may write.  Every simulate check writes a mark of its own;
\* in a real build only the last gate can write the success mark, and refuses
\* to once a gate has failed (/var/log/verify-gate-fail).  An entry that dies
\* early writes nothing.
MayEmit(mark) ==
  \/ mark \in {"nothing", "fail"}
  \/ mark = "ok" /\ simulate
  \/ mark = "ok" /\ ran + 1 = Checks /\ "fail" \notin log

\* A failing entry does not stop the ones after it.
GuestCheck ==
  /\ ci \in RunningStates
  /\ ran < Checks
  /\ ran' = ran + 1
  /\ \E mark \in {"ok", "fail", "nothing"} :
       MayEmit(mark) /\ log' = log \cup ({mark} \ {"nothing"})
  /\ UNCHANGED <<simulate, ci, waitVars>>

\* cloud-init notices an error of its own, or comes to its end; that says
\* nothing about the checks, which may not even have run.
GuestErrs ==
  /\ ci = "running"
  /\ ci' = "error - running"
  /\ UNCHANGED <<simulate, ran, log, waitVars>>

GuestFinishes ==
  /\ ci \in RunningStates
  /\ ci' \in DoneStates
  /\ UNCHANGED <<simulate, ran, log, waitVars>>

Guest == GuestCheck \/ GuestErrs \/ GuestFinishes

-----------------------------------------------------------------------------
(* The host. *)

\* _check_success_marker, three attempts over SSH and then console.log: a mark
\* that is not there is never seen, one that is there may be missed.
Look(mark, seen) ==
  /\ seen => mark \in log
  /\ missed' = (missed \/ (mark \in log /\ ~seen))

\* "cloud-init status --long"; nothing usable when SSH fails or the probe raises.
Probe ==
  /\ pc = "probe" /\ elapsed < Deadline
  /\ view' \in {ci, Unseen}
  /\ pc' = "judge"
  /\ UNCHANGED <<guestVars, elapsed, sets, rc, missed>>

Return(verdict) ==
  /\ rc' = verdict
  /\ pc' = "returned"
  /\ UNCHANGED <<guestVars, view, elapsed, sets>>

\* Bug: the sleep is not clamped to what remains.
SleepTurnPast ==
  /\ elapsed' = elapsed + 1
  /\ pc' = "probe"
  /\ UNCHANGED <<guestVars, view, sets, rc>>

\* Sleep, but not past the deadline.
SleepTurn ==
  /\ elapsed' = IF elapsed < Deadline THEN elapsed + 1 ELSE elapsed
  /\ pc' = "probe"
  /\ UNCHANGED <<guestVars, view, sets, rc>>

\* Bug: "done" is success.
JudgeDoneByStatus ==
  /\ pc = "judge"
  /\ view \in DoneStates
  /\ IF view # "error - done"
     THEN Return("complete") /\ UNCHANGED missed
     ELSE \E seen \in BOOLEAN :
            Look("ok", seen) /\ Return(IF seen THEN "complete" ELSE "failed")

\* done, degraded done or error - done: the mark decides.
JudgeDone ==
  /\ pc = "judge"
  /\ view \in DoneStates
  /\ \E seen \in BOOLEAN :
       Look("ok", seen) /\ Return(IF seen THEN "complete" ELSE "failed")

\* Anything else: keep waiting, but after 900 s accept the mark.
JudgeOther ==
  /\ pc = "judge"
  /\ view \notin DoneStates
  /\ \/ elapsed < FallbackAfter /\ SleepTurn /\ UNCHANGED missed
     \/ /\ elapsed >= FallbackAfter
        /\ \E seen \in BOOLEAN :
             Look("ok", seen) /\ IF seen THEN Return("complete") ELSE SleepTurn

\* Bug: the deadline does not consult the mark.
FinalBlind ==
  /\ pc = "probe" /\ elapsed >= Deadline
  /\ Return("timeout")
  /\ UNCHANGED missed

\* The deadline: one last look at the mark.
Final ==
  /\ pc = "probe" /\ elapsed >= Deadline
  /\ \E seen \in BOOLEAN :
       Look("ok", seen) /\ Return(IF seen THEN "complete" ELSE "timeout")

\* The host's clock is set, forward or back, or the host sleeps with its lid closed.
ClockSet ==
  /\ sets < MaxClockSets
  /\ sets' = sets + 1
  /\ elapsed' \in 0..Deadline
  /\ UNCHANGED <<guestVars, pc, view, rc, missed>>

WaitStep == Probe \/ JudgeDone \/ JudgeOther \/ Final

Next == WaitStep \/ Guest \/ ClockSet

\* Every remote command of the host has a hard timeout, so the host keeps
\* stepping; the guest may hang at any point.
Spec == Init /\ [][Next]_ciVars /\ WF_ciVars(WaitStep)

-----------------------------------------------------------------------------
(* Properties. *)

WaitTypeOK ==
  /\ ran \in 0..Checks
  /\ log \subseteq {"ok", "fail"}
  /\ ci \in RunningStates \cup DoneStates
  /\ view \in RunningStates \cup DoneStates \cup {Unseen}
  /\ elapsed \in 0..Deadline
  /\ sets \in 0..MaxClockSets
  /\ simulate \in BOOLEAN
  /\ rc \in Verdicts
  /\ missed \in BOOLEAN

\* A real build reported COMPLETE has run its last gate and no gate before it had
\* failed, through whichever exit of the wait the verdict came: done,
\* error - done, the 900 s fallback, or the deadline.
CompleteMeansVerified ==
  rc = "complete" /\ ~simulate => ran = Checks /\ log = {"ok"}

\* A guest that has emitted its success mark by the time the wait decides is never
\* reported FAILED or TIMEOUT, not even at the deadline, however many status probes
\* were lost and wherever the clock was set, unless a look for that very mark has
\* missed it.
FinishedIsNotLost ==
  [][pc # "returned" /\ pc' = "returned" /\ rc' # "complete" /\ ~missed' => "ok" \notin log]_ciVars

\* The wait keeps the contract of VerdictContract: one verdict, given once and, whatever
\* the guest does, in the end; and "complete" only with the mark there.
Contract == INSTANCE VerdictContract WITH marked <- "ok" \in log, verdict <- rc
KeepsContract == Contract!Spec

=============================================================================
