------------------------------ MODULE FleetBuild ------------------------------
(***************************************************************************)
(* The real-build part of the fleet: lifecycle.preflight_cleanup, the loop *)
(* of fleet/main.py over the distros to build, and                         *)
(* orchestrator.build_and_provision for each of them, which calls          *)
(* shutdown_and_verify (VmShutdown).                                       *)
(*                                                                         *)
(* Three things run at once: the fleet program (pc), its setup_vm.py child *)
(* (child), and the launchers and QEMUs on the host (HostProcs), which are *)
(* in sessions of their own and outlive both.  The operator may press      *)
(* Ctrl-C.  What ssh_wait_cloud_init decides is left open here: any        *)
(* verdict may come out of it.                                             *)
(***************************************************************************)
EXTENDS VmShutdown, Sequences

CONSTANTS
  Order,          \* distros_to_build; the same distro may be named twice
  Orphans,        \* processes that are running when the program starts
  DiscoverPolls,  \* range(30) of _discover_ssh_port
  MaxInterrupts   \* bound: how often the operator presses Ctrl-C

ASSUME OrderAssumption == Order \in Seq(Distros)
ASSUME OrphansAssumption == Orphans \subseteq Pids
ASSUME DiscoverAssumption == DiscoverPolls \in Nat
ASSUME InterruptsAssumption == MaxInterrupts \in Nat

VARIABLES
  idx,         \* position in Order of the current or next build
  child,       \* the setup_vm.py child of phase 1
  vmStarted,   \* vm_started
  ciOk,        \* cloud_init_ok
  reason,      \* failure_reason; "" is none
  propagating, \* an exception other than PhaseAbort is on its way out
  verdict,     \* verdict[d]: how main took the last build of d
  failed,      \* failed_distros, as positions in Order
  strays,      \* distros that had a QEMU or launcher before their last build began
  interrupts   \* Ctrl-Cs so far

buildVars == <<idx, child, vmStarted, ciOk, reason, propagating>>
resultVars == <<verdict, failed, strays>>
fleetVars == <<buildVars, resultVars, interrupts>>
vars == <<shutdownVars, fleetVars>>

ChildStates == {"none", "building", "launched"}
Reasons == {"", "build_timeout", "build_failed", "ssh_key_missing", "no_port",
            "ssh_unreachable", "ci_timeout", "ci_failed"}
Verdicts == {"pending", "success", "shutdown"} \cup Reasons

InTry      == {"phase1", "endpoint", "discover", "reach", "ciwait"}
InPhase2   == InTry \ {"phase1"}
InFinally  == {"cleanup"} \cup SdPoints
Terminal   == {"done", "aborted"}
Points     == {"preflight", "pf_kill", "next", "return"} \cup InTry \cup InFinally \cup Terminal

\* A build of target is under way.
Building == pc \in InTry \cup InFinally \cup {"return"}

-----------------------------------------------------------------------------
Init ==
  /\ st = [p \in Pids |-> IF p \in Orphans THEN "up" ELSE "free"]
  /\ owner \in [Pids -> Distros \cup {Foreign}]
  /\ \A p \in Pids \ Orphans : owner[p] = Foreign
  /\ age = [p \in Pids |-> 0]
  /\ sigkilled = {}
  /\ pc \in {"preflight", "next"}     \* "next": --no-preflight
  /\ target \in Distros
  /\ ep = NoEndpoint
  /\ polls = 0
  /\ batch = {}
  /\ sdResult = "none"
  /\ idx = 1
  /\ child = "none"
  /\ vmStarted = FALSE
  /\ ciOk = FALSE
  /\ reason = ""
  /\ propagating = FALSE
  /\ verdict = [d \in Distros |-> "pending"]
  /\ failed = {}
  /\ strays = {}
  /\ interrupts = 0

Goto(point) == pc' = point /\ UNCHANGED <<target, ep, polls, batch, sdResult>>

-----------------------------------------------------------------------------
(* lifecycle.preflight_cleanup *)

\* List every QEMU under OUT_ROOT.
Preflight ==
  /\ pc = "preflight"
  /\ \E r \in QemuPids(Distros) :
       \/ r.raised /\ Goto("aborted")
       \/ ~r.raised /\ batch' = r.pids /\ pc' = "pf_kill"
                    /\ UNCHANGED <<target, ep, polls, sdResult>>
  /\ UNCHANGED <<hostVars, fleetVars>>

PreflightKill ==
  /\ pc = "pf_kill"
  /\ \E pid \in batch :
       /\ IF pid <= 0 THEN UNCHANGED <<st, sigkilled>> ELSE KillPid(pid)
       /\ batch' = batch \ {pid}
  /\ UNCHANGED <<owner, age, pc, target, ep, polls, sdResult, fleetVars>>

\* The second count is only logged; but it may raise.
PreflightRecount ==
  /\ pc = "pf_kill"
  /\ batch = {}
  /\ \E r \in QemuPids(Distros) : Goto(IF r.raised THEN "aborted" ELSE "next")
  /\ UNCHANGED <<hostVars, fleetVars>>

-----------------------------------------------------------------------------
(* build_and_provision, phase 1: run setup_vm.py --start under a timeout. *)

\* The next distro of the loop: fresh locals, and run_to_file starts the child.
StartBuild ==
  /\ pc = "next"
  /\ idx <= Len(Order)
  /\ target' = Order[idx]
  /\ ep' = NoEndpoint
  /\ polls' = 0
  /\ sdResult' = "none"
  /\ pc' = "phase1"
  /\ child' = "building"
  /\ vmStarted' = FALSE
  /\ ciOk' = FALSE
  /\ reason' = ""
  /\ verdict' = [verdict EXCEPT ![Order[idx]] = "pending"]
  /\ strays' = IF NoneAlive(Order[idx]) THEN strays \ {Order[idx]}
                                        ELSE strays \cup {Order[idx]}
  /\ UNCHANGED <<hostVars, batch, idx, propagating, failed, interrupts>>

\* The child has built the disk and spawns the launcher, its last effect.
ChildLaunches ==
  /\ child = "building"
  /\ Spawn(target)
  /\ child' = "launched"
  /\ UNCHANGED <<sdVars, idx, vmStarted, ciOk, reason, propagating, resultVars, interrupts>>

\* Leave the try block by PhaseAbort, with the reason given.
Abort(why) ==
  /\ Goto("cleanup")
  /\ reason' = why
  /\ UNCHANGED <<hostVars, idx, vmStarted, ciOk, propagating, resultVars, interrupts>>

\* rc 0: only a child that has launched can end that way.
Phase1Ok ==
  /\ pc = "phase1"
  /\ child = "launched"
  /\ Goto("endpoint")
  /\ child' = "none"
  /\ vmStarted' = TRUE
  /\ UNCHANGED <<hostVars, idx, ciOk, reason, propagating, resultVars, interrupts>>

\* rc other than 0 and -1, before or after the launch; rc -2 when run_to_file
\* itself failed.
Phase1Failed ==
  /\ pc = "phase1"
  /\ Abort("build_failed")
  /\ child' = "none"

\* run_to_file's timeout: _kill_process_tree ends the child.  Launcher and QEMU
\* are in another session and survive.
Phase1Timeout ==
  /\ pc = "phase1"
  /\ Abort("build_timeout")
  /\ child' = "none"

-----------------------------------------------------------------------------
(* build_and_provision, phase 2. *)

SshKeyMissing ==
  /\ pc = "endpoint"
  /\ Abort("ssh_key_missing")
  /\ UNCHANGED child

SshKeyFound ==
  /\ pc = "endpoint"
  /\ pc' = "discover"
  /\ polls' = 0
  /\ UNCHANGED <<hostVars, target, ep, batch, sdResult, fleetVars>>

\* One turn of _discover_ssh_port: the first process pgrep lists gives the
\* port, unless its command line cannot be read.  A failing pgrep raises
\* through build_and_provision.
Discover ==
  /\ pc = "discover"
  /\ polls < DiscoverPolls
  /\ \E r \in Pgrep({target}) :
       \/ /\ r.exc # "none"
          /\ Goto("cleanup")
          /\ propagating' = TRUE
       \/ /\ \E p \in r.pids : ep' = p
          /\ pc' = "reach"
          /\ UNCHANGED <<target, polls, batch, sdResult, propagating>>
       \/ /\ r.exc = "none"
          /\ polls' = polls + 1
          /\ UNCHANGED <<pc, target, ep, batch, sdResult, propagating>>
  /\ UNCHANGED <<hostVars, idx, child, vmStarted, ciOk, reason, resultVars, interrupts>>

NoPort ==
  /\ pc = "discover"
  /\ polls >= DiscoverPolls
  /\ Abort("no_port")
  /\ UNCHANGED child

SshReachable ==
  /\ pc = "reach"
  /\ Goto("ciwait")
  /\ UNCHANGED <<hostVars, fleetVars>>

SshUnreachable ==
  /\ pc = "reach"
  /\ Abort("ssh_unreachable")
  /\ UNCHANGED child

\* ssh_wait_cloud_init has returned 0, -1 or something else.
CloudInitVerdict ==
  /\ pc = "ciwait"
  /\ \E rc \in {"complete", "timeout", "failed"} :
       /\ ciOk' = (rc = "complete")
       /\ reason' = CASE rc = "complete" -> reason
                      [] rc = "timeout"  -> "ci_timeout"
                      [] rc = "failed"   -> "ci_failed"
  /\ Goto("cleanup")
  /\ UNCHANGED <<hostVars, idx, child, vmStarted, propagating, resultVars, interrupts>>

-----------------------------------------------------------------------------
(* build_and_provision's finally block, and what main makes of the result. *)

\* Bug: a VM that did not finish is left running for a look at it.
CleanupIfComplete ==
  /\ pc = "cleanup"
  /\ vmStarted
  /\ Goto(IF ciOk THEN "sd_off" ELSE "return")
  /\ UNCHANGED <<hostVars, fleetVars>>

CleanupStarted ==
  /\ pc = "cleanup"
  /\ vmStarted
  /\ Goto("sd_off")
  /\ UNCHANGED <<hostVars, fleetVars>>

\* _qemu_running_for: look for a VM that phase 1 left behind.  A failing pgrep
\* reads as "not running".
CleanupNotStarted ==
  /\ pc = "cleanup"
  /\ ~vmStarted
  /\ \E r \in Pgrep({target}) :
       LET running == r.exc = "none" /\ r.pids # {}
       IN  /\ vmStarted' = running
           /\ Goto(IF running THEN "sd_off" ELSE "return")
  /\ UNCHANGED <<hostVars, idx, child, ciOk, reason, propagating, resultVars, interrupts>>

\* An exception out of shutdown_and_verify is caught and counts as False.
ShutdownReturned ==
  /\ pc = "sd_done"
  /\ Goto("return")
  /\ UNCHANGED <<hostVars, fleetVars>>

\* First component of the tuple returned.
ShutdownOk == ~vmStarted \/ sdResult = "ok"

\* Bug: main looks at cloud-init only.
ClassifyCiOnly == IF ciOk THEN "success" ELSE reason

\* main's classification of (shutdown_ok, ci_ok, reason).
Classify ==
  IF ~ShutdownOk THEN "shutdown" ELSE IF ciOk THEN "success" ELSE reason

\* Bug: only a failed shutdown counts.
FailedNowLax == IF ShutdownOk THEN failed ELSE failed \cup {idx}

\* Bug: the loop has already moved on.
FailedNowShifted == IF Classify = "success" THEN failed ELSE failed \cup {idx + 1}

\* failed_distros after this build.
FailedNow == IF Classify = "success" THEN failed ELSE failed \cup {idx}

BuildReturns ==
  /\ pc = "return"
  /\ ~propagating
  /\ verdict' = [verdict EXCEPT ![target] = Classify]
  /\ failed' = FailedNow
  /\ idx' = idx + 1
  /\ Goto("next")
  /\ UNCHANGED <<hostVars, child, vmStarted, ciOk, reason, propagating, strays, interrupts>>

\* The exception goes on through main's loop and ends the program.
BuildRaises ==
  /\ pc = "return"
  /\ propagating
  /\ Goto("aborted")
  /\ UNCHANGED <<hostVars, fleetVars>>

\* The loop is over; the exit status is 1 exactly when failed is not empty.
FleetDone ==
  /\ pc = "next"
  /\ idx > Len(Order)
  /\ Goto("done")
  /\ UNCHANGED <<hostVars, fleetVars>>

ExitZero == pc = "done" /\ failed = {}

-----------------------------------------------------------------------------
(* Ctrl-C.  In the try block the exception waits for the finally block, and    *)
(* run_to_file takes its child down first; anywhere else nothing holds it.     *)

InterruptTry ==
  /\ pc \in InTry
  /\ Goto("cleanup")
  /\ propagating' = TRUE
  /\ child' = "none"
  /\ UNCHANGED <<hostVars, idx, vmStarted, ciOk, reason, resultVars>>

InterruptElsewhere ==
  /\ pc \notin InTry \cup Terminal
  /\ Goto("aborted")
  /\ UNCHANGED <<hostVars, buildVars, resultVars>>

Interrupt ==
  /\ interrupts < MaxInterrupts
  /\ interrupts' = interrupts + 1
  /\ InterruptTry \/ InterruptElsewhere

-----------------------------------------------------------------------------
Phase1 == Phase1Ok \/ Phase1Failed \/ Phase1Timeout

Phase2 ==
  \/ SshKeyMissing \/ SshKeyFound
  \/ Discover \/ NoPort
  \/ SshReachable \/ SshUnreachable
  \/ CloudInitVerdict

Cleanup ==
  \/ CleanupStarted \/ CleanupNotStarted
  \/ SdStep /\ UNCHANGED fleetVars
  \/ ShutdownReturned

FleetStep ==
  \/ Preflight \/ PreflightKill \/ PreflightRecount
  \/ StartBuild \/ Phase1 \/ Phase2 \/ Cleanup
  \/ BuildReturns \/ BuildRaises \/ FleetDone

Next ==
  \/ FleetStep
  \/ ChildLaunches
  \/ HostStep /\ UNCHANGED <<sdVars, fleetVars>>
  \/ Interrupt

\* The program's own steps end: each wait in them has a timeout.  Nothing is
\* assumed of the child, the launchers, the QEMUs or the operator.
Spec == Init /\ [][Next]_vars /\ WF_vars(FleetStep)

-----------------------------------------------------------------------------
(* Properties. *)

TypeOK ==
  /\ HostTypeOK
  /\ SdTypeOK
  /\ pc \in Points
  /\ idx \in 1..(Len(Order) + 1)
  /\ child \in ChildStates
  /\ vmStarted \in BOOLEAN
  /\ ciOk \in BOOLEAN
  /\ reason \in Reasons
  /\ propagating \in BOOLEAN
  /\ verdict \in [Distros -> Verdicts]
  /\ failed \subseteq 1..Len(Order)
  /\ strays \subseteq Distros
  /\ interrupts \in 0..MaxInterrupts

\* A build that main logs as SUCCESS leaves nothing behind: no QEMU of that
\* directory is running, none is about to be exec'd, and none ever will be until
\* the distro is built again.  Whatever pgrep, the launcher, the guest and the
\* operator do; the one premise is that no VM of that directory was already
\* there when its build began (the port of an older VM would be found first).
SuccessMeansGone ==
  \A d \in Distros : verdict[d] = "success" /\ d \notin strays => NoneAlive(d)

\* Exit status 0 can be relied on: the last build of every distro asked for was
\* verified by its cloud-init verdict and shut down.
ExitZeroMeansAllBuilt ==
  ExitZero => \A i \in 1..Len(Order) : verdict[Order[i]] = "success"

\* Neither the preflight nor any shutdown reaches a QEMU outside OUT_ROOT, also
\* not through the -1 that _qemu_pids returns for an unusable pgrep.
OperatorVmsUntouched == \A p \in sigkilled : owner[p] # Foreign

\* "shutdown_ok=False means the VM couldn't be confirmed dead": so a build that
\* came back with shutdown_ok = True, failed or not, has left no VM behind.
ShutdownOkMeansDead ==
  \A d \in Distros : verdict[d] \notin {"pending", "shutdown"} => NoneAlive(d)

\* "continue-on-failure": nothing but the operator ends the fleet early.
OnlyInterruptAborts == pc = "aborted" => interrupts > 0

\* Once phase 1 has reported a running VM, every way out of phase 2 (abort,
\* verdict, exception, Ctrl-C) leads through the finally block into
\* shutdown_and_verify.  Only a Ctrl-C that hits the finally block itself breaks it
\* off.  With FleetTerminates: the VM does get its shutdown.
StartedVmIsShutDown ==
  [][vmStarted /\ pc \in InPhase2 \cup {"cleanup"} =>
       \/ vmStarted' /\ pc' \in InPhase2 \cup {"cleanup", "sd_off"}
       \/ pc = "cleanup" /\ interrupts' > interrupts]_vars

\* The fleet run ends, with every wait bounded by its own deadline.
FleetTerminates == <>(pc \in Terminal)

\* "continue-on-failure": seen from main, the builds are those of BuildLoop: one after the
\* other, each counted once and as what it was, whatever its phases, its shutdown and the
\* operator do.
LoopEnd ==
  CASE pc = "done" -> "complete" [] pc = "aborted" -> "stopped" [] OTHER -> "none"

Loop == INSTANCE BuildLoop WITH
  plan <- Order, done <- idx - 1, end <- LoopEnd,
  good <- {d \in Distros : verdict[d] = "success"}, bad <- {Order[i] : i \in failed}

KeepsLoop == Loop!Spec

-----------------------------------------------------------------------------
(* The inductive invariant behind SuccessMeansGone, ExitZeroMeansAllBuilt,    *)
(* OperatorVmsUntouched and GraceBeforeKill; FleetBuild_proofs proves it.     *)

\* Who is where: the child lives in phase 1 only, the build under way is the one
\* idx names, and an endpoint is known before anything that needs one.
Control ==
  /\ child # "none" => pc = "phase1"
  /\ pc = "phase1" => ep = NoEndpoint
  /\ pc \in {"reach", "ciwait"} => ep # NoEndpoint
  /\ pc \in InPhase2 => vmStarted
  /\ Building => idx <= Len(Order) /\ target = Order[idx] /\ verdict[target] = "pending"
  /\ Building /\ ciOk => vmStarted /\ ep # NoEndpoint
  /\ pc \in InTry => sdResult = "none"
  /\ pc = "done" => idx > Len(Order)

\* Without a stray, at most one process of the directory is alive: the one this
\* build launched.  Once it has been seen it is past its exec.
OneLaunch ==
  Building /\ target \notin strays =>
    /\ child = "building" => NoneAlive(target)
    /\ \A p, q \in Pids :
         owner[p] = target /\ owner[q] = target /\ Alive(p) /\ Alive(q) => p = q
    /\ ep # NoEndpoint =>
         \A p \in Pids : owner[p] = target => st[p] # "launching"
    /\ ep # NoEndpoint /\ sdResult = "ok" => NoneAlive(target)

\* As long as nothing has failed, every build so far but the one under way was
\* a success.
SuccessSoFar ==
  failed = {} /\ pc # "aborted" =>
    \A i \in 1..(idx - 1) :
      verdict[Order[i]] = "success" \/ (Building /\ Order[i] = target)

\* What the kill loops hold, and what they have hit, are processes of the fleet.
KillsAreOurs ==
  /\ \A p \in batch \cap Pids : owner[p] # Foreign /\ st[p] # "free"
  /\ pc = "sd_kill" => \A p \in batch \cap Pids : owner[p] = target
  /\ \A p \in sigkilled : owner[p] # Foreign /\ st[p] # "free"

\* How long a halting guest of the target has had by each stage.
GraceGiven ==
  \A p \in Pids : st[p] = "halting" =>
    /\ pc \notin {"preflight", "pf_kill"}
    /\ owner[p] = target =>
         /\ pc = "sd_grace" => age[p] >= polls
         /\ pc \in {"sd_round", "sd_kill", "sd_verify"} => age[p] >= GracePolls

IInv ==
  /\ TypeOK
  /\ Control
  /\ OneLaunch
  /\ SuccessMeansGone
  /\ SuccessSoFar
  /\ KillsAreOurs
  /\ GraceGiven

=============================================================================
