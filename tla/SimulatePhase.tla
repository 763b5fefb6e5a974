----------------------------- MODULE SimulatePhase -----------------------------
(***************************************************************************)
(* orchestrator.simulate_distro, call after call for one distro, over the  *)
(* VM directory it shares with its earlier calls and with the operator:    *)
(* phase 1 is an invocation of setup_vm.py (SetupVm), the VM behind the    *)
(* port that is found need not be the one phase 1 has launched, and the    *)
(* finally block shuts down what it finds running.                         *)
(*                                                                         *)
(* The probes for the marks are SimulateVerdict's; here it only matters    *)
(* whose SIMULATE-OK is believed.  The shutdown is taken at its word:      *)
(* True means that the VMs of the directory are gone (VmShutdown's         *)
(* OkMeansGone).  A launcher has reached its exec, or ended, when phase 1  *)
(* returns; the ones that have not are FleetBuild's.                       *)
(***************************************************************************)
EXTENDS SetupVm

SimOptions == [start |-> TRUE, simulate |-> TRUE, prefetch |-> FALSE, keep |-> TRUE]

ASSUME SimulateAssumption == SimOptions \in Options

VARIABLES
  sp,         \* control point of simulate_distro; "idle" between two calls
  vmStarted,  \* vm_started
  ans,        \* the VM behind the port, 0 before the discovery
  status,     \* of the result; "raised" when there is none
  okFrom,     \* the VM whose SIMULATE-OK was believed, 0 if none was
  okMarks,    \* the VMs whose guest has printed SIMULATE-OK
  left        \* history: VMs the operator started, or that a cleanup left running

callVars  == <<sp, vmStarted, ans, status, okFrom>>
phaseVars == <<setupVars, callVars, okMarks, left>>

TryPoints == {"phase1", "discover", "reach", "wait", "marks"}
SimResults == {"none", "PASS", "FAIL", "ERROR", "raised"}

PhaseInit ==
  /\ SetupInit
  /\ sp = "idle" /\ vmStarted = FALSE /\ ans = 0 /\ status = "none" /\ okFrom = 0
  /\ okMarks = {}
  /\ left = {}

-----------------------------------------------------------------------------
(* The try block. *)

\* run_to_file starts setup_vm.py --simulate --keep-qcow2 --start.
SimBegin ==
  /\ sp = "idle" /\ pc = "idle"
  /\ Start(SimOptions)
  /\ sp' = "phase1" /\ vmStarted' = FALSE /\ ans' = 0 /\ status' = "none" /\ okFrom' = 0
  /\ UNCHANGED <<okMarks, left>>

Phase1 ==
  /\ sp = "phase1"
  /\ SetupStep
  /\ UNCHANGED <<callVars, okMarks, left>>

\* The block is left with a result, and the finally block begins.
Leave(result) ==
  /\ sp' = "finally"
  /\ status' = result
  /\ UNCHANGED <<setupVars, vmStarted, ans, okMarks, left>>

Proceed(point) ==
  /\ sp' = point
  /\ UNCHANGED <<setupVars, status, okFrom, okMarks, left>>

Phase1Failed ==
  /\ sp = "phase1" /\ pc = "idle" /\ exit # 0
  /\ Leave("ERROR") /\ UNCHANGED okFrom

Phase1Ok ==
  /\ sp = "phase1" /\ pc = "idle" /\ exit = 0
  /\ Proceed("discover")
  /\ vmStarted' = TRUE /\ UNCHANGED ans

\* Bug: "if not port" is missing.
DiscoverUnchecked ==
  /\ sp = "discover"
  /\ Proceed("reach")
  /\ ans' \in {v \in VmIds : Up(v)} \cup {0} /\ UNCHANGED vmStarted

\* find_running_ssh_port takes the first pid that pgrep prints for the directory.
Discover ==
  /\ sp = "discover"
  /\ Proceed("reach")
  /\ ans' \in {v \in VmIds : Up(v)} /\ UNCHANGED vmStarted

\* QEMU's forward accepts connections as long as QEMU runs.  Whether the guest can
\* resolve its mirror is only logged.
Reach ==
  /\ sp = "reach" /\ Up(ans)
  /\ Proceed("wait")
  /\ UNCHANGED <<vmStarted, ans>>

\* Any verdict of the wait but TIMEOUT.
Waited ==
  /\ sp = "wait"
  /\ Proceed("marks")
  /\ UNCHANGED <<vmStarted, ans>>

\* PhaseAbort: no port, the port not reachable, TIMEOUT.
PhaseAbort ==
  /\ sp \in {"discover", "reach", "wait"}
  /\ Leave("ERROR") /\ UNCHANGED okFrom

\* SIMULATE-OK in the guest's log, over SSH with the key of the directory, or in the
\* console.log that is there.
Answers(v)  == v = ans /\ Up(v) /\ priv # 0 /\ vm[v].key = priv
Believable  == {v \in okMarks : Answers(v) \/ v = console}

Pass == sp = "marks" /\ okFrom' \in Believable /\ Leave("PASS")

\* A SIMULATE-FAIL, or no mark at all in five rounds.
NoPass == sp = "marks" /\ Leave("FAIL") /\ UNCHANGED okFrom

\* An exception the block does not catch: an unusable pgrep, a log that cannot be
\* written, Ctrl-C.  The child of phase 1 is killed with its group; QEMU has a
\* session of its own.
Raised ==
  /\ sp \in TryPoints
  /\ sp' = "finally" /\ status' = "raised"
  /\ \/ pc # "idle" /\ Stop
     \/ pc = "idle" /\ UNCHANGED setupVars
  /\ UNCHANGED <<vmStarted, ans, okFrom, okMarks, left>>

Try ==
  \/ Phase1 \/ Phase1Failed \/ Phase1Ok \/ Discover \/ Reach \/ Waited
  \/ PhaseAbort \/ Pass \/ NoPass \/ Raised

-----------------------------------------------------------------------------
(* The finally block. *)

Return == sp' = "idle" /\ UNCHANGED <<vmStarted, ans, status, okFrom, okMarks>>
UpVms  == {v \in VmIds : Up(v)}

\* Bug: only vm_started decides, as before _qemu_running_for.
NoCleanupByFlag ==
  /\ sp = "finally" /\ ~vmStarted
  /\ Return
  /\ UNCHANGED <<setupVars, left>>

\* Nothing to clean up as far as _qemu_running_for can tell: no VM of the directory
\* runs, or pgrep is unusable.
NoCleanup ==
  /\ sp = "finally" /\ ~vmStarted
  /\ Return
  /\ left' = left \cup UpVms
  /\ UNCHANGED setupVars

\* shutdown_and_verify; its result is ignored, and what it raises only logged.
ShutdownDone ==
  /\ sp = "finally" /\ (vmStarted \/ UpVms # {})
  /\ Return
  /\ VmsEnd(UpVms)
  /\ UNCHANGED left

ShutdownFails ==
  /\ sp = "finally" /\ (vmStarted \/ UpVms # {})
  /\ Return
  /\ \E stay \in SUBSET UpVms :
       /\ stay # {}
       /\ VmsEnd(UpVms \ stay)
       /\ left' = left \cup stay

Finally == NoCleanup \/ ShutdownDone \/ ShutdownFails

-----------------------------------------------------------------------------
(* The world. *)

\* The operator builds in the directory, between two calls, or runs its launcher.
OperatorStep ==
  /\ sp = "idle"
  /\ (\E o \in Options : Start(o)) \/ SetupStep
  /\ left' = left \cup {v \in VmIds : vm'[v].state = "up" /\ ~Up(v)}
  /\ UNCHANGED <<callVars, okMarks>>

OperatorStart ==
  /\ HandStart
  /\ left' = left \cup {v \in VmIds : vm'[v].state = "up" /\ ~Up(v)}
  /\ UNCHANGED <<callVars, okMarks>>

VmDies ==
  /\ \E v \in VmIds : VmsEnd({v})
  /\ UNCHANGED <<callVars, okMarks, left>>

\* The guest of a simulate-mode seed.
GuestPasses ==
  /\ \E v \in UpVms : vm[v].simulate /\ okMarks' = okMarks \cup {v}
  /\ UNCHANGED <<setupVars, callVars, left>>

PhaseNext ==
  \/ SimBegin \/ Try \/ Finally
  \/ OperatorStep \/ OperatorStart \/ VmDies \/ GuestPasses

PhaseSpec == PhaseInit /\ [][PhaseNext]_phaseVars

-----------------------------------------------------------------------------
(* Properties. *)

PhaseTypeOK ==
  /\ SetupTypeOK
  /\ sp \in TryPoints \cup {"idle", "finally"}
  /\ vmStarted \in BOOLEAN
  /\ ans \in VmIds \cup {0}
  /\ sp \in {"reach", "wait", "marks"} => ans # 0
  /\ status \in SimResults
  /\ okFrom \in VmIds \cup {0}
  /\ okMarks \subseteq VmIds
  /\ left \subseteq VmIds

\* A dry run is PASS because of the VM it has booted itself: not because of one that
\* an earlier dry run left behind and that answers on the first port found, nor
\* because of its console.log.  Only a VM that a cleanup failed to end, or
\* could not see, and one the operator started there, can stand in for it; or can
\* lend its port to a dry run whose own QEMU has died over an old console.log.
VerdictIsFresh ==
  sp = "finally" /\ status = "PASS" =>
    /\ okFrom # 0
    /\ vm[okFrom].by = run \/ okFrom \in left \/ ans \in left

=============================================================================
