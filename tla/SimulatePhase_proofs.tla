-------------------------- MODULE SimulatePhase_proofs --------------------------
(***************************************************************************)
(* Proofs about SimulatePhase: simulate_distro and its operator drive      *)
(* setup_vm.py only as SetupVm says (PhaseImplementsSetup), so that what   *)
(* is proved there holds here; and a dry run believes only a VM of its own *)
(* or one it was left with (FreshVerdict).                                 *)
(***************************************************************************)
EXTENDS SimulatePhase, SetupVm_proofs

\* A VM that may speak for this call.
Counts(v) == vm[v].by = run \/ v \in left

\* Every running VM may, and between two calls only what was left can be running.
RunningCounts == \A v \in VmIds : Up(v) => Counts(v) /\ (sp = "idle" => v \in left)

NoneOfOurs == \A v \in VmIds : Up(v) => v \in left

\* So may the one behind console.log, once setup_vm.py has launched its VM; an older log
\* stays only when that VM has died at once, and then the port is another's.
ConsoleCounts ==
  /\ sp = "phase1" => opt = SimOptions
  /\ sp = "phase1" /\ pc \notin {"idle", "summary"} => NoneOfOurs
  /\ sp = "phase1" /\ (pc = "summary" \/ (pc = "idle" /\ exit = 0)) =>
       console = 0 \/ Counts(console) \/ NoneOfOurs
  /\ sp = "discover" => console = 0 \/ Counts(console) \/ NoneOfOurs
  /\ sp \in {"reach", "wait", "marks"} => console = 0 \/ Counts(console) \/ ans \in left

CallType ==
  /\ sp \in TryPoints \cup {"idle", "finally"}
  /\ vmStarted \in BOOLEAN
  /\ ans \in VmIds \cup {0}
  /\ sp \in {"reach", "wait", "marks"} => ans # 0
  /\ status \in SimResults
  /\ okFrom \in VmIds \cup {0}
  /\ okMarks \subseteq VmIds
  /\ left \subseteq VmIds

CallOK == CallType /\ RunningCounts /\ ConsoleCounts /\ VerdictIsFresh

-----------------------------------------------------------------------------
(* The composition implements its component. *)

\* Whatever simulate_distro and the operator do to the directory and its VMs is a step
\* of SetupVm.
LEMMA StepIsSetup == [PhaseNext]_phaseVars => [SetupNext]_setupVars
<1> SUFFICES ASSUME [PhaseNext]_phaseVars PROVE [SetupNext]_setupVars
  OBVIOUS
<1>1. CASE SimBegin
  BY <1>1, SimulateAssumption DEF SimBegin, SetupNext
<1>2. CASE Phase1
  BY <1>2 DEF Phase1, SetupNext
<1>3. CASE Phase1Failed \/ Phase1Ok \/ Discover \/ Reach \/ Waited \/ PhaseAbort \/ Pass \/ NoPass
  BY <1>3 DEF Phase1Failed, Phase1Ok, Discover, Reach, Waited, PhaseAbort, Pass, NoPass, Leave, Proceed
<1>4. CASE Raised
  BY <1>4 DEF Raised, SetupNext, SetupStep
<1>5. CASE NoCleanup
  BY <1>5 DEF NoCleanup
<1>6. CASE ShutdownDone
  <2>1. UpVms \in SUBSET VmIds
    BY DEF UpVms
  <2> QED
    BY <1>6, <2>1 DEF ShutdownDone, SetupNext
<1>7. CASE ShutdownFails
  <2>1. PICK stay \in SUBSET UpVms : VmsEnd(UpVms \ stay)
    BY <1>7 DEF ShutdownFails
  <2>2. UpVms \ stay \in SUBSET VmIds
    BY DEF UpVms
  <2> QED
    BY <2>1, <2>2 DEF SetupNext
<1>8. CASE OperatorStep
  BY <1>8 DEF OperatorStep, SetupNext
<1>9. CASE OperatorStart
  BY <1>9 DEF OperatorStart, SetupNext
<1>10. CASE VmDies
  <2>1. PICK v \in VmIds : VmsEnd({v})
    BY <1>10 DEF VmDies
  <2> QED
    BY <2>1 DEF SetupNext
<1>11. CASE GuestPasses
  BY <1>11 DEF GuestPasses
<1>12. CASE UNCHANGED phaseVars
  BY <1>12 DEF phaseVars
<1> QED
  BY <1>1, <1>2, <1>3, <1>4, <1>5, <1>6, <1>7, <1>8, <1>9, <1>10, <1>11, <1>12
     DEF PhaseNext, Try, Finally

\* simulate_distro over a VM directory is a run of setup_vm.py's specification: every
\* property of SetupSpec is one of PhaseSpec.
THEOREM PhaseImplementsSetup == PhaseSpec => SetupSpec
<1>1. PhaseInit => SetupInit
  BY DEF PhaseInit
<1> QED
  BY <1>1, StepIsSetup, PTL DEF PhaseSpec, SetupSpec

-----------------------------------------------------------------------------
(* Steps. *)

\* What a step of setup_vm.py does to its VMs, and how it comes to its end.
LEMMA StepShape ==
  ASSUME SetupStep
  PROVE  /\ pc # "idle" /\ run' = run /\ opt' = opt
         /\ Launch \/ (UNCHANGED <<console, vm>> /\ pc' # "summary")
         /\ pc = "summary" => pc' = "idle"
         /\ pc' = "idle" /\ exit' = 0 => opt.prefetch \/ (pc = "summary" /\ UNCHANGED <<console, vm>>)
<1> USE DEF Goto, Quit, progVars, Killed
<1>1. CASE Refuse \/ Located \/ EnsureImage \/ ImagePlaced \/ PrefetchOnly
  BY <1>1 DEF Refuse, Located, EnsureImage, ImagePlaced, PrefetchOnly, dirVars
<1>2. CASE Convert \/ Resize \/ DropImage \/ Templates
  BY <1>2 DEF Convert, Resize, DropImage, Templates, dirVars
<1>3. CASE Keys \/ KeygenPrivate \/ KeygenPublic \/ Seed \/ SeedWritten
  BY <1>3 DEF Keys, KeygenPrivate, KeygenPublic, Seed, SeedWritten, dirVars
<1>4. CASE Nvram \/ NvramCopied \/ Launcher \/ LauncherWritten
  BY <1>4 DEF Nvram, NvramCopied, Launcher, LauncherWritten, dirVars
<1>5. CASE Info
  BY <1>5 DEF Info
<1>6. CASE Launch
  BY <1>6 DEF Launch
<1>7. CASE Summary \/ Stop
  BY <1>7 DEF Summary, Stop, dirVars
<1> QED
  BY <1>1, <1>2, <1>3, <1>4, <1>5, <1>6, <1>7 DEF SetupStep

\* A launch changes one VM, one that was not started before.
LEMMA LaunchEffect ==
  ASSUME SetupTypeOK, Launch
  PROVE  /\ pc = "start" /\ pc' = "summary"
         /\ ~opt.start => UNCHANGED <<console, vm>>
         /\ opt.start => \E v \in VmIds :
              /\ vm'[v].by = run
              /\ vm'[v].state = "up" => console' = v
              /\ \A w \in VmIds : w # v => vm'[w] = vm[w]
<1>1. FileType /\ KeyType /\ VmType /\ run \in Runs
  BY TypeParts DEF ProgType
<1>2. pc = "start" /\ pc' = "summary" /\ (~opt.start => UNCHANGED <<console, vm>>)
  BY DEF Launch, Goto
<1>3. ASSUME opt.start
      PROVE  \E v \in VmIds : /\ vm'[v].by = run
                              /\ vm'[v].state = "up" => console' = v
                              /\ \A w \in VmIds : w # v => vm'[w] = vm[w]
  <2>1. PICK v \in VmIds, state \in {"up", "gone"} :
          Boots(v, run, state) /\ console' \in IF state = "up" THEN {v} ELSE {0, console}
    BY <1>3 DEF Launch
  <2>2. /\ vm'[v] = [state |-> state, by |-> run, disk |-> file["disk"], seed |-> file["seed"],
                      nvram |-> file["nvram"], key |-> seed.key, simulate |-> seed.simulate]
        /\ \A w \in VmIds : w # v => vm'[w] = vm[w]
    BY <1>1, <2>1, BootsEffect
  <2>3. vm'[v].state = "up" => console' = v
    BY <2>1, <2>2
  <2> QED
    BY <2>2, <2>3
<1> QED
  BY <1>2, <1>3

\* The operator's start changes one VM, and its console.log is the one that is there now.
LEMMA HandStartEffect ==
  ASSUME SetupTypeOK, HandStart
  PROVE  /\ UNCHANGED progVars
         /\ \E v \in VmIds :
              /\ vm[v].state = "none" /\ vm'[v].state = "up" /\ console' = v
              /\ \A w \in VmIds : w # v => vm'[w] = vm[w]
<1>1. FileType /\ KeyType /\ VmType /\ 0 \in Runs
  BY TypeParts, BoundsAssumption DEF Runs
<1>2. PICK v \in VmIds : vm[v].state = "none" /\ Boots(v, 0, "up") /\ console' = v
  BY DEF HandStart
<1>3. /\ vm'[v] = [state |-> "up", by |-> 0, disk |-> file["disk"], seed |-> file["seed"],
                    nvram |-> file["nvram"], key |-> seed.key, simulate |-> seed.simulate]
      /\ \A w \in VmIds : w # v => vm'[w] = vm[w]
  BY <1>1, <1>2, BootsEffect
<1>4. UNCHANGED progVars
  BY DEF HandStart
<1> QED
  BY <1>2, <1>3, <1>4

LEMMA EndEffect ==
  ASSUME SetupTypeOK, NEW ended \in SUBSET VmIds, VmsEnd(ended)
  PROVE  /\ UNCHANGED <<progVars, console>>
         /\ \A w \in VmIds : vm'[w].by = vm[w].by
         /\ \A w \in VmIds : vm'[w].state = "up" => w \notin ended /\ Up(w)
<1>1. VmType
  BY TypeParts
<1> QED
  BY <1>1 DEF VmType, Vms, VmsEnd, Up

-----------------------------------------------------------------------------
(* The invariant. *)

LEMMA CallTypeStep == CallType /\ [PhaseNext]_phaseVars => CallType'
<1> SUFFICES ASSUME CallType, [PhaseNext]_phaseVars PROVE CallType'
  OBVIOUS
<1> USE DEF CallType, callVars, TryPoints, SimResults
<1>1. CASE SimBegin
  BY <1>1 DEF SimBegin
<1>2. CASE Phase1
  BY <1>2 DEF Phase1
<1>3. CASE Phase1Failed \/ PhaseAbort \/ NoPass
  BY <1>3 DEF Phase1Failed, PhaseAbort, NoPass, Leave
<1>4. CASE Phase1Ok \/ Reach \/ Waited
  BY <1>4 DEF Phase1Ok, Reach, Waited, Proceed
<1>5. CASE Discover
  <2>1. ans' \in VmIds /\ ans' # 0
    BY <1>5 DEF Discover, VmIds
  <2> QED
    BY <1>5, <2>1 DEF Discover, Proceed
<1>6. CASE Pass
  BY <1>6 DEF Pass, Leave, Believable
<1>7. CASE Raised
  BY <1>7 DEF Raised
<1>8. CASE Finally
  BY <1>8 DEF Finally, NoCleanup, ShutdownDone, ShutdownFails, Return, UpVms
<1>9. CASE OperatorStep
  BY <1>9 DEF OperatorStep
<1>10. CASE OperatorStart
  BY <1>10 DEF OperatorStart
<1>11. CASE VmDies
  BY <1>11 DEF VmDies
<1>12. CASE GuestPasses
  BY <1>12 DEF GuestPasses, UpVms
<1>13. CASE UNCHANGED phaseVars
  BY <1>13 DEF phaseVars
<1> QED
  BY <1>1, <1>2, <1>3, <1>4, <1>5, <1>6, <1>7, <1>8, <1>9, <1>10, <1>11, <1>12, <1>13
     DEF PhaseNext, Try

\* What the steps outside setup_vm.py leave alone, while the try block runs.
LEMMA QuietStep ==
  ASSUME Phase1Failed \/ Phase1Ok \/ Discover \/ Reach \/ Waited \/ PhaseAbort \/ Pass \/ NoPass \/ Raised
  PROVE  UNCHANGED <<run, opt, console, vm, left>> /\ sp # "idle" /\ sp' # "idle"
<1>1. CASE Phase1Failed \/ PhaseAbort \/ Pass \/ NoPass
  BY <1>1 DEF Phase1Failed, PhaseAbort, Pass, NoPass, Leave, setupVars, progVars
<1>2. CASE Phase1Ok \/ Discover \/ Reach \/ Waited
  BY <1>2 DEF Phase1Ok, Discover, Reach, Waited, Proceed, setupVars, progVars
<1>3. CASE Raised
  BY <1>3 DEF Raised, Stop, Quit, TryPoints, setupVars, progVars
<1> QED
  BY <1>1, <1>2, <1>3

LEMMA RunningCountsStep ==
  SetupTypeOK /\ CallOK /\ [PhaseNext]_phaseVars => RunningCounts'
<1> SUFFICES ASSUME SetupTypeOK, CallOK, [PhaseNext]_phaseVars PROVE RunningCounts'
  OBVIOUS
<1> USE DEF CallOK, RunningCounts, Counts, Up
<1>1. CASE SimBegin
  BY <1>1 DEF SimBegin, Start
<1>2. CASE Phase1
  <2>1. SetupStep /\ sp = "phase1" /\ sp' = "phase1" /\ left' = left
    BY <1>2 DEF Phase1, callVars
  <2>2. run' = run /\ (Launch \/ UNCHANGED <<console, vm>>)
    BY <2>1, StepShape
  <2> QED
    BY <2>1, <2>2, LaunchEffect
<1>3. CASE Phase1Failed \/ Phase1Ok \/ Discover \/ Reach \/ Waited \/ PhaseAbort \/ Pass \/ NoPass \/ Raised
  BY <1>3, QuietStep
<1>4. CASE NoCleanup
  BY <1>4 DEF NoCleanup, UpVms, setupVars, progVars
<1>5. CASE ShutdownDone
  <2>1. UpVms \in SUBSET VmIds /\ VmsEnd(UpVms) /\ left' = left
    BY <1>5 DEF ShutdownDone, UpVms
  <2>2. \A w \in VmIds : vm'[w].state = "up" => w \notin UpVms /\ Up(w)
    BY <2>1, EndEffect
  <2> QED
    BY <2>2 DEF UpVms
<1>6. CASE ShutdownFails
  <2>1. PICK stay \in SUBSET UpVms : VmsEnd(UpVms \ stay) /\ left' = left \cup stay
    BY <1>6 DEF ShutdownFails
  <2>2. UpVms \ stay \in SUBSET VmIds
    BY DEF UpVms
  <2>3. \A w \in VmIds : vm'[w].state = "up" => w \notin UpVms \ stay /\ Up(w)
    BY <2>1, <2>2, EndEffect
  <2> QED
    BY <2>1, <2>3 DEF UpVms
<1>7. CASE OperatorStep
  <2>1. sp = "idle" /\ left' = left \cup {v \in VmIds : vm'[v].state = "up" /\ ~Up(v)}
    BY <1>7 DEF OperatorStep
  <2> QED
    BY <2>1
<1>8. CASE OperatorStart
  <2>1. /\ HandStart /\ sp' = sp
        /\ left' = left \cup {v \in VmIds : vm'[v].state = "up" /\ ~Up(v)}
    BY <1>8 DEF OperatorStart, callVars
  <2>2. run' = run
    BY <2>1, HandStartEffect DEF progVars
  <2>3. \A w \in VmIds : Up(w) => vm'[w] = vm[w]
    BY <2>1, HandStartEffect
  <2> QED
    BY <2>1, <2>2, <2>3
<1>9. CASE VmDies
  <2>1. PICK v \in VmIds : VmsEnd({v})
    BY <1>9 DEF VmDies
  <2>2. UNCHANGED <<run, sp, left>>
    BY <1>9, <2>1, EndEffect DEF VmDies, callVars, progVars
  <2>3. \A w \in VmIds : vm'[w].by = vm[w].by /\ (vm'[w].state = "up" => Up(w))
    BY <2>1, EndEffect
  <2> QED
    BY <2>2, <2>3
<1>10. CASE GuestPasses
  BY <1>10 DEF GuestPasses, setupVars, progVars, callVars
<1>11. CASE UNCHANGED phaseVars
  BY <1>11 DEF phaseVars, setupVars, progVars, callVars
<1> QED
  BY <1>1, <1>2, <1>3, <1>4, <1>5, <1>6, <1>7, <1>8, <1>9, <1>10, <1>11
     DEF PhaseNext, Try, Finally

LEMMA ConsoleCountsStep ==
  SetupTypeOK /\ CallOK /\ [PhaseNext]_phaseVars => ConsoleCounts'
<1> SUFFICES ASSUME SetupTypeOK, CallOK, [PhaseNext]_phaseVars PROVE ConsoleCounts'
  OBVIOUS
<1> USE DEF CallOK, ConsoleCounts, Counts, NoneOfOurs
<1>1. CASE SimBegin
  BY <1>1 DEF SimBegin, Start, RunningCounts, Up
<1>2. CASE Phase1
  <2>1. SetupStep /\ sp = "phase1" /\ sp' = "phase1" /\ left' = left
    BY <1>2 DEF Phase1, callVars
  <2>2. /\ run' = run /\ opt' = opt /\ opt.start /\ ~opt.prefetch
        /\ pc # "idle" /\ (pc = "summary" => pc' = "idle")
    BY <2>1, StepShape DEF SimOptions
  <2>3. pc' = "idle" /\ exit' = 0 => pc = "summary" /\ UNCHANGED <<console, vm>>
    BY <2>1, <2>2, StepShape
  <2>4. CASE Launch
    <3>1. pc = "start" /\ pc' = "summary"
      BY <2>4, LaunchEffect
    <3>2. PICK v \in VmIds :
            /\ vm'[v].by = run
            /\ vm'[v].state = "up" => console' = v
            /\ \A w \in VmIds : w # v => vm'[w] = vm[w]
      BY <2>2, <2>4, LaunchEffect
    <3>3. NoneOfOurs
      BY <2>1, <3>1
    <3>4. Counts(console)' \/ NoneOfOurs'
      <4>1. CASE vm'[v].state = "up"
        BY <2>1, <2>2, <3>2, <4>1
      <4>2. CASE vm'[v].state # "up"
        BY <2>1, <3>2, <3>3, <4>2 DEF Up
      <4> QED
        BY <4>1, <4>2
    <3> QED
      BY <2>1, <2>2, <3>1, <3>4
  <2>5. CASE UNCHANGED <<console, vm>> /\ pc' # "summary"
    BY <2>1, <2>2, <2>3, <2>5 DEF Up
  <2> QED
    BY <2>1, <2>4, <2>5, StepShape
<1>3. CASE Phase1Failed \/ PhaseAbort \/ Pass \/ NoPass \/ Raised
  BY <1>3 DEF Phase1Failed, PhaseAbort, Pass, NoPass, Leave, Raised
<1>4. CASE Phase1Ok \/ Discover \/ Reach \/ Waited
  BY <1>4 DEF Phase1Ok, Discover, Reach, Waited, Proceed, setupVars, progVars, Up
<1>5. CASE Finally
  BY <1>5 DEF Finally, NoCleanup, ShutdownDone, ShutdownFails, Return
<1>6. CASE OperatorStep
  BY <1>6 DEF OperatorStep, callVars
<1>7. CASE OperatorStart
  <2>1. /\ HandStart /\ UNCHANGED <<sp, ans>>
        /\ left' = left \cup {v \in VmIds : vm'[v].state = "up" /\ ~Up(v)}
    BY <1>7 DEF OperatorStart, callVars
  <2>2. UNCHANGED <<run, opt, pc, exit>>
    BY <2>1, HandStartEffect DEF progVars
  <2>3. console' \in left'
    BY <2>1, HandStartEffect DEF Up
  <2>4. NoneOfOurs => NoneOfOurs'
    BY <2>1 DEF Up
  <2> QED
    BY <2>1, <2>2, <2>3, <2>4
<1>8. CASE VmDies
  <2>1. PICK v \in VmIds : VmsEnd({v})
    BY <1>8 DEF VmDies
  <2>2. UNCHANGED <<run, opt, pc, exit, console, sp, ans, left>>
    BY <1>8, <2>1, EndEffect DEF VmDies, callVars, progVars
  <2>3. \A w \in VmIds : vm'[w].by = vm[w].by /\ (vm'[w].state = "up" => Up(w))
    BY <2>1, EndEffect
  <2>4. console \in VmIds \cup {0}
    BY DEF SetupTypeOK
  <2>5. NoneOfOurs => NoneOfOurs'
    BY <2>2, <2>3 DEF Up
  <2> QED
    BY <2>2, <2>3, <2>4, <2>5
<1>9. CASE GuestPasses
  BY <1>9 DEF GuestPasses, setupVars, progVars, callVars, Up
<1>10. CASE UNCHANGED phaseVars
  BY <1>10 DEF phaseVars, setupVars, progVars, callVars, Up
<1> QED
  BY <1>1, <1>2, <1>3, <1>4, <1>5, <1>6, <1>7, <1>8, <1>9, <1>10 DEF PhaseNext, Try

LEMMA VerdictStep ==
  SetupTypeOK /\ CallOK /\ [PhaseNext]_phaseVars => VerdictIsFresh'
<1> SUFFICES ASSUME SetupTypeOK, CallOK, [PhaseNext]_phaseVars PROVE VerdictIsFresh'
  OBVIOUS
<1> USE DEF CallOK, VerdictIsFresh
<1>1. CASE SimBegin
  BY <1>1 DEF SimBegin
<1>2. CASE Phase1
  BY <1>2 DEF Phase1, callVars
<1>3. CASE Phase1Failed \/ PhaseAbort \/ NoPass \/ Raised
  BY <1>3 DEF Phase1Failed, PhaseAbort, NoPass, Leave, Raised
<1>4. CASE Phase1Ok \/ Discover \/ Reach \/ Waited
  BY <1>4 DEF Phase1Ok, Discover, Reach, Waited, Proceed
<1>5. CASE Pass
  <2>1. sp = "marks" /\ okFrom' \in VmIds /\ (Up(okFrom') \/ okFrom' = console)
    BY <1>5 DEF Pass, Believable, Answers, CallType
  <2>2. okFrom' # 0 /\ UNCHANGED <<run, vm, ans, left>>
    BY <1>5, <2>1 DEF Pass, Leave, setupVars, progVars, VmIds
  <2> QED
    BY <2>1, <2>2 DEF RunningCounts, ConsoleCounts, Counts
<1>6. CASE Finally
  BY <1>6 DEF Finally, NoCleanup, ShutdownDone, ShutdownFails, Return
<1>7. CASE OperatorStep
  BY <1>7 DEF OperatorStep, callVars
<1>8. CASE OperatorStart
  <2>1. /\ HandStart /\ UNCHANGED <<sp, ans, status, okFrom>>
        /\ left' = left \cup {v \in VmIds : vm'[v].state = "up" /\ ~Up(v)}
    BY <1>8 DEF OperatorStart, callVars
  <2>2. run' = run
    BY <2>1, HandStartEffect DEF progVars
  <2>3. \A w \in VmIds : w \in left' \/ vm'[w] = vm[w]
    BY <2>1, HandStartEffect DEF Up
  <2> QED
    BY <2>1, <2>2, <2>3 DEF CallType
<1>9. CASE VmDies
  <2>1. PICK v \in VmIds : VmsEnd({v})
    BY <1>9 DEF VmDies
  <2>2. UNCHANGED <<run, sp, ans, status, okFrom, left>>
    BY <1>9, <2>1, EndEffect DEF VmDies, callVars, progVars
  <2>3. \A w \in VmIds : vm'[w].by = vm[w].by
    BY <2>1, EndEffect
  <2> QED
    BY <2>2, <2>3 DEF CallType
<1>10. CASE GuestPasses
  BY <1>10 DEF GuestPasses, setupVars, progVars, callVars
<1>11. CASE UNCHANGED phaseVars
  BY <1>11 DEF phaseVars, setupVars, progVars, callVars
<1> QED
  BY <1>1, <1>2, <1>3, <1>4, <1>5, <1>6, <1>7, <1>8, <1>9, <1>10, <1>11 DEF PhaseNext, Try

LEMMA PInvHolds == PhaseSpec => [](SetupTypeOK /\ CallOK)
<1>1. PhaseInit => CallOK
  <2> SUFFICES ASSUME PhaseInit PROVE CallOK
    OBVIOUS
  <2>1. \A v \in VmIds : vm[v].state = "none"
    BY DEF PhaseInit, SetupInit, NoVm
  <2>2. CallType
    BY DEF PhaseInit, CallType, TryPoints, SimResults
  <2> QED
    BY <2>1, <2>2 DEF PhaseInit, CallOK, RunningCounts, ConsoleCounts, VerdictIsFresh, Up
<1>2. SetupTypeOK /\ CallOK /\ [PhaseNext]_phaseVars => CallOK'
  BY CallTypeStep, RunningCountsStep, ConsoleCountsStep, VerdictStep DEF CallOK
<1> QED
  BY <1>1, <1>2, PhaseImplementsSetup, SetupTypeCorrect, PTL DEF PhaseSpec

-----------------------------------------------------------------------------
(* The theorems. *)

\* Types, and that simulate_distro never goes on to a port it has not found.
THEOREM PhaseTypeCorrect == PhaseSpec => []PhaseTypeOK
<1>1. SetupTypeOK /\ CallOK => PhaseTypeOK
  BY DEF CallOK, CallType, PhaseTypeOK
<1> QED
  BY <1>1, PInvHolds, PTL

\* For every number of calls, and of VMs left behind or started by hand: PASS comes from
\* the VM this dry run has booted, or from one it could not have been rid of.
THEOREM FreshVerdict == PhaseSpec => []VerdictIsFresh
<1>1. CallOK => VerdictIsFresh
  BY DEF CallOK
<1> QED
  BY <1>1, PInvHolds, PTL

=============================================================================
