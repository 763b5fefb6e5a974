--------------------------- MODULE FleetBuild_proofs ---------------------------
(* Proofs about FleetBuild: the inductive invariant IInv and what follows from *)
(* it for every set of distros, order of builds, process table, number of      *)
(* polls and failure mode of pgrep.                                            *)
EXTENDS FleetBuild, VmShutdown_proofs

USE PidsAssumption, ForeignAssumption, FaultsAssumption, LauncherAssumption,
    PollsAssumption, OrderAssumption, OrphansAssumption, DiscoverAssumption,
    InterruptsAssumption

\* The list of builds has a length, and every build is of a known distro.
LEMMA OrderLen == Len(Order) \in Nat /\ \A i \in 1..Len(Order) : Order[i] \in Distros
  OBVIOUS

\* The initial states satisfy the invariant.
LEMMA InitIInv == Init => IInv
<1> SUFFICES ASSUME Init PROVE IInv
  OBVIOUS
<1>1. TypeOK
  <2>1. HostTypeOK
    BY DEF Init, HostTypeOK, ProcStates
  <2>2. SdTypeOK
    BY DEF Init, SdTypeOK, SdResults
  <2>3. pc \in Points
    BY DEF Init, Points
  <2>4. /\ idx \in 1..(Len(Order) + 1)
        /\ failed \subseteq 1..Len(Order)
        /\ interrupts \in 0..MaxInterrupts
    <3>1. idx = 1 /\ failed = {} /\ interrupts = 0
      BY DEF Init
    <3>2. 0 \in 0..MaxInterrupts /\ 1 \in 1..(Len(Order) + 1)
      BY OrderLen
    <3> QED
      BY <3>1, <3>2
  <2>5. child \in ChildStates /\ reason \in Reasons /\ verdict \in [Distros -> Verdicts]
    BY DEF Init, ChildStates, Reasons, Verdicts
  <2> QED
    BY <2>1, <2>2, <2>3, <2>4, <2>5 DEF Init, TypeOK
<1>2. Control
  BY DEF Init, Control, InPhase2, InTry, Building, InFinally, SdPoints
<1>3. OneLaunch
  BY DEF Init, OneLaunch, Building, InTry, InFinally, SdPoints
<1>4. SuccessMeansGone
  BY DEF Init, SuccessMeansGone
<1>5. SuccessSoFar
  <2>1. idx = 1
    BY DEF Init
  <2> QED
    BY <2>1 DEF SuccessSoFar
<1>6. KillsAreOurs
  BY DEF Init, KillsAreOurs
<1>7. GraceGiven
  BY DEF Init, GraceGiven
<1> QED
  BY <1>1, <1>2, <1>3, <1>4, <1>5, <1>6, <1>7 DEF IInv

-----------------------------------------------------------------------------
(* What a step may do to the host. *)

\* The effects a step can have on the process table: none, a sleep, one
\* SIGKILL, an accepted poweroff, a launch, or a move of the host's own.
HostEffect ==
  \/ UNCHANGED hostVars
  \/ pc \in {"sd_grace", "sd_verify"} /\ pc' = pc /\ polls' = polls + 1
       /\ target' = target /\ PollSleep /\ UNCHANGED <<owner, st, sigkilled>>
  \/ pc \in {"pf_kill", "sd_kill"} /\ pc' = pc /\ target' = target
       /\ (\E pid \in batch : pid > 0 /\ KillPid(pid)) /\ UNCHANGED <<owner, age>>
  \/ pc = "sd_off" /\ pc' = "sd_grace" /\ polls' = 0 /\ target' = target
       /\ ep # NoEndpoint /\ st[ep] = "up"
       /\ st' = [st EXCEPT ![ep] = "halting"] /\ UNCHANGED <<owner, age, sigkilled>>
  \/ ChildLaunches
  \/ HostStep /\ UNCHANGED <<sdVars, fleetVars>>

\* Every step of the program treats the process table in one of the ways of HostEffect.
LEMMA HostEffects == TypeOK /\ [Next]_vars => HostEffect
<1> SUFFICES ASSUME TypeOK, [Next]_vars PROVE HostEffect
  OBVIOUS
<1>a. batch \subseteq Pids \cup {Unknown} /\ Unknown = -1
  BY DEF TypeOK, SdTypeOK, Unknown
<1>1. CASE Preflight \/ PreflightRecount \/ StartBuild
  BY <1>1 DEF HostEffect, Preflight, PreflightRecount, StartBuild, hostVars
<1>2. CASE PreflightKill
  BY <1>2, <1>a DEF HostEffect, PreflightKill, hostVars
<1>3. CASE ChildLaunches
  BY <1>3 DEF HostEffect
<1>4. CASE Phase1
  BY <1>4 DEF HostEffect, Phase1, Phase1Ok, Phase1Failed, Phase1Timeout, Abort, hostVars
<1>5. CASE Phase2
  BY <1>5 DEF HostEffect, Phase2, SshKeyMissing, SshKeyFound, Discover, NoPort, SshReachable,
     SshUnreachable, CloudInitVerdict, Abort, hostVars
<1>6. CASE CleanupStarted \/ CleanupNotStarted \/ ShutdownReturned
  BY <1>6 DEF HostEffect, CleanupStarted, CleanupNotStarted, ShutdownReturned, hostVars
<1>7. CASE SdStep
  BY <1>7, SdEffects, SdTypeStep DEF TypeOK, HostEffect, SdEffect
<1>8. CASE BuildReturns \/ BuildRaises \/ FleetDone
  BY <1>8 DEF HostEffect, BuildReturns, BuildRaises, FleetDone, hostVars
<1>9. CASE HostStep /\ UNCHANGED <<sdVars, fleetVars>>
  BY <1>9 DEF HostEffect
<1>10. CASE Interrupt
  BY <1>10 DEF HostEffect, Interrupt, InterruptTry, InterruptElsewhere, hostVars
<1>11. CASE UNCHANGED vars
  BY <1>11 DEF HostEffect, vars, shutdownVars, hostVars
<1> QED
  BY <1>1, <1>2, <1>3, <1>4, <1>5, <1>6, <1>7, <1>8, <1>9, <1>10, <1>11
     DEF Next, FleetStep, Cleanup

\* No step but the launch of phase 1 makes a process out of nothing.
LEMMA OnlyLaunchCreates == TypeOK /\ [Next]_vars => ChildLaunches \/ Shrinks
<1> SUFFICES ASSUME TypeOK, [Next]_vars, ~ChildLaunches PROVE Shrinks
  OBVIOUS
<1>a. st \in [Pids -> ProcStates] /\ ep \in Pids \cup {NoEndpoint}
  BY DEF TypeOK, HostTypeOK, SdTypeOK
<1> SUFFICES ASSUME NEW p \in Pids
             PROVE  /\ owner'[p] = owner[p]
                    /\ st[p] # "free" => st'[p] # "free"
                    /\ Alive(p)' => Alive(p)
                    /\ st'[p] = "launching" => st[p] = "launching"
  BY DEF Shrinks
<1> USE DEF Alive, Visible
<1>1. CASE UNCHANGED <<owner, st>>
  BY <1>1
<1>2. CASE UNCHANGED owner /\ \E pid \in batch : pid > 0 /\ KillPid(pid)
  BY <1>2, <1>a DEF KillPid, Signalled
<1>3. CASE UNCHANGED owner /\ ep # NoEndpoint /\ st[ep] = "up"
             /\ st' = [st EXCEPT ![ep] = "halting"]
  BY <1>3, <1>a
<1>4. CASE HostStep
  BY <1>4, <1>a DEF HostStep, LauncherExec, ProcExit
<1> QED
  BY <1>1, <1>2, <1>3, <1>4, HostEffects DEF HostEffect, hostVars

\* The process table keeps its types.
LEMMA HostTypeStep == TypeOK /\ [Next]_vars => HostTypeOK'
<1> SUFFICES ASSUME TypeOK, [Next]_vars PROVE HostTypeOK'
  OBVIOUS
<1>a. /\ HostTypeOK
      /\ batch \subseteq Pids \cup {Unknown}
      /\ target \in Distros
  BY DEF TypeOK, SdTypeOK
<1> USE <1>a DEF HostTypeOK
<1>1. CASE UNCHANGED hostVars
  BY <1>1 DEF hostVars
<1>2. CASE PollSleep /\ UNCHANGED <<owner, st, sigkilled>>
  BY <1>2 DEF PollSleep
<1>3. CASE (\E pid \in batch : pid > 0 /\ KillPid(pid)) /\ UNCHANGED <<owner, age>>
  BY <1>3 DEF KillPid, Signalled, ProcStates
<1>4. CASE st' = [st EXCEPT ![ep] = "halting"] /\ UNCHANGED <<owner, age, sigkilled>>
  BY <1>4 DEF ProcStates
<1>5. CASE ChildLaunches
  BY <1>5 DEF ChildLaunches, Spawn, ProcStates
<1>6. CASE HostStep
  BY <1>6 DEF HostStep, LauncherExec, ProcExit, ProcStates
<1> QED
  BY <1>1, <1>2, <1>3, <1>4, <1>5, <1>6, HostEffects DEF HostEffect


-----------------------------------------------------------------------------
(* What a step may do to the program's own state. *)

\* The part of TypeOK that speaks of shutdown_and_verify's variables and of pc.
LEMMA PointTypeStep == TypeOK /\ [Next]_vars => SdTypeOK' /\ pc' \in Points
<1> SUFFICES ASSUME TypeOK, [Next]_vars PROVE SdTypeOK' /\ pc' \in Points
  OBVIOUS
<1>a. SdTypeOK /\ pc \in Points
  BY DEF TypeOK
<1>b. ASSUME NEW x, Goto(x) PROVE SdTypeOK' /\ pc' = x
  BY <1>a, <1>b DEF SdTypeOK, Goto
<1>c. ASSUME UNCHANGED sdVars PROVE SdTypeOK' /\ pc' \in Points
  BY <1>a, <1>c DEF SdTypeOK, sdVars
<1> USE DEF Points, InTry, InFinally, Terminal
<1>1. CASE Preflight
  BY <1>1, <1>a, <1>b, LookTypes DEF Preflight, SdTypeOK
<1>2. CASE PreflightKill
  BY <1>2, <1>a DEF PreflightKill, SdTypeOK
<1>3. CASE PreflightRecount
  BY <1>3, <1>b DEF PreflightRecount
<1>4. CASE StartBuild
  <2>1. idx \in 1..Len(Order)
    <3>1. idx \in 1..(Len(Order) + 1) /\ idx <= Len(Order)
      BY <1>4 DEF StartBuild, TypeOK
    <3> QED
      BY <3>1, OrderLen
  <2>2. Order[idx] \in Distros
    BY <2>1, OrderLen
  <2> QED
    BY <1>4, <1>a, <2>2 DEF StartBuild, SdTypeOK, SdResults
<1>5. CASE ChildLaunches
  BY <1>5, <1>c DEF ChildLaunches
<1>6. CASE Phase1
  BY <1>6, <1>b DEF Phase1, Phase1Ok, Phase1Failed, Phase1Timeout, Abort
<1>7. CASE SshKeyFound
  BY <1>7, <1>a DEF SshKeyFound, SdTypeOK
<1>8. CASE Discover
  <2>1. \A r \in Pgrep({target}) : r.pids \subseteq Pids
    BY DEF Pgrep, PidsOf
  <2>2. PICK r \in Pgrep({target}) :
          \/ Goto("cleanup")
          \/ (\E p \in r.pids : ep' = p) /\ pc' = "reach" /\ UNCHANGED <<target, polls, batch, sdResult>>
          \/ polls' = polls + 1 /\ UNCHANGED <<pc, target, ep, batch, sdResult>>
    BY <1>8 DEF Discover
  <2>3. ep' \in Pids \/ ep' = ep \/ Goto("cleanup")
    BY <2>1, <2>2
  <2>4. CASE Goto("cleanup")
    BY <2>4, <1>b
  <2>5. CASE ~Goto("cleanup")
    <3>1. ep' \in Pids \cup {NoEndpoint} /\ UNCHANGED <<target, batch, sdResult>>
      BY <2>2, <2>3, <2>5, <1>a DEF SdTypeOK
    <3>2. polls' \in Nat
      BY <2>2, <2>5, <1>a DEF SdTypeOK
    <3>3. pc' = "reach" \/ pc' = pc
      BY <2>2, <2>5
    <3> QED
      BY <3>1, <3>2, <3>3, <1>a DEF SdTypeOK
  <2> QED
    BY <2>4, <2>5
<1>9. CASE SshKeyMissing \/ NoPort \/ SshReachable \/ SshUnreachable \/ CloudInitVerdict
  BY <1>9, <1>b DEF SshKeyMissing, NoPort, SshReachable, SshUnreachable, CloudInitVerdict, Abort
<1>10. CASE CleanupStarted \/ CleanupNotStarted \/ ShutdownReturned
  <2>1. CASE CleanupStarted
    BY <2>1, <1>b DEF CleanupStarted, SdPoints
  <2>2. CASE CleanupNotStarted
    BY <2>2, <1>b DEF CleanupNotStarted, SdPoints
  <2>3. CASE ShutdownReturned
    BY <2>3, <1>b DEF ShutdownReturned
  <2> QED
    BY <1>10, <2>1, <2>2, <2>3
<1>11. CASE SdStep
  BY <1>11, <1>a, SdTypeStep
<1>12. CASE BuildReturns \/ BuildRaises \/ FleetDone
  BY <1>12, <1>b DEF BuildReturns, BuildRaises, FleetDone
<1>13. CASE HostStep /\ UNCHANGED <<sdVars, fleetVars>>
  BY <1>13, <1>c
<1>14. CASE Interrupt
  BY <1>14, <1>b DEF Interrupt, InterruptTry, InterruptElsewhere
<1>15. CASE UNCHANGED vars
  BY <1>15, <1>c DEF vars, shutdownVars
<1> QED
  BY <1>1, <1>2, <1>3, <1>4, <1>5, <1>6, <1>7, <1>8, <1>9, <1>10, <1>11, <1>12, <1>13, <1>14, <1>15
     DEF Next, FleetStep, Cleanup, Phase2

\* The part of TypeOK that speaks of the fleet's variables.
FleetTypeOK ==
  /\ idx \in 1..(Len(Order) + 1)
  /\ child \in ChildStates
  /\ vmStarted \in BOOLEAN
  /\ ciOk \in BOOLEAN
  /\ reason \in Reasons
  /\ propagating \in BOOLEAN
  /\ verdict \in [Distros -> Verdicts]
  /\ failed \subseteq 1..Len(Order)
  /\ strays \subseteq Distros
  /\ interrupts \in 0..MaxInterrupts

\* So do the variables of main and build_and_provision.
LEMMA FleetTypeStep == TypeOK /\ Control /\ [Next]_vars => FleetTypeOK'
<1> SUFFICES ASSUME TypeOK, Control, [Next]_vars PROVE FleetTypeOK'
  OBVIOUS
<1>a. FleetTypeOK /\ target \in Distros
  BY DEF TypeOK, FleetTypeOK, SdTypeOK
<1>b. ASSUME UNCHANGED fleetVars PROVE FleetTypeOK'
  BY <1>a, <1>b DEF FleetTypeOK, fleetVars, buildVars, resultVars
<1>c. ASSUME UNCHANGED <<idx, resultVars, interrupts>>,
             child' \in ChildStates, vmStarted' \in BOOLEAN, ciOk' \in BOOLEAN,
             reason' \in Reasons, propagating' \in BOOLEAN
      PROVE  FleetTypeOK'
  BY <1>a, <1>c DEF FleetTypeOK, resultVars
<1>d. /\ child \in ChildStates /\ vmStarted \in BOOLEAN /\ ciOk \in BOOLEAN
      /\ reason \in Reasons /\ propagating \in BOOLEAN
  BY <1>a DEF FleetTypeOK
<1>1. CASE Preflight \/ PreflightKill \/ PreflightRecount
  BY <1>1, <1>b DEF Preflight, PreflightKill, PreflightRecount, fleetVars, buildVars, resultVars
<1>2. CASE StartBuild
  <2>1. Order[idx] \in Distros
    <3>1. idx \in 1..(Len(Order) + 1) /\ idx <= Len(Order)
      BY <1>2, <1>a DEF StartBuild, FleetTypeOK
    <3> QED
      BY <3>1, OrderLen
  <2>2. /\ child' \in ChildStates /\ vmStarted' \in BOOLEAN /\ ciOk' \in BOOLEAN
        /\ reason' \in Reasons /\ propagating' \in BOOLEAN
    BY <1>2, <1>d DEF StartBuild, ChildStates, Reasons
  <2>3. verdict' \in [Distros -> Verdicts] /\ strays' \subseteq Distros
    BY <1>2, <1>a, <2>1 DEF StartBuild, FleetTypeOK, Verdicts
  <2> QED
    BY <1>2, <1>a, <2>2, <2>3 DEF StartBuild, FleetTypeOK
<1>3. CASE ChildLaunches
  BY <1>3, <1>c, <1>d DEF ChildLaunches, ChildStates
<1>4. CASE Phase1
  BY <1>4, <1>c, <1>d
     DEF Phase1, Phase1Ok, Phase1Failed, Phase1Timeout, Abort, ChildStates, Reasons
<1>5. CASE SshKeyMissing \/ SshKeyFound \/ NoPort \/ SshReachable \/ SshUnreachable
  BY <1>5, <1>b, <1>c, <1>d
     DEF SshKeyMissing, SshKeyFound, NoPort, SshReachable, SshUnreachable, Abort, Reasons
<1>6. CASE Discover
  BY <1>6, <1>c, <1>d DEF Discover
<1>7. CASE CloudInitVerdict
  BY <1>7, <1>c, <1>d DEF CloudInitVerdict, Reasons
<1>8. CASE CleanupStarted \/ CleanupNotStarted \/ ShutdownReturned
  BY <1>8, <1>b, <1>c, <1>d DEF CleanupStarted, CleanupNotStarted, ShutdownReturned
<1>9. CASE SdStep /\ UNCHANGED fleetVars
  BY <1>9, <1>b
<1>10. CASE BuildReturns
  <2>1. Classify \in Verdicts
    BY <1>d DEF Classify, Verdicts
  <2>2. idx \in 1..Len(Order)
    BY <1>10, <1>a, OrderLen DEF BuildReturns, Control, Building, FleetTypeOK
  <2>3. verdict' \in [Distros -> Verdicts]
    BY <1>10, <1>a, <2>1 DEF BuildReturns, FleetTypeOK
  <2>4. failed' \subseteq 1..Len(Order) /\ idx' \in 1..(Len(Order) + 1)
    BY <1>10, <1>a, <2>2, OrderLen DEF BuildReturns, FailedNow, FleetTypeOK
  <2> QED
    BY <1>10, <1>a, <2>3, <2>4 DEF BuildReturns, FleetTypeOK
<1>11. CASE BuildRaises \/ FleetDone
  BY <1>11, <1>b DEF BuildRaises, FleetDone
<1>12. CASE HostStep /\ UNCHANGED <<sdVars, fleetVars>>
  BY <1>12, <1>b
<1>13. CASE Interrupt
  <2>1. interrupts' \in 0..MaxInterrupts
    BY <1>13, <1>a DEF Interrupt, FleetTypeOK
  <2>2. UNCHANGED <<idx, resultVars>>
    BY <1>13 DEF Interrupt, InterruptTry, InterruptElsewhere, buildVars
  <2>3. /\ child' \in ChildStates /\ vmStarted' \in BOOLEAN /\ ciOk' \in BOOLEAN
        /\ reason' \in Reasons /\ propagating' \in BOOLEAN
    BY <1>13, <1>d DEF Interrupt, InterruptTry, InterruptElsewhere, buildVars, ChildStates
  <2> QED
    BY <1>a, <2>1, <2>2, <2>3 DEF FleetTypeOK, resultVars
<1>14. CASE UNCHANGED vars
  BY <1>14, <1>b DEF vars
<1> QED
  BY <1>1, <1>2, <1>3, <1>4, <1>5, <1>6, <1>7, <1>8, <1>9, <1>10, <1>11, <1>12, <1>13, <1>14
     DEF Next, FleetStep, Cleanup, Phase2

\* TypeOK is preserved, given the control points.
LEMMA TypeStep == TypeOK /\ Control /\ [Next]_vars => TypeOK'
  BY HostTypeStep, PointTypeStep, FleetTypeStep DEF TypeOK, FleetTypeOK

\* Control is preserved.
LEMMA ControlStep == TypeOK /\ Control /\ [Next]_vars => Control'
<1> SUFFICES ASSUME TypeOK, Control, [Next]_vars PROVE Control'
  OBVIOUS
<1>a. /\ pc \in Points
      /\ target \in Distros /\ ep \in Pids \cup {NoEndpoint}
      /\ verdict \in [Distros -> Verdicts]
  BY DEF TypeOK, SdTypeOK
<1> DEFINE PcFacts == <<pc, ep, target, sdResult, idx, child, vmStarted, ciOk, verdict>>
<1>b. UNCHANGED PcFacts => Control'
  BY DEF Control, InPhase2, InTry, Building, InFinally
<1> HIDE DEF PcFacts
<1> USE DEF InPhase2, InTry, InFinally, SdPoints
<1>1. CASE Preflight \/ PreflightKill \/ PreflightRecount
  BY <1>1 DEF Preflight, PreflightKill, PreflightRecount, Goto, Control, Building,
     fleetVars, buildVars, resultVars
<1>2. CASE StartBuild
  <2>1. idx \in 1..(Len(Order) + 1) /\ idx <= Len(Order)
    BY <1>2 DEF StartBuild, TypeOK
  <2>2. Order[idx] \in Distros
    BY <2>1, OrderLen
  <2>3. /\ target' = Order[idx] /\ idx' = idx /\ pc' = "phase1" /\ ciOk' = FALSE
        /\ ep' = NoEndpoint /\ sdResult' = "none"
        /\ verdict' = [verdict EXCEPT ![Order[idx]] = "pending"]
    BY <1>2 DEF StartBuild
  <2>4. verdict'[Order[idx]] = "pending"
    BY <1>a, <2>2, <2>3
  <2> QED
    BY <2>1, <2>3, <2>4 DEF Control, Building
<1>3. CASE ChildLaunches
  BY <1>3 DEF ChildLaunches, Control, Building, sdVars, resultVars
<1>4. CASE Phase1
  BY <1>4 DEF Phase1, Phase1Ok, Phase1Failed, Phase1Timeout, Abort, Goto, Control, Building, resultVars
<1>5. CASE SshKeyMissing \/ SshKeyFound \/ NoPort \/ SshReachable \/ SshUnreachable
  BY <1>5 DEF SshKeyMissing, SshKeyFound, NoPort, SshReachable, SshUnreachable, Abort, Goto,
     Control, Building, fleetVars, buildVars, resultVars
<1>6. CASE Discover
  <2>1. \A r \in Pgrep({target}) : r.pids \subseteq Pids
    BY DEF Pgrep, PidsOf
  <2>2. /\ pc = "discover"
        /\ \/ pc' \in {"cleanup", "discover"} /\ ep' = ep
           \/ pc' = "reach" /\ ep' \in Pids
        /\ UNCHANGED <<target, sdResult, idx, child, vmStarted, ciOk, verdict>>
    <3>1. PICK r \in Pgrep({target}) :
            \/ Goto("cleanup")
            \/ (\E p \in r.pids : ep' = p) /\ pc' = "reach" /\ UNCHANGED <<target, sdResult>>
            \/ UNCHANGED <<pc, target, ep, sdResult>>
      BY <1>6 DEF Discover
    <3>2. \/ pc' = "cleanup" /\ UNCHANGED <<target, ep, sdResult>>
          \/ ep' \in Pids /\ pc' = "reach" /\ UNCHANGED <<target, sdResult>>
          \/ UNCHANGED <<pc, target, ep, sdResult>>
      BY <3>1, <2>1 DEF Goto
    <3>3. pc = "discover" /\ UNCHANGED <<idx, child, vmStarted, ciOk, verdict>>
      BY <1>6 DEF Discover, resultVars
    <3> QED
      BY <3>2, <3>3
  <2> QED
    BY <2>2, PidsPositive DEF Control, Building
<1>7. CASE CloudInitVerdict
  BY <1>7 DEF CloudInitVerdict, Goto, Control, Building, resultVars
<1>8. CASE CleanupStarted \/ CleanupNotStarted \/ ShutdownReturned
  BY <1>8 DEF CleanupStarted, CleanupNotStarted, ShutdownReturned, Goto, Control, Building,
     fleetVars, buildVars, resultVars
<1>9. CASE SdStep /\ UNCHANGED fleetVars
  <2>1. SdTypeOK
    BY DEF TypeOK
  <2>2. pc' \in SdPoints /\ target' = target /\ ep' = ep
    BY <1>9, <2>1, SdTypeStep
  <2>3. pc \in SdPoints
    BY <1>9 DEF SdStep, SdPowerOff, SdGrace, SdGraceOver, SdRound, SdRoundsOver, SdKill,
       SdRoundEnd, SdVerify, SdVerifyOver
  <2> QED
    BY <1>9, <2>2, <2>3 DEF Control, Building, fleetVars, buildVars, resultVars
<1>10. CASE BuildReturns \/ BuildRaises \/ FleetDone
  BY <1>10 DEF BuildReturns, BuildRaises, FleetDone, Goto, Control, Building,
     fleetVars, buildVars, resultVars
<1>11. CASE HostStep /\ UNCHANGED <<sdVars, fleetVars>>
  BY <1>11, <1>b DEF PcFacts, sdVars, fleetVars, buildVars, resultVars
<1>12. CASE Interrupt
  BY <1>12 DEF Interrupt, InterruptTry, InterruptElsewhere, Goto, Control, Building, Terminal,
     buildVars, resultVars
<1>13. CASE UNCHANGED vars
  BY <1>13, <1>b DEF PcFacts, vars, shutdownVars, sdVars, fleetVars, buildVars, resultVars
<1> QED
  BY <1>1, <1>2, <1>3, <1>4, <1>5, <1>6, <1>7, <1>8, <1>9, <1>10, <1>11, <1>12, <1>13
     DEF Next, FleetStep, Cleanup, Phase2

\* What every step but the first and the last of a build leaves alone.
SameBuild ==
  /\ UNCHANGED <<idx, verdict, failed, strays, target>>
  /\ Building' => Building
  /\ Building => Building' \/ pc' = "aborted"
  /\ pc = "aborted" => pc' = "aborted"
  /\ child' = "building" => child = "building"
  /\ ep' = ep \/ Discover
  /\ sdResult' = "ok" => sdResult = "ok" \/ (SdStep /\ UNCHANGED fleetVars)

\* Only StartBuild and BuildReturns change what the fleet knows of its builds.
LEMMA Frames == TypeOK /\ Control /\ [Next]_vars => StartBuild \/ BuildReturns \/ SameBuild
<1> SUFFICES ASSUME TypeOK, Control, [Next]_vars, ~StartBuild, ~BuildReturns PROVE SameBuild
  OBVIOUS
<1> USE DEF InTry, InFinally, SdPoints, Building, resultVars, buildVars, fleetVars
<1>1. CASE Preflight \/ PreflightKill \/ PreflightRecount
  BY <1>1 DEF Preflight, PreflightKill, PreflightRecount, Goto, SameBuild
<1>2. CASE ChildLaunches
  BY <1>2 DEF ChildLaunches, SameBuild, sdVars
<1>3. CASE Phase1
  BY <1>3 DEF Phase1, Phase1Ok, Phase1Failed, Phase1Timeout, Abort, Goto, SameBuild
<1>4. CASE SshKeyMissing \/ SshKeyFound \/ NoPort \/ SshReachable \/ SshUnreachable
  BY <1>4 DEF SshKeyMissing, SshKeyFound, NoPort, SshReachable, SshUnreachable, Abort, Goto, SameBuild
<1>5. CASE Discover \/ CloudInitVerdict
  BY <1>5 DEF Discover, CloudInitVerdict, Goto, SameBuild
<1>6. CASE CleanupStarted \/ CleanupNotStarted \/ ShutdownReturned
  BY <1>6 DEF CleanupStarted, CleanupNotStarted, ShutdownReturned, Goto, SameBuild
<1>7. CASE SdStep /\ UNCHANGED fleetVars
  <2>1. SdTypeOK
    BY DEF TypeOK
  <2>2. pc' \in SdPoints /\ target' = target /\ ep' = ep
    BY <1>7, <2>1, SdTypeStep
  <2>3. pc \in SdPoints
    BY <1>7 DEF SdStep, SdPowerOff, SdGrace, SdGraceOver, SdRound, SdRoundsOver, SdKill,
       SdRoundEnd, SdVerify, SdVerifyOver
  <2> QED
    BY <1>7, <2>2, <2>3 DEF SameBuild
<1>8. CASE BuildRaises \/ FleetDone
  BY <1>8 DEF BuildRaises, FleetDone, Goto, SameBuild
<1>9. CASE UNCHANGED <<sdVars, fleetVars>>
  BY <1>9 DEF SameBuild, sdVars
<1>10. CASE Interrupt
  BY <1>10 DEF Interrupt, InterruptTry, InterruptElsewhere, Goto, SameBuild, Terminal
<1> QED
  BY <1>1, <1>2, <1>3, <1>4, <1>5, <1>6, <1>7, <1>8, <1>9, <1>10
     DEF Next, FleetStep, Cleanup, Phase2, vars, shutdownVars

-----------------------------------------------------------------------------
(* The parts of the invariant that speak of the host. *)

\* A launch creates one process of the directory being built, and touches no
\* process that was not free.
LEMMA Launch ==
  ASSUME TypeOK, ChildLaunches
  PROVE  \E p \in Pids :
           /\ st[p] = "free" /\ owner'[p] = target
           /\ st'[p] \in {"up", "gone", "launching"}
           /\ \A q \in Pids \ {p} : st'[q] = st[q] /\ owner'[q] = owner[q]
<1>1. owner \in [Pids -> Distros \cup {Foreign}] /\ st \in [Pids -> ProcStates]
  BY DEF TypeOK, HostTypeOK
<1>2. PICK p \in Pids :
        /\ st[p] = "free"
        /\ owner' = [owner EXCEPT ![p] = target]
        /\ \E s \in {"up", "gone", "launching"} : st' = [st EXCEPT ![p] = s]
  BY DEF ChildLaunches, Spawn
<1> QED
  BY <1>1, <1>2

\* Discover, when it finds an endpoint, has seen a process of the target.
LEMMA DiscoverSees ==
  ASSUME Discover, ep' # ep
  PROVE  /\ ep' \in PidsOf({target})
         /\ UNCHANGED <<hostVars, target, child, resultVars, sdResult>>
<1>1. PICK r \in Pgrep({target}) :
        \/ Goto("cleanup")
        \/ (\E p \in r.pids : ep' = p) /\ UNCHANGED <<target, sdResult>>
        \/ UNCHANGED <<target, ep, sdResult>>
  BY DEF Discover
<1>2. r.pids \subseteq PidsOf({target})
  BY DEF Pgrep
<1>3. ep' \in PidsOf({target}) /\ UNCHANGED <<target, sdResult>>
  BY <1>1, <1>2 DEF Goto
<1>4. UNCHANGED <<hostVars, child, resultVars>>
  BY DEF Discover
<1> QED
  BY <1>3, <1>4

\* OneLaunch is preserved.
LEMMA OneLaunchStep == TypeOK /\ Control /\ OneLaunch /\ [Next]_vars => OneLaunch'
<1> SUFFICES ASSUME TypeOK, Control, OneLaunch, [Next]_vars,
                    Building', target' \notin strays'
             PROVE  /\ (child = "building" => NoneAlive(target))'
                    /\ \A p, q \in Pids :
                         owner'[p] = target' /\ owner'[q] = target' /\ Alive(p)' /\ Alive(q)' => p = q
                    /\ ep' # NoEndpoint =>
                         \A p \in Pids : owner'[p] = target' => st'[p] # "launching"
                    /\ ep' # NoEndpoint /\ sdResult' = "ok" => NoneAlive(target)'
  BY DEF OneLaunch, NoEndpoint
<1>1. CASE StartBuild
  <2>1. /\ UNCHANGED <<owner, st>> /\ ep' = NoEndpoint
        /\ target' = Order[idx]
        /\ strays' = IF NoneAlive(Order[idx]) THEN strays \ {Order[idx]} ELSE strays \cup {Order[idx]}
    BY <1>1 DEF StartBuild, hostVars
  <2>2. NoneAlive(target')
    BY <2>1
  <2>3. \A p \in Pids : owner'[p] = target' => ~Alive(p)'
    BY <2>1, <2>2 DEF NoneAlive, Alive, Visible
  <2> QED
    BY <2>1, <2>3 DEF NoneAlive
<1>2. CASE BuildReturns
  BY <1>2 DEF BuildReturns, Goto, Building, InTry, InFinally, SdPoints
<1>3. CASE SameBuild /\ ChildLaunches
  <2>1. Building /\ target \notin strays /\ target' = target
    BY <1>3 DEF SameBuild
  <2>2. /\ child = "building" /\ child' = "launched"
        /\ ep' = ep
    BY <1>3 DEF ChildLaunches, sdVars
  <2>3. NoneAlive(target) /\ ep = NoEndpoint
    BY <2>1, <2>2 DEF OneLaunch, Control
  <2>4. PICK p \in Pids :
           /\ st[p] = "free" /\ owner'[p] = target
           /\ \A q \in Pids \ {p} : st'[q] = st[q] /\ owner'[q] = owner[q]
    BY <1>3, Launch
  <2>5. \A q \in Pids \ {p} : owner'[q] = target => ~Alive(q)'
    BY <2>3, <2>4 DEF NoneAlive, Alive, Visible
  <2> QED
    BY <2>1, <2>2, <2>3, <2>5
<1>4. CASE SameBuild /\ Shrinks
  <2>1. Building /\ target \notin strays /\ target' = target
    BY <1>4 DEF SameBuild
  <2>2. \A p \in Pids : /\ owner'[p] = owner[p] /\ (Alive(p)' => Alive(p))
                        /\ (st'[p] = "launching" => st[p] = "launching")
    BY <1>4 DEF Shrinks
  <2>3. child' = "building" => NoneAlive(target)'
    BY <1>4, <2>1, GoneStaysGone DEF SameBuild, OneLaunch
  <2>4. \A p, q \in Pids :
           owner'[p] = target /\ owner'[q] = target /\ Alive(p)' /\ Alive(q)' => p = q
    BY <2>1, <2>2 DEF OneLaunch
  <2>5. CASE ep' = ep
    <3>1. ep # NoEndpoint => \A p \in Pids : owner'[p] = target => st'[p] # "launching"
      BY <2>1, <2>2 DEF OneLaunch
    <3>2. ASSUME ep # NoEndpoint, sdResult' = "ok" PROVE NoneAlive(target)'
      <4>1. CASE sdResult = "ok"
        BY <3>2, <4>1, <2>1, <1>4, GoneStaysGone DEF OneLaunch
      <4>2. CASE sdResult # "ok"
        <5>1. PidsOf({target}) = {} /\ UNCHANGED hostVars
          BY <1>4, <3>2, <4>2, OkMeansUnseen DEF SameBuild
        <5>2. \A p \in Pids : owner[p] = target => ~Visible(p) /\ st[p] # "launching"
          BY <5>1, <3>2, <2>1 DEF OneLaunch, PidsOf
        <5>3. NoneAlive(target)
          BY <5>2 DEF NoneAlive, Alive
        <5> QED
          BY <5>3, <2>1, <1>4, GoneStaysGone
      <4> QED
        BY <4>1, <4>2
    <3> QED
      BY <2>1, <2>3, <2>4, <2>5, <3>1, <3>2
  <2>6. CASE ep' # ep
    <3>1. Discover
      BY <1>4, <2>6 DEF SameBuild
    <3>2. /\ ep' \in PidsOf({target})
          /\ UNCHANGED <<owner, st, sdResult>>
      BY <3>1, <2>6, DiscoverSees DEF hostVars
    <3>3. ep' \in Pids /\ owner[ep'] = target /\ Alive(ep') /\ st[ep'] # "launching"
      BY <3>2 DEF PidsOf, Alive, Visible
    <3>4. ASSUME NEW p \in Pids, owner[p] = target PROVE st[p] # "launching"
      <4>1. Alive(p) => p = ep'
        BY <2>1, <3>3, <3>4 DEF OneLaunch
      <4> QED
        BY <4>1, <3>3 DEF Alive
    <3>5. sdResult' # "ok"
      BY <3>1, <3>2 DEF Discover, Control, InTry
    <3> QED
      BY <2>1, <2>3, <2>4, <3>2, <3>4, <3>5
  <2> QED
    BY <2>5, <2>6
<1> QED
  BY <1>1, <1>2, <1>3, <1>4, Frames, OnlyLaunchCreates

\* A build that ends as a success has a dead VM.
LEMMA SuccessStep ==
  TypeOK /\ Control /\ OneLaunch /\ SuccessMeansGone /\ [Next]_vars => SuccessMeansGone'
<1> SUFFICES ASSUME TypeOK, Control, OneLaunch, SuccessMeansGone, [Next]_vars,
                    NEW d \in Distros, verdict'[d] = "success", d \notin strays'
             PROVE  NoneAlive(d)'
  BY DEF SuccessMeansGone
<1>a. verdict \in [Distros -> Verdicts] /\ reason \in Reasons
  BY DEF TypeOK
<1>1. CASE StartBuild
  <2>1. /\ UNCHANGED <<owner, st>>
        /\ verdict' = [verdict EXCEPT ![Order[idx]] = "pending"]
        /\ strays' = IF NoneAlive(Order[idx]) THEN strays \ {Order[idx]} ELSE strays \cup {Order[idx]}
    BY <1>1 DEF StartBuild, hostVars
  <2>2. d # Order[idx]
    BY <2>1, <1>a
  <2>3. verdict[d] = "success" /\ d \notin strays
    BY <2>1, <2>2, <1>a
  <2>4. NoneAlive(d)
    BY <2>3 DEF SuccessMeansGone
  <2> QED
    BY <2>1, <2>4 DEF NoneAlive, Alive, Visible
<1>2. CASE BuildReturns
  <2>1. /\ UNCHANGED <<owner, st, strays>>
        /\ verdict' = [verdict EXCEPT ![target] = Classify]
        /\ pc = "return"
    BY <1>2 DEF BuildReturns, hostVars
  <2>2. CASE d = target
    <3>1. Classify = "success"
      BY <2>1, <2>2, <1>a
    <3>2. ciOk /\ ShutdownOk
      BY <3>1, <1>a DEF Classify, Reasons
    <3>3. Building
      BY <2>1 DEF Building
    <3>4. ep # NoEndpoint /\ sdResult = "ok"
      BY <3>2, <3>3 DEF Control, ShutdownOk
    <3>5. NoneAlive(d)
      BY <3>3, <3>4, <2>1, <2>2 DEF OneLaunch
    <3> QED
      BY <3>5, <2>1 DEF NoneAlive, Alive, Visible
  <2>3. CASE d # target
    <3>1. NoneAlive(d)
      BY <2>1, <2>3, <1>a DEF SuccessMeansGone
    <3> QED
      BY <3>1, <2>1 DEF NoneAlive, Alive, Visible
  <2> QED
    BY <2>2, <2>3
<1>3. CASE SameBuild
  <2>1. NoneAlive(d)
    BY <1>3 DEF SameBuild, SuccessMeansGone
  <2>2. CASE Shrinks
    BY <2>1, <2>2, GoneStaysGone
  <2>3. CASE ChildLaunches
    <3>1. d # target
      <4>1. Building /\ verdict[target] = "pending"
        BY <2>3 DEF ChildLaunches, Control, Building, InTry
      <4> QED
        BY <4>1, <1>3 DEF SameBuild
    <3>2. PICK p \in Pids :
             /\ owner'[p] = target
             /\ \A q \in Pids \ {p} : st'[q] = st[q] /\ owner'[q] = owner[q]
      BY <2>3, Launch
    <3> QED
      BY <2>1, <3>1, <3>2 DEF NoneAlive, Alive, Visible
  <2> QED
    BY <2>2, <2>3, OnlyLaunchCreates
<1> QED
  BY <1>1, <1>2, <1>3, Frames

\* As long as nothing has failed, everything has succeeded.
LEMMA SoFarStep ==
  TypeOK /\ Control /\ SuccessSoFar /\ [Next]_vars => SuccessSoFar'
<1> SUFFICES ASSUME TypeOK, Control, SuccessSoFar, [Next]_vars,
                    failed' = {}, pc' # "aborted",
                    NEW i \in 1..(idx' - 1)
             PROVE  verdict'[Order[i]] = "success" \/ (Building' /\ Order[i] = target')
  BY DEF SuccessSoFar
<1>a. verdict \in [Distros -> Verdicts] /\ target \in Distros
  BY DEF TypeOK, SdTypeOK
<1>b. idx \in 1..(Len(Order) + 1)
  BY DEF TypeOK
<1>1. CASE StartBuild
  <2>1. /\ failed' = failed /\ idx' = idx /\ target' = Order[idx] /\ pc' = "phase1"
        /\ pc = "next" /\ verdict' = [verdict EXCEPT ![Order[idx]] = "pending"]
    BY <1>1 DEF StartBuild
  <2>2. ~Building /\ Building'
    BY <2>1 DEF Building, InTry, InFinally, SdPoints
  <2>3. verdict[Order[i]] = "success"
    BY <2>1, <2>2 DEF SuccessSoFar
  <2>4. Order[i] = Order[idx] \/ verdict'[Order[i]] = verdict[Order[i]]
    BY <2>1, <1>a, <1>b, OrderLen
  <2> QED
    BY <2>1, <2>2, <2>3, <2>4
<1>2. CASE BuildReturns
  <2>1. /\ pc = "return" /\ idx' = idx + 1
        /\ verdict' = [verdict EXCEPT ![target] = Classify]
        /\ failed' = IF Classify = "success" THEN failed ELSE failed \cup {idx}
    BY <1>2 DEF BuildReturns, FailedNow
  <2>2. Classify = "success" /\ failed = {}
    BY <2>1
  <2>3. target = Order[idx]
    BY <2>1 DEF Control, Building
  <2>4. i \in 1..(idx - 1) \/ i = idx
    BY <2>1, <1>b, OrderLen
  <2>5. i \in 1..(idx - 1) => verdict[Order[i]] = "success" \/ Order[i] = target
    BY <2>1, <2>2 DEF SuccessSoFar
  <2>6. Order[i] # target => verdict'[Order[i]] = verdict[Order[i]]
    BY <2>1, <1>a
  <2>7. verdict'[target] = "success"
    BY <2>1, <2>2, <1>a
  <2> QED
    BY <2>3, <2>4, <2>5, <2>6, <2>7
<1>3. CASE SameBuild
  BY <1>3 DEF SameBuild, SuccessSoFar
<1> QED
  BY <1>1, <1>2, <1>3, Frames

-----------------------------------------------------------------------------
(* The kill loops. *)

\* Where the list of a kill loop comes from.
LEMMA BatchSources ==
  ASSUME TypeOK, Control, [Next]_vars
  PROVE  \/ Preflight /\ pc' = "pf_kill" /\ batch' \ {Unknown} \subseteq PidsOf(Distros)
         \/ SdRound /\ UNCHANGED <<hostVars, target>>
              /\ batch' \ {Unknown} \subseteq PidsOf({target})
         \/ /\ batch' \subseteq batch
            /\ pc' = "sd_kill" => pc = "sd_kill" /\ target' = target
<1>a. ASSUME NEW S, NEW r \in QemuPids(S) PROVE r.pids \ {Unknown} \subseteq PidsOf(S)
  BY <1>a DEF QemuPids, Pgrep
<1>1. CASE Preflight
  <2>1. Goto("aborted") \/ (pc' = "pf_kill" /\ \E r \in QemuPids(Distros) : batch' = r.pids)
    BY <1>1 DEF Preflight
  <2> QED
    BY <1>1, <2>1, <1>a DEF Goto
<1>2. CASE SdRound
  <2>1. PICK r \in QemuPids({target}) :
          \/ (Finish("raised") \/ NextStage("sd_verify"))
          \/ batch' = r.pids /\ UNCHANGED <<hostVars, target>>
    BY <1>2 DEF SdRound
  <2>2. CASE Finish("raised") \/ NextStage("sd_verify")
    BY <2>2 DEF Finish, NextStage
  <2>3. CASE batch' = r.pids /\ UNCHANGED <<hostVars, target>>
    BY <1>2, <2>3, <1>a
  <2> QED
    BY <2>1, <2>2, <2>3
<1>3. CASE SdStep /\ ~SdRound
  <2>1. CASE SdPowerOff \/ SdGraceOver \/ SdRoundsOver \/ SdRoundEnd \/ SdVerifyOver
    BY <2>1 DEF SdPowerOff, SdGraceOver, SdRoundsOver, SdRoundEnd, SdVerifyOver, NextStage, Finish
  <2>2. CASE SdGrace \/ SdVerify
    <3>1. (pc' \in {"sd_done", pc}) /\ batch' = batch /\ pc # "sd_kill"
      BY <2>2 DEF SdGrace, SdVerify, Poll, Finish
    <3> QED
      BY <3>1
  <2>3. CASE SdKill
    BY <2>3 DEF SdKill
  <2> QED
    BY <1>3, <2>1, <2>2, <2>3 DEF SdStep
<1>4. CASE PreflightKill \/ PreflightRecount
  BY <1>4 DEF PreflightKill, PreflightRecount, Goto
<1>5. CASE StartBuild \/ BuildReturns \/ BuildRaises \/ FleetDone
  BY <1>5 DEF StartBuild, BuildReturns, BuildRaises, FleetDone, Goto
<1>6. CASE Phase1
  BY <1>6 DEF Phase1, Phase1Ok, Phase1Failed, Phase1Timeout, Abort, Goto
<1>7. CASE Phase2
  BY <1>7 DEF Phase2, SshKeyMissing, SshKeyFound, Discover, NoPort, SshReachable,
     SshUnreachable, CloudInitVerdict, Abort, Goto
<1>8. CASE CleanupStarted \/ CleanupNotStarted \/ ShutdownReturned
  BY <1>8 DEF CleanupStarted, CleanupNotStarted, ShutdownReturned, Goto
<1>9. CASE UNCHANGED sdVars
  BY <1>9 DEF sdVars
<1>10. CASE Interrupt
  BY <1>10 DEF Interrupt, InterruptTry, InterruptElsewhere, Goto
<1> QED
  BY <1>1, <1>2, <1>3, <1>4, <1>5, <1>6, <1>7, <1>8, <1>9, <1>10
     DEF Next, FleetStep, Cleanup, ChildLaunches, vars, shutdownVars

\* What the kill loops hold and what they have hit stays within the fleet.
LEMMA KillsStep ==
  TypeOK /\ Control /\ KillsAreOurs /\ [Next]_vars => KillsAreOurs'
<1> SUFFICES ASSUME TypeOK, Control, KillsAreOurs, [Next]_vars PROVE KillsAreOurs'
  OBVIOUS
<1>a. batch \subseteq Pids \cup {Unknown} /\ Unknown \notin Pids /\ sigkilled \subseteq Pids
  BY PidsPositive DEF TypeOK, SdTypeOK, HostTypeOK
<1>1. ASSUME NEW p \in Pids, st[p] # "free"
      PROVE  owner'[p] = owner[p] /\ st'[p] # "free"
  <2>1. CASE Shrinks
    BY <1>1, <2>1 DEF Shrinks
  <2>2. CASE ChildLaunches
    BY <1>1, <2>2, Launch
  <2> QED
    BY <2>1, <2>2, OnlyLaunchCreates
<1>2. \A p \in sigkilled' : owner'[p] # Foreign /\ st'[p] # "free"
  <2>1. CASE sigkilled' = sigkilled
    BY <1>1, <1>a, <2>1 DEF KillsAreOurs
  <2>2. ASSUME NEW pid \in batch, pid > 0, KillPid(pid)
        PROVE  \A p \in sigkilled' : owner[p] # Foreign /\ st[p] # "free" /\ p \in Pids
    <3>1. Signalled(pid) \subseteq {pid} /\ pid \in Pids
      BY <1>a, <2>2 DEF Signalled, Unknown
    <3> QED
      BY <3>1, <1>a, <2>2 DEF KillPid, KillsAreOurs
  <2>3. CASE ~(\E pid \in batch : pid > 0 /\ KillPid(pid))
    BY <2>1, <2>3, HostEffects
       DEF HostEffect, hostVars, ChildLaunches, Spawn, HostStep, LauncherExec, ProcExit
  <2> QED
    BY <1>1, <2>2, <2>3
<1>3. \A p \in batch' \cap Pids : owner'[p] # Foreign /\ st'[p] # "free"
  <2>1. ASSUME batch' \ {Unknown} \subseteq PidsOf(Distros)
        PROVE  \A p \in batch' \cap Pids : owner[p] # Foreign /\ st[p] # "free"
    BY <2>1, <1>a DEF PidsOf, Visible
  <2>2. ASSUME batch' \subseteq batch
        PROVE  \A p \in batch' \cap Pids : owner[p] # Foreign /\ st[p] # "free"
    BY <2>2 DEF KillsAreOurs
  <2>3. PidsOf({target}) \subseteq PidsOf(Distros)
    BY DEF PidsOf, TypeOK, SdTypeOK
  <2> QED
    BY <1>1, <2>1, <2>2, <2>3, BatchSources
<1>4. pc' = "sd_kill" => \A p \in batch' \cap Pids : owner'[p] = target'
  <2>1. ASSUME batch' \ {Unknown} \subseteq PidsOf({target}), target' = target
        PROVE  \A p \in batch' \cap Pids : owner[p] = target' /\ st[p] # "free"
    BY <2>1, <1>a DEF PidsOf, Visible
  <2>2. ASSUME batch' \subseteq batch, pc = "sd_kill", target' = target
        PROVE  \A p \in batch' \cap Pids : owner[p] = target' /\ st[p] # "free"
    BY <2>2 DEF KillsAreOurs
  <2> QED
    BY <1>1, <2>1, <2>2, BatchSources
<1> QED
  BY <1>2, <1>3, <1>4 DEF KillsAreOurs

\* Which stage of a shutdown a step leads to.
LEMMA Stages ==
  ASSUME TypeOK, [Next]_vars
  PROVE  /\ pc' = "pf_kill" => pc \in {"preflight", "pf_kill"}
         /\ pc' = "preflight" => pc = "preflight"
         /\ pc' = "sd_grace" => \/ SdPowerOff
                                \/ SdGrace
                                \/ UNCHANGED sdVars
         /\ pc' \in {"sd_round", "sd_kill", "sd_verify"} =>
              /\ target' = target
              /\ SdGraceOver \/ pc \in {"sd_round", "sd_kill", "sd_verify"}
<1>1. CASE Preflight \/ PreflightKill \/ PreflightRecount
  BY <1>1 DEF Preflight, PreflightKill, PreflightRecount, Goto
<1>2. CASE SdPowerOff \/ SdGrace
  BY <1>2 DEF SdPowerOff, SdGrace, Poll, Finish
<1>3. CASE SdGraceOver \/ SdRoundsOver
  BY <1>3 DEF SdGraceOver, SdRoundsOver, NextStage
<1>4. CASE SdRound
  BY <1>4 DEF SdRound, NextStage, Finish
<1>5. CASE SdKill \/ SdRoundEnd \/ SdVerifyOver
  BY <1>5 DEF SdKill, SdRoundEnd, SdVerifyOver, Finish
<1>6. CASE SdVerify
  BY <1>6 DEF SdVerify, Poll, Finish
<1>7. CASE StartBuild \/ BuildReturns \/ BuildRaises \/ FleetDone
  BY <1>7 DEF StartBuild, BuildReturns, BuildRaises, FleetDone, Goto
<1>8. CASE Phase1
  BY <1>8 DEF Phase1, Phase1Ok, Phase1Failed, Phase1Timeout, Abort, Goto
<1>9. CASE Phase2
  BY <1>9 DEF Phase2, SshKeyMissing, SshKeyFound, Discover, NoPort, SshReachable,
     SshUnreachable, CloudInitVerdict, Abort, Goto
<1>10. CASE CleanupStarted \/ CleanupNotStarted \/ ShutdownReturned
  BY <1>10 DEF CleanupStarted, CleanupNotStarted, ShutdownReturned, Goto
<1>11. CASE UNCHANGED sdVars
  BY <1>11 DEF sdVars
<1>12. CASE Interrupt
  BY <1>12 DEF Interrupt, InterruptTry, InterruptElsewhere, Goto
<1> QED
  BY <1>1, <1>2, <1>3, <1>4, <1>5, <1>6, <1>7, <1>8, <1>9, <1>10, <1>11, <1>12
     DEF Next, FleetStep, Cleanup, SdStep, ChildLaunches, vars, shutdownVars

\* A halting guest was halting before, and is no younger, unless the step is the
\* poweroff that it accepts.
LEMMA Halting ==
  ASSUME TypeOK, [Next]_vars, NEW p \in Pids, st'[p] = "halting"
  PROVE  \/ pc' = "sd_grace" /\ polls' = 0
         \/ st[p] = "halting" /\ owner'[p] = owner[p] /\ age'[p] >= age[p]
<1>a. st \in [Pids -> ProcStates] /\ age \in [Pids -> Nat]
  BY DEF TypeOK, HostTypeOK
<1>1. CASE UNCHANGED hostVars
  BY <1>1, <1>a DEF hostVars
<1>2. CASE PollSleep /\ UNCHANGED <<owner, st, sigkilled>>
  BY <1>2, <1>a DEF PollSleep
<1>3. CASE (\E pid \in batch : pid > 0 /\ KillPid(pid)) /\ UNCHANGED <<owner, age>>
  BY <1>3, <1>a DEF KillPid
<1>4. CASE ChildLaunches
  <2>1. st[p] = "halting" /\ owner'[p] = owner[p]
    BY <1>4, Launch
  <2>2. age' = age
    BY <1>4 DEF ChildLaunches, Spawn
  <2>3. age[p] \in Nat
    BY <1>a
  <2>4. age'[p] >= age[p]
    BY <2>2, <2>3
  <2> QED
    BY <2>1, <2>4
<1>5. CASE HostStep
  BY <1>5, <1>a DEF HostStep, LauncherExec, ProcExit
<1> QED
  BY <1>1, <1>2, <1>3, <1>4, <1>5, HostEffects DEF HostEffect

\* GraceGiven is preserved.
LEMMA GraceStep == TypeOK /\ Control /\ GraceGiven /\ [Next]_vars => GraceGiven'
<1> SUFFICES ASSUME TypeOK, Control, GraceGiven, [Next]_vars,
                    NEW p \in Pids, st'[p] = "halting"
             PROVE  /\ pc' \notin {"preflight", "pf_kill"}
                    /\ owner'[p] = target' =>
                         /\ pc' = "sd_grace" => age'[p] >= polls'
                         /\ pc' \in {"sd_round", "sd_kill", "sd_verify"} => age'[p] >= GracePolls
  BY DEF GraceGiven
<1>a. /\ age[p] \in Nat /\ age'[p] \in Nat /\ polls \in Nat /\ polls' \in Nat
  BY HostTypeStep, PointTypeStep DEF TypeOK, HostTypeOK, SdTypeOK
<1>1. CASE pc' = "sd_grace" /\ polls' = 0
  BY <1>1, <1>a
<1>2. CASE st[p] = "halting" /\ owner'[p] = owner[p] /\ age'[p] >= age[p]
  <2>1. pc' \notin {"preflight", "pf_kill"}
    BY <1>2, Stages DEF GraceGiven
  <2>2. ASSUME owner'[p] = target', pc' = "sd_grace" PROVE age'[p] >= polls'
    <3>1. CASE SdPowerOff
      BY <3>1, <1>a DEF SdPowerOff
    <3>2. CASE SdGrace
      <4>1. /\ pc = "sd_grace" /\ target' = target
            /\ polls' = polls + 1 /\ PollSleep
        BY <3>2, <2>2 DEF SdGrace, Poll, Finish
      <4>2. age[p] >= polls
        BY <4>1, <2>2, <1>2 DEF GraceGiven
      <4>3. age'[p] = age[p] + 1
        BY <4>1, <1>2 DEF PollSleep
      <4> QED
        BY <4>1, <4>2, <4>3, <1>a
    <3>3. CASE UNCHANGED sdVars
      <4>1. pc = "sd_grace" /\ target' = target /\ polls' = polls
        BY <3>3, <2>2 DEF sdVars
      <4>2. age[p] >= polls
        BY <4>1, <2>2, <1>2 DEF GraceGiven
      <4> QED
        BY <4>1, <4>2, <1>2, <1>a
    <3> QED
      BY <2>2, <3>1, <3>2, <3>3, Stages
  <2>3. ASSUME owner'[p] = target', pc' \in {"sd_round", "sd_kill", "sd_verify"}
        PROVE  age'[p] >= GracePolls
    <3>1. owner[p] = target
      BY <2>3, <1>2, Stages
    <3>2. age[p] >= GracePolls
      <4>1. CASE SdGraceOver
        <5>1. pc = "sd_grace" /\ polls >= GracePolls
          BY <4>1 DEF SdGraceOver
        <5>2. age[p] >= polls
          BY <5>1, <3>1, <1>2 DEF GraceGiven
        <5> QED
          BY <5>1, <5>2, <1>a
      <4>2. CASE pc \in {"sd_round", "sd_kill", "sd_verify"}
        BY <4>2, <3>1, <1>2 DEF GraceGiven
      <4> QED
        BY <2>3, <4>1, <4>2, Stages
    <3> QED
      BY <3>2, <1>2, <1>a
  <2> QED
    BY <2>1, <2>2, <2>3
<1> QED
  BY <1>1, <1>2, Halting

-----------------------------------------------------------------------------
(* The theorems. *)

\* The invariant is preserved by every step.
LEMMA Inductive == IInv /\ [Next]_vars => IInv'
  BY TypeStep, ControlStep, OneLaunchStep, SuccessStep, SoFarStep, KillsStep, GraceStep DEF IInv

\* The inductive invariant holds in every reachable state, for every value of the
\* constants.
THEOREM Invariant == Spec => []IInv
<1>1. Init => IInv
  BY InitIInv
<1>2. IInv /\ [Next]_vars => IInv'
  BY Inductive
<1> QED
  BY <1>1, <1>2, PTL DEF Spec

\* Every variable of the fleet keeps its type; so no reason and no verdict but
\* the listed ones is ever reported.
THEOREM TypeCorrect == Spec => []TypeOK
<1>1. IInv => TypeOK
  BY DEF IInv
<1> QED
  BY <1>1, Invariant, PTL

\* A build that main logs as SUCCESS has left no QEMU and no launcher of its
\* directory behind (orchestrator.build_and_provision, main's classification).
THEOREM SuccessIsGone == Spec => []SuccessMeansGone
<1>1. IInv => SuccessMeansGone
  BY DEF IInv
<1> QED
  BY <1>1, Invariant, PTL

\* Exit status 0 of the build loop: the last build of every distro succeeded.
THEOREM ExitZeroIsHonest == Spec => []ExitZeroMeansAllBuilt
<1>1. IInv => ExitZeroMeansAllBuilt
  <2> SUFFICES ASSUME IInv, pc = "done", failed = {}, NEW i \in 1..Len(Order)
               PROVE  verdict[Order[i]] = "success"
    BY DEF ExitZeroMeansAllBuilt, ExitZero
  <2>1. ~Building
    BY DEF Building, InTry, InFinally, SdPoints
  <2>2. idx > Len(Order)
    BY OrderLen DEF IInv, Control, TypeOK
  <2>3. i \in 1..(idx - 1)
    BY <2>2, OrderLen DEF IInv, TypeOK
  <2> QED
    BY <2>1, <2>3 DEF IInv, SuccessSoFar
<1> QED
  BY <1>1, Invariant, PTL

\* No SIGKILL of the preflight or of any shutdown reaches a VM outside OUT_ROOT,
\* whatever pgrep answers.
THEOREM OperatorVmsSafe == Spec => []OperatorVmsUntouched
<1>1. IInv => OperatorVmsUntouched
  BY DEF IInv, KillsAreOurs, OperatorVmsUntouched, TypeOK, HostTypeOK
<1> QED
  BY <1>1, Invariant, PTL

\* A guest that accepted a poweroff is never killed before its grace period.
THEOREM GraceIsGiven == Spec => GraceBeforeKill
<1>1. IInv /\ [Next]_vars =>
        [\A p \in sigkilled' \ sigkilled : st[p] = "halting" => age[p] >= GracePolls]_shutdownVars
  <2> SUFFICES ASSUME IInv, [Next]_vars, NEW p \in sigkilled' \ sigkilled, st[p] = "halting"
               PROVE  age[p] >= GracePolls
    OBVIOUS
  <2>1. /\ pc \in {"pf_kill", "sd_kill"}
        /\ \E pid \in batch : pid > 0 /\ KillPid(pid)
    BY HostEffects DEF IInv, HostEffect, hostVars, ChildLaunches, Spawn, HostStep,
       LauncherExec, ProcExit
  <2>2. batch \subseteq Pids \cup {Unknown}
    BY DEF IInv, TypeOK, SdTypeOK
  <2>3. p \in Pids /\ p \in batch
    BY <2>1, <2>2 DEF KillPid, Signalled, Unknown
  <2>4. pc = "sd_kill" /\ owner[p] = target
    BY <2>1, <2>3 DEF IInv, KillsAreOurs, GraceGiven
  <2> QED
    BY <2>3, <2>4 DEF IInv, GraceGiven
<1> QED
  BY <1>1, Invariant, PTL DEF Spec, GraceBeforeKill

\* A VM that phase 1 has reported running reaches shutdown_and_verify by every way out of
\* phase 2, unless a Ctrl-C hits the finally block of build_and_provision itself.
THEOREM StartedIsShutDown == Spec => StartedVmIsShutDown
<1> DEFINE Held == vmStarted /\ pc \in InPhase2 \cup {"cleanup"}
<1> DEFINE Kept ==
  \/ vmStarted' /\ pc' \in InPhase2 \cup {"cleanup", "sd_off"}
  \/ pc = "cleanup" /\ interrupts' > interrupts
<1>1. TypeOK /\ [Next]_vars => (Held => Kept)
  <2> SUFFICES ASSUME TypeOK, [Next]_vars, Held
               PROVE  Kept
    OBVIOUS
  <2> USE DEF InPhase2, InTry
  <2>1. CASE UNCHANGED vars
    BY <2>1 DEF vars, fleetVars, buildVars, shutdownVars, sdVars
  <2>2. CASE Phase2
    BY <2>2 DEF Phase2, SshKeyMissing, SshKeyFound, Discover, NoPort, SshReachable,
                SshUnreachable, CloudInitVerdict, Abort, Goto, fleetVars, buildVars
  <2>3. CASE Cleanup
    BY <2>3 DEF Cleanup, CleanupStarted, CleanupNotStarted, ShutdownReturned, SdStep,
                SdPowerOff, SdGrace, SdGraceOver, SdRound, SdRoundsOver, SdKill, SdRoundEnd,
                SdVerify, SdVerifyOver, Goto, fleetVars, buildVars
  <2>4. CASE Interrupt
    <3>1. interrupts' > interrupts
      BY <2>4, InterruptsAssumption DEF Interrupt, TypeOK
    <3> QED
      BY <2>4, <3>1 DEF Interrupt, InterruptTry, InterruptElsewhere, Goto, Terminal
  <2>5. CASE ChildLaunches
    BY <2>5 DEF ChildLaunches, sdVars
  <2>6. CASE HostStep /\ UNCHANGED <<sdVars, fleetVars>>
    BY <2>6 DEF sdVars, fleetVars, buildVars
  <2>7. CASE Preflight \/ PreflightKill \/ PreflightRecount \/ StartBuild
    BY <2>7 DEF Preflight, PreflightKill, PreflightRecount, StartBuild
  <2>8. CASE Phase1 \/ BuildReturns \/ BuildRaises \/ FleetDone
    BY <2>8 DEF Phase1, Phase1Ok, Phase1Failed, Phase1Timeout, BuildReturns, BuildRaises,
                FleetDone
  <2> QED
    BY <2>1, <2>2, <2>3, <2>4, <2>5, <2>6, <2>7, <2>8 DEF Next, FleetStep
<1>2. TypeOK /\ [Next]_vars => [Held => Kept]_vars
  BY <1>1
<1> QED
  BY <1>2, TypeCorrect, PTL DEF Spec, StartedVmIsShutDown

-----------------------------------------------------------------------------
(* The build loop implements BuildLoop.                                     *)

\* The program ends as done behind the last build only, and does not go on after that.
LEMMA DoneOnlyOnce ==
  ASSUME TypeOK, Control, [Next]_vars
  PROVE  /\ pc = "done" => pc' = "done"
         /\ pc' = "done" => pc = "done" \/ FleetDone
<1> USE DEF Terminal
<1>1. CASE Preflight \/ PreflightKill \/ PreflightRecount \/ StartBuild
  BY <1>1 DEF Preflight, PreflightKill, PreflightRecount, StartBuild, Goto
<1>2. CASE ChildLaunches \/ (HostStep /\ UNCHANGED <<sdVars, fleetVars>>) \/ UNCHANGED vars
  BY <1>2 DEF ChildLaunches, sdVars, vars, shutdownVars
<1>3. CASE Phase1
  BY <1>3 DEF Phase1, Phase1Ok, Phase1Failed, Phase1Timeout, Abort, Goto
<1>4. CASE Phase2
  BY <1>4 DEF Phase2, SshKeyMissing, SshKeyFound, Discover, NoPort, SshReachable,
              SshUnreachable, CloudInitVerdict, Abort, Goto
<1>5. CASE CleanupStarted \/ CleanupNotStarted \/ ShutdownReturned
  BY <1>5 DEF CleanupStarted, CleanupNotStarted, ShutdownReturned, Goto
<1>6. CASE SdStep
  <2>1. SdTypeOK
    BY DEF TypeOK
  <2>2. pc' \in SdPoints
    BY <1>6, <2>1, SdTypeStep
  <2>3. pc \in SdPoints
    BY <1>6 DEF SdPoints, SdStep, SdPowerOff, SdGrace, SdGraceOver, SdRound, SdRoundsOver,
       SdKill, SdRoundEnd, SdVerify, SdVerifyOver
  <2> QED
    BY <2>2, <2>3 DEF SdPoints
<1>7. CASE BuildReturns \/ BuildRaises \/ FleetDone
  BY <1>7 DEF BuildReturns, BuildRaises, FleetDone, Goto
<1>8. CASE Interrupt
  BY <1>8 DEF Interrupt, InterruptTry, InterruptElsewhere, Goto, InTry
<1> QED
  BY <1>1, <1>2, <1>3, <1>4, <1>5, <1>6, <1>7, <1>8 DEF Next, FleetStep, Cleanup

\* Every step is a step of the loop or none.
LEMMA LoopStep == TypeOK /\ Control /\ [Next]_vars => [Loop!Next]_Loop!loopVars
<1> SUFFICES ASSUME TypeOK, Control, [Next]_vars PROVE [Loop!Next]_Loop!loopVars
  OBVIOUS
<1>t. /\ verdict \in [Distros -> Verdicts] /\ idx \in 1..(Len(Order) + 1)
      /\ failed \subseteq 1..Len(Order)
  BY DEF TypeOK
<1>1. CASE StartBuild
  <2>1. /\ pc = "next" /\ pc' = "phase1" /\ idx <= Len(Order) /\ UNCHANGED <<idx, failed>>
        /\ verdict' = [verdict EXCEPT ![Order[idx]] = "pending"]
    BY <1>1 DEF StartBuild
  <2>2. Order[idx] \in Distros /\ idx - 1 < Len(Order) /\ (idx - 1) + 1 = idx
    BY <1>t, <2>1, OrderLen
  <2>3. {d \in Distros : verdict'[d] = "success"} =
          {d \in Distros : verdict[d] = "success"} \ {Order[idx]}
    BY <1>t, <2>1, <2>2
  <2>4. LoopEnd = "none" /\ LoopEnd' = "none"
    BY <2>1 DEF LoopEnd
  <2> QED
    BY <2>1, <2>2, <2>3, <2>4 DEF Loop!Next, Loop!BuildBegins, Loop!Running, Loop!Current
<1>2. CASE BuildReturns
  <2>1. /\ pc = "return" /\ pc' = "next" /\ idx' = idx + 1
        /\ verdict' = [verdict EXCEPT ![target] = Classify]
        /\ failed' = IF Classify = "success" THEN failed ELSE failed \cup {idx}
    BY <1>2 DEF BuildReturns, FailedNow, Goto
  <2>2. target = Order[idx] /\ idx <= Len(Order)
    BY <2>1 DEF Control, Building
  <2>3. Order[idx] \in Distros /\ idx - 1 < Len(Order) /\ (idx - 1) + 1 = idx
    BY <1>t, <2>2, OrderLen
  <2>4. LoopEnd = "none" /\ LoopEnd' = "none"
    BY <2>1 DEF LoopEnd
  <2>5. Loop!Running /\ Loop!Current = Order[idx] /\ idx' - 1 = (idx - 1) + 1
    BY <1>t, <2>1, <2>3, <2>4 DEF Loop!Running, Loop!Current
  <2>6. CASE Classify = "success"
    <3>1. {d \in Distros : verdict'[d] = "success"} =
            {d \in Distros : verdict[d] = "success"} \cup {Order[idx]}
      BY <1>t, <2>1, <2>2, <2>3, <2>6
    <3>2. {Order[i] : i \in failed'} = {Order[i] : i \in failed}
      BY <2>1, <2>6
    <3> QED
      BY <2>4, <2>5, <3>1, <3>2 DEF Loop!Next, Loop!BuildSucceeds
  <2>7. CASE Classify # "success"
    <3>1. {d \in Distros : verdict'[d] = "success"} =
            {d \in Distros : verdict[d] = "success"} \ {Order[idx]}
      BY <1>t, <2>1, <2>2, <2>3, <2>7
    <3>2. {Order[i] : i \in failed'} = {Order[i] : i \in failed} \cup {Order[idx]}
      BY <2>1, <2>7
    <3> QED
      BY <2>4, <2>5, <3>1, <3>2 DEF Loop!Next, Loop!BuildFails
  <2> QED
    BY <2>6, <2>7
<1>3. CASE SameBuild /\ ~StartBuild /\ ~BuildReturns
  <2>1. UNCHANGED <<idx, verdict, failed>> /\ (pc = "aborted" => pc' = "aborted")
    BY <1>3 DEF SameBuild
  <2>2. CASE UNCHANGED pc \/ (pc \notin Terminal /\ pc' \notin Terminal)
    BY <2>1, <2>2 DEF LoopEnd, Terminal, Loop!loopVars
  <2>3. CASE pc \notin Terminal /\ pc' = "aborted"
    BY <2>1, <2>3 DEF LoopEnd, Terminal, Loop!Next, Loop!Ends
  <2>4. CASE pc \notin Terminal /\ pc' = "done"
    <3>1. FleetDone
      BY <2>4, DoneOnlyOnce DEF Terminal
    <3>2. idx - 1 = Len(Order)
      BY <1>t, <3>1, OrderLen DEF FleetDone
    <3> QED
      BY <2>1, <2>4, <3>2 DEF LoopEnd, Terminal, Loop!Next, Loop!Ends
  <2> QED
    BY <2>1, <2>2, <2>3, <2>4, DoneOnlyOnce DEF Terminal
<1> QED
  BY <1>1, <1>2, <1>3, Frames

\* Seen from main, the builds are those of BuildLoop: no distro is skipped, and each build
\* counts once, as a success only if it was verified and its VM was shut down.
THEOREM FleetKeepsLoop == Spec => KeepsLoop
<1>1. Init => Loop!Init
  <2> SUFFICES ASSUME Init PROVE Loop!Init
    OBVIOUS
  <2>1. idx = 1 /\ pc \in {"preflight", "next"}
    BY DEF Init
  <2>2. idx - 1 = 0
    BY <2>1
  <2>3. LoopEnd = "none"
    BY <2>1 DEF LoopEnd
  <2>4. {d \in Distros : verdict[d] = "success"} = {} /\ {Order[i] : i \in failed} = {}
    BY DEF Init
  <2> QED
    BY <2>2, <2>3, <2>4 DEF Loop!Init
<1>2. IInv /\ [Next]_vars => [Loop!Next]_Loop!loopVars
  BY LoopStep DEF IInv
<1> QED
  BY <1>1, <1>2, Invariant, PTL DEF Spec, KeepsLoop, Loop!Spec

=============================================================================
