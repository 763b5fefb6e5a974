---------------------------- MODULE VmShutdown_proofs ----------------------------
(***************************************************************************)
(* Proofs about shutdown_and_verify: the component's theorems, for every   *)
(* process table, endpoint, number of polls and rounds, and failure mode   *)
(* of pgrep; and the lemmas about its steps that hold wherever it is a     *)
(* part, as in FleetBuild.                                                 *)
(***************************************************************************)
EXTENDS VmShutdown, TLAPS

USE PidsAssumption, ForeignAssumption, FaultsAssumption, LauncherAssumption, PollsAssumption

\* A process id is neither the sentinel of _qemu_pids nor "no endpoint".
LEMMA PidsPositive == /\ \A p \in Pids : p > 0 /\ p # Unknown /\ p # NoEndpoint
                      /\ Unknown \notin Pids /\ NoEndpoint \notin Pids
  BY DEF Unknown, NoEndpoint

-----------------------------------------------------------------------------
(* What a step of shutdown_and_verify may do. *)

\* pgrep lists processes, and _qemu_pids adds nothing but the sentinel.
LEMMA LookTypes ==
  ASSUME NEW S, NEW r \in QemuPids(S)
  PROVE  r.pids \subseteq Pids \cup {Unknown}
  BY DEF QemuPids, Pgrep, PidsOf

\* What a step can do to the process table: nothing, a sleep, one SIGKILL to a process
\* of its list, or a poweroff that the guest accepts.
SdEffect ==
  \/ UNCHANGED hostVars
  \/ pc \in {"sd_grace", "sd_verify"} /\ pc' = pc /\ polls' = polls + 1
       /\ PollSleep /\ UNCHANGED <<owner, st, sigkilled>>
  \/ pc = "sd_kill" /\ pc' = pc
       /\ (\E pid \in batch : pid > 0 /\ KillPid(pid)) /\ UNCHANGED <<owner, age>>
  \/ pc = "sd_off" /\ pc' = "sd_grace" /\ polls' = 0
       /\ ep # NoEndpoint /\ st[ep] = "up"
       /\ st' = [st EXCEPT ![ep] = "halting"] /\ UNCHANGED <<owner, age, sigkilled>>

\* Every step treats the process table in one of the ways of SdEffect.
LEMMA SdEffects == SdTypeOK /\ SdStep => SdEffect
<1> SUFFICES ASSUME SdTypeOK, SdStep PROVE SdEffect
  OBVIOUS
<1>a. batch \subseteq Pids \cup {Unknown} /\ Unknown = -1
  BY DEF SdTypeOK, Unknown
<1>1. CASE SdPowerOff
  BY <1>1 DEF SdEffect, SdPowerOff, hostVars
<1>2. CASE SdGrace \/ SdVerify
  BY <1>2 DEF SdEffect, SdGrace, SdVerify, Poll, hostVars
<1>3. CASE SdGraceOver \/ SdRoundsOver \/ SdVerifyOver
  BY <1>3 DEF SdEffect, SdGraceOver, SdRoundsOver, SdVerifyOver, NextStage, hostVars
<1>4. CASE SdRound
  BY <1>4 DEF SdEffect, SdRound, NextStage, hostVars
<1>5. CASE SdKill
  BY <1>5, <1>a DEF SdEffect, SdKill, hostVars
<1>6. CASE SdRoundEnd
  BY <1>6 DEF SdEffect, SdRoundEnd, hostVars
<1> QED
  BY <1>1, <1>2, <1>3, <1>4, <1>5, <1>6 DEF SdStep

\* The steps of shutdown_and_verify keep the types of its variables and stay
\* within its control points.
LEMMA SdTypeStep ==
  ASSUME SdTypeOK, SdStep
  PROVE  SdTypeOK' /\ pc' \in SdPoints /\ target' = target /\ ep' = ep
<1> USE DEF SdTypeOK, SdPoints
<1>1. CASE SdPowerOff
  BY <1>1 DEF SdPowerOff
<1>a. ASSUME NEW x, Finish(x), x \in SdResults
      PROVE  SdTypeOK' /\ pc' \in SdPoints /\ target' = target /\ ep' = ep
  BY <1>a DEF Finish
<1>b. ASSUME NEW x, NextStage(x), x \in SdPoints
      PROVE  SdTypeOK' /\ pc' \in SdPoints /\ target' = target /\ ep' = ep
  BY <1>b DEF NextStage, hostVars
<1>2. ASSUME NEW n, Poll(n), pc \in SdPoints
      PROVE  SdTypeOK' /\ pc' \in SdPoints /\ target' = target /\ ep' = ep
  <2>1. CASE \E x \in SdResults : Finish(x)
    BY <2>1, <1>a
  <2>2. CASE polls' = polls + 1 /\ UNCHANGED <<pc, target, ep, batch, sdResult>>
    BY <2>2, <1>2
  <2> QED
    BY <1>2, <2>1, <2>2 DEF Poll, SdResults
<1>3. CASE SdGrace \/ SdVerify
  BY <1>3, <1>2 DEF SdGrace, SdVerify
<1>4. CASE SdGraceOver \/ SdRoundsOver
  BY <1>4, <1>b DEF SdGraceOver, SdRoundsOver
<1>5. CASE SdVerifyOver
  BY <1>5 DEF SdVerifyOver, Finish, SdResults
<1>6. CASE SdRound
  <2>1. CASE Finish("raised") \/ NextStage("sd_verify")
    BY <2>1, <1>a, <1>b DEF SdResults
  <2>2. ASSUME NEW r \in QemuPids({target}), batch' = r.pids, pc' = "sd_kill",
               UNCHANGED <<hostVars, target, ep, polls, sdResult>>
        PROVE  SdTypeOK' /\ pc' \in SdPoints /\ target' = target /\ ep' = ep
    BY <2>2, LookTypes
  <2> QED
    BY <1>6, <2>1, <2>2 DEF SdRound
<1>7. CASE SdKill
  BY <1>7 DEF SdKill
<1>8. CASE SdRoundEnd
  BY <1>8 DEF SdRoundEnd
<1> QED
  BY <1>1, <1>3, <1>4, <1>5, <1>6, <1>7, <1>8 DEF SdStep

\* shutdown_and_verify says "ok" only after a look that succeeded and saw nothing.
LEMMA OkMeansUnseen ==
  ASSUME SdStep, sdResult' = "ok", sdResult # "ok"
  PROVE  PidsOf({target}) = {} /\ UNCHANGED <<hostVars, target>>
<1>1. CASE SdGrace \/ SdVerify
  <2>1. Poll(GracePolls) \/ Poll(VerifyPolls)
    BY <1>1 DEF SdGrace, SdVerify
  <2>2. PICK r \in QemuPids({target}) :
          ~r.raised /\ r.pids = {} /\ Finish("ok") /\ UNCHANGED hostVars
    BY <2>1 DEF Poll, Finish
  <2>3. PICK f \in Pgrep({target}) :
          r = [raised |-> f.exc = "hang",
               pids   |-> IF f.exc = "unusable" THEN {Unknown} ELSE f.pids]
    BY <2>2 DEF QemuPids
  <2>4. f.exc \notin Faults
    BY <2>2, <2>3 DEF Faults
  <2>5. f.exc = "none" /\ f.pids = PidsOf({target})
    BY <2>4 DEF Pgrep
  <2>6. PidsOf({target}) = {}
    BY <2>2, <2>3, <2>5
  <2> QED
    BY <2>2, <2>6 DEF Finish
<1>2. CASE SdPowerOff \/ SdGraceOver \/ SdRoundsOver
  BY <1>2 DEF SdPowerOff, SdGraceOver, SdRoundsOver, NextStage
<1>3. CASE SdRound \/ SdKill \/ SdRoundEnd \/ SdVerifyOver
  BY <1>3 DEF SdRound, SdKill, SdRoundEnd, SdVerifyOver, NextStage, Finish
<1> QED
  BY <1>1, <1>2, <1>3 DEF SdStep

\* A kill loop begins with a look at the target's processes, and its list only
\* shrinks after that.
LEMMA SdBatch ==
  ASSUME SdStep
  PROVE  \/ batch' \subseteq batch
         \/ batch' \ {Unknown} \subseteq PidsOf({target})
<1>1. CASE SdRound
  <2>1. CASE \E r \in QemuPids({target}) : batch' = r.pids
    BY <2>1 DEF QemuPids, Pgrep
  <2>2. CASE batch' = batch
    BY <2>2
  <2> QED
    BY <1>1, <2>1, <2>2 DEF SdRound, NextStage, Finish
<1>2. CASE SdKill
  BY <1>2 DEF SdKill
<1>3. CASE SdGrace \/ SdVerify
  BY <1>3 DEF SdGrace, SdVerify, Poll, Finish
<1>4. CASE SdPowerOff \/ SdGraceOver \/ SdRoundsOver \/ SdRoundEnd \/ SdVerifyOver
  BY <1>4 DEF SdPowerOff, SdGraceOver, SdRoundsOver, SdRoundEnd, SdVerifyOver, NextStage, Finish
<1> QED
  BY <1>1, <1>2, <1>3, <1>4 DEF SdStep

\* Which stage a step leads to.
LEMMA SdStages ==
  ASSUME SdStep
  PROVE  /\ pc' # "sd_off"
         /\ pc' = "sd_grace" => SdPowerOff \/ (SdGrace /\ pc' = pc /\ polls' = polls + 1 /\ PollSleep)
         /\ pc' \in {"sd_round", "sd_kill", "sd_verify"} =>
              SdGraceOver \/ pc \in {"sd_round", "sd_kill", "sd_verify"}
<1>1. CASE SdPowerOff
  BY <1>1 DEF SdPowerOff
<1>2. CASE SdGrace \/ SdVerify
  BY <1>2 DEF SdGrace, SdVerify, Poll, Finish
<1>3. CASE SdGraceOver \/ SdRoundsOver
  BY <1>3 DEF SdGraceOver, SdRoundsOver, NextStage
<1>4. CASE SdRound
  BY <1>4 DEF SdRound, NextStage, Finish
<1>5. CASE SdKill \/ SdRoundEnd \/ SdVerifyOver
  BY <1>5 DEF SdKill, SdRoundEnd, SdVerifyOver, Finish
<1> QED
  BY <1>1, <1>2, <1>3, <1>4, <1>5 DEF SdStep

-----------------------------------------------------------------------------
(* What becomes of the process table. *)

\* Nothing but a launch makes a process alive, and nothing but a launch changes
\* whose a process is.
Shrinks ==
  \A p \in Pids :
    /\ owner'[p] = owner[p]
    /\ st[p] # "free" => st'[p] # "free"
    /\ Alive(p)' => Alive(p)
    /\ st'[p] = "launching" => st[p] = "launching"

\* Neither a step of shutdown_and_verify nor one of the host makes a process.
LEMMA NothingCreated ==
  ASSUME HostTypeOK, SdTypeOK, SdEffect \/ HostStep
  PROVE  Shrinks
<1>a. st \in [Pids -> ProcStates] /\ ep \in Pids \cup {NoEndpoint}
  BY DEF HostTypeOK, SdTypeOK
<1> SUFFICES ASSUME NEW p \in Pids
             PROVE  /\ owner'[p] = owner[p]
                    /\ st[p] # "free" => st'[p] # "free"
                    /\ Alive(p)' => Alive(p)
                    /\ st'[p] = "launching" => st[p] = "launching"
  BY DEF Shrinks
<1> USE DEF Alive, Visible
<1>1. CASE UNCHANGED <<owner, st>>
  BY <1>1
<1>2. CASE UNCHANGED owner /\ \E pid \in batch : pid > 0 /\ KillPid(pid)
  BY <1>2, <1>a DEF KillPid, Signalled
<1>3. CASE UNCHANGED owner /\ st[ep] = "up" /\ st' = [st EXCEPT ![ep] = "halting"]
  BY <1>3, <1>a
<1>4. CASE HostStep
  BY <1>4, <1>a DEF HostStep, LauncherExec, ProcExit
<1> QED
  BY <1>1, <1>2, <1>3, <1>4 DEF SdEffect, hostVars

\* Once no process of a directory is alive, only a launch can change that.
LEMMA GoneStaysGone ==
  ASSUME NEW d, NoneAlive(d), Shrinks
  PROVE  NoneAlive(d)'
  BY DEF NoneAlive, Shrinks

-----------------------------------------------------------------------------
(* The invariant of the component on its own. *)

\* No launcher of the target is left that could still become a QEMU.
NoLauncher == \A p \in Pids : st[p] = "launching" => owner[p] # target

\* The kill loop holds processes of the target, whatever became of them since the look.
BatchIsTarget == \A p \in batch \cap Pids : owner[p] = target

\* How long a halting guest has had by each stage.
GraceSoFar ==
  \A p \in Pids : st[p] = "halting" =>
    /\ pc # "sd_off"
    /\ pc = "sd_grace" => age[p] >= polls
    /\ pc \in {"sd_round", "sd_kill", "sd_verify"} => age[p] >= GracePolls

ShutdownInv ==
  /\ ShutdownTypeOK
  /\ NoLauncher
  /\ BatchIsTarget
  /\ OnlyTargetKilled
  /\ OkMeansGone
  /\ GraceSoFar

\* The initial states satisfy the invariant.
LEMMA ShutdownInitInv == ShutdownInit => ShutdownInv
<1> SUFFICES ASSUME ShutdownInit PROVE ShutdownInv
  OBVIOUS
<1>1. HostTypeOK
  BY DEF ShutdownInit, HostTypeOK, ProcStates
<1>2. SdTypeOK /\ pc \in SdPoints
  BY DEF ShutdownInit, SdTypeOK, SdResults, SdPoints, PidsOf
<1>3. NoLauncher /\ BatchIsTarget /\ OnlyTargetKilled /\ OkMeansGone
  BY DEF ShutdownInit, NoLauncher, BatchIsTarget, OnlyTargetKilled, OkMeansGone
<1>4. GraceSoFar
  BY DEF ShutdownInit, GraceSoFar
<1> QED
  BY <1>1, <1>2, <1>3, <1>4 DEF ShutdownInv, ShutdownTypeOK

\* Every step of ShutdownSpec is one of shutdown_and_verify, one of the host, or none; the
\* host's leave the program alone.
LEMMA ShutdownSteps ==
  ASSUME ShutdownTypeOK, [ShutdownNext]_shutdownVars
  PROVE  /\ \/ SdStep /\ SdEffect
            \/ HostStep /\ UNCHANGED sdVars
            \/ UNCHANGED shutdownVars
         /\ target' = target
         /\ Shrinks
<1>a. HostTypeOK /\ SdTypeOK
  BY DEF ShutdownTypeOK
<1>1. CASE SdStep
  BY <1>1, <1>a, SdEffects, SdTypeStep, NothingCreated
<1>2. CASE HostStep /\ UNCHANGED sdVars
  BY <1>2, <1>a, NothingCreated DEF sdVars
<1>3. CASE UNCHANGED shutdownVars
  BY <1>3 DEF shutdownVars, hostVars, sdVars, Shrinks, Alive, Visible
<1> QED
  BY <1>1, <1>2, <1>3 DEF ShutdownNext

\* The types are preserved.
LEMMA ShutdownTypeStep == ShutdownTypeOK /\ [ShutdownNext]_shutdownVars => ShutdownTypeOK'
<1> SUFFICES ASSUME ShutdownTypeOK, [ShutdownNext]_shutdownVars PROVE ShutdownTypeOK'
  OBVIOUS
<1>a. HostTypeOK /\ SdTypeOK /\ pc \in SdPoints
  BY DEF ShutdownTypeOK
<1>1. SdTypeOK' /\ pc' \in SdPoints
  <2>1. CASE SdStep
    BY <2>1, <1>a, SdTypeStep
  <2>2. CASE UNCHANGED sdVars
    BY <2>2, <1>a DEF sdVars, SdTypeOK
  <2> QED
    BY <2>1, <2>2, ShutdownSteps DEF shutdownVars
<1>2. HostTypeOK'
  <2> USE <1>a DEF HostTypeOK
  <2>1. CASE UNCHANGED hostVars
    BY <2>1 DEF hostVars
  <2>2. CASE PollSleep /\ UNCHANGED <<owner, st, sigkilled>>
    BY <2>2 DEF PollSleep
  <2>3. CASE (\E pid \in batch : pid > 0 /\ KillPid(pid)) /\ UNCHANGED <<owner, age>>
    BY <2>3 DEF KillPid, Signalled, ProcStates
  <2>4. CASE st' = [st EXCEPT ![ep] = "halting"] /\ UNCHANGED <<owner, age, sigkilled>>
    BY <2>4 DEF ProcStates
  <2>5. CASE HostStep
    BY <2>5 DEF HostStep, LauncherExec, ProcExit, ProcStates
  <2> QED
    BY <2>1, <2>2, <2>3, <2>4, <2>5, ShutdownSteps DEF SdEffect, shutdownVars
<1> QED
  BY <1>1, <1>2 DEF ShutdownTypeOK

\* What the kill loop holds, and what it has hit, stays within the target.
LEMMA ShutdownKillsStep ==
  ShutdownTypeOK /\ BatchIsTarget /\ OnlyTargetKilled /\ [ShutdownNext]_shutdownVars =>
    BatchIsTarget' /\ OnlyTargetKilled'
<1> SUFFICES ASSUME ShutdownTypeOK, BatchIsTarget, OnlyTargetKilled, [ShutdownNext]_shutdownVars
             PROVE  BatchIsTarget' /\ OnlyTargetKilled'
  OBVIOUS
<1>a. /\ batch \subseteq Pids \cup {Unknown} /\ sigkilled \subseteq Pids
      /\ sigkilled' \subseteq Pids
  BY ShutdownTypeStep DEF ShutdownTypeOK, SdTypeOK, HostTypeOK
<1>b. target' = target /\ \A p \in Pids : owner'[p] = owner[p]
  BY ShutdownSteps DEF Shrinks
<1>1. BatchIsTarget'
  <2>1. batch' \subseteq batch \/ batch' \ {Unknown} \subseteq PidsOf({target})
    BY ShutdownSteps, SdBatch DEF shutdownVars, sdVars
  <2> QED
    BY <2>1, <1>b, PidsPositive DEF BatchIsTarget, PidsOf
<1>2. OnlyTargetKilled'
  <2>1. CASE sigkilled' = sigkilled
    BY <2>1, <1>a, <1>b DEF OnlyTargetKilled
  <2>2. ASSUME NEW pid \in batch, pid > 0, KillPid(pid)
        PROVE  OnlyTargetKilled'
    <3>1. Signalled(pid) \subseteq {pid} /\ pid \in Pids
      BY <1>a, <2>2 DEF Signalled, Unknown
    <3> QED
      BY <3>1, <2>2, <1>a, <1>b DEF KillPid, BatchIsTarget, OnlyTargetKilled
  <2> QED
    BY <2>1, <2>2, ShutdownSteps
       DEF SdEffect, hostVars, shutdownVars, HostStep, LauncherExec, ProcExit
<1> QED
  BY <1>1, <1>2

\* Once "ok" is returned nothing of the target is alive: the look saw nothing, there is
\* no launcher to come, and nothing else makes a process.
LEMMA ShutdownGoneStep ==
  ShutdownTypeOK /\ NoLauncher /\ OkMeansGone /\ [ShutdownNext]_shutdownVars =>
    NoLauncher' /\ OkMeansGone'
<1> SUFFICES ASSUME ShutdownTypeOK, NoLauncher, OkMeansGone, [ShutdownNext]_shutdownVars
             PROVE  NoLauncher' /\ OkMeansGone'
  OBVIOUS
<1>a. target' = target /\ Shrinks
  BY ShutdownSteps
<1>1. NoLauncher'
  BY <1>a DEF NoLauncher, Shrinks
<1>2. ASSUME sdResult' = "ok" PROVE NoneAlive(target)'
  <2>1. NoneAlive(target)
    <3>1. CASE sdResult = "ok"
      BY <3>1 DEF OkMeansGone
    <3>2. CASE sdResult # "ok"
      <4>1. PidsOf({target}) = {}
        BY <1>2, <3>2, ShutdownSteps, OkMeansUnseen DEF shutdownVars, sdVars
      <4> QED
        BY <4>1 DEF NoLauncher, NoneAlive, PidsOf, Alive
    <3> QED
      BY <3>1, <3>2
  <2> QED
    BY <2>1, <1>a DEF NoneAlive, Shrinks
<1> QED
  BY <1>1, <1>2 DEF OkMeansGone

\* A halting guest was halting before, and is no younger, unless the step is the
\* poweroff that it accepts.
LEMMA ShutdownHalting ==
  ASSUME ShutdownTypeOK, [ShutdownNext]_shutdownVars, NEW p \in Pids, st'[p] = "halting"
  PROVE  \/ pc' = "sd_grace" /\ polls' = 0
         \/ st[p] = "halting" /\ age'[p] >= age[p]
<1>a. st \in [Pids -> ProcStates] /\ age \in [Pids -> Nat]
  BY DEF ShutdownTypeOK, HostTypeOK
<1>1. CASE UNCHANGED hostVars
  BY <1>1, <1>a DEF hostVars
<1>2. CASE PollSleep /\ UNCHANGED <<owner, st, sigkilled>>
  BY <1>2, <1>a DEF PollSleep
<1>3. CASE (\E pid \in batch : pid > 0 /\ KillPid(pid)) /\ UNCHANGED <<owner, age>>
  BY <1>3, <1>a DEF KillPid
<1>4. CASE HostStep
  BY <1>4, <1>a DEF HostStep, LauncherExec, ProcExit
<1> QED
  BY <1>1, <1>2, <1>3, <1>4, ShutdownSteps DEF SdEffect, shutdownVars

\* GraceSoFar is preserved.
LEMMA ShutdownGraceStep ==
  ShutdownTypeOK /\ GraceSoFar /\ [ShutdownNext]_shutdownVars => GraceSoFar'
<1> SUFFICES ASSUME ShutdownTypeOK, GraceSoFar, [ShutdownNext]_shutdownVars,
                    NEW p \in Pids, st'[p] = "halting"
             PROVE  /\ pc' # "sd_off"
                    /\ pc' = "sd_grace" => age'[p] >= polls'
                    /\ pc' \in {"sd_round", "sd_kill", "sd_verify"} => age'[p] >= GracePolls
  BY DEF GraceSoFar
<1>a. /\ age[p] \in Nat /\ age'[p] \in Nat /\ polls \in Nat /\ polls' \in Nat
  BY ShutdownTypeStep DEF ShutdownTypeOK, HostTypeOK, SdTypeOK
<1>1. CASE pc' = "sd_grace" /\ polls' = 0
  BY <1>1, <1>a
<1>2. CASE st[p] = "halting" /\ age'[p] >= age[p]
  <2>1. CASE UNCHANGED sdVars
    BY <2>1, <1>2, <1>a DEF GraceSoFar, sdVars
  <2>2. CASE SdStep
    <3>1. pc # "sd_off"
      BY <1>2 DEF GraceSoFar
    <3>2. ASSUME pc' = "sd_grace" PROVE age'[p] >= polls'
      <4>1. pc = "sd_grace" /\ polls' = polls + 1 /\ age'[p] = age[p] + 1
        BY <2>2, <3>1, <3>2, <1>2, SdStages DEF SdPowerOff, PollSleep
      <4> QED
        BY <4>1, <1>2, <1>a DEF GraceSoFar
    <3>3. ASSUME pc' \in {"sd_round", "sd_kill", "sd_verify"} PROVE age'[p] >= GracePolls
      <4>1. CASE SdGraceOver
        BY <4>1, <1>2, <1>a DEF SdGraceOver, GraceSoFar
      <4>2. CASE pc \in {"sd_round", "sd_kill", "sd_verify"}
        BY <4>2, <1>2, <1>a DEF GraceSoFar
      <4> QED
        BY <2>2, <3>3, <4>1, <4>2, SdStages
    <3> QED
      BY <2>2, <3>2, <3>3, SdStages
  <2> QED
    BY <2>1, <2>2, ShutdownSteps DEF shutdownVars
<1> QED
  BY <1>1, <1>2, ShutdownHalting

-----------------------------------------------------------------------------
(* The theorems. *)

\* The inductive invariant of shutdown_and_verify.
THEOREM ShutdownInvariant == ShutdownSpec => []ShutdownInv
<1>1. ShutdownInit => ShutdownInv
  BY ShutdownInitInv
<1>2. ShutdownInv /\ [ShutdownNext]_shutdownVars => ShutdownInv'
  BY ShutdownTypeStep, ShutdownKillsStep, ShutdownGoneStep, ShutdownGraceStep DEF ShutdownInv
<1> QED
  BY <1>1, <1>2, PTL DEF ShutdownSpec

\* The variables of shutdown_and_verify keep their types, and it never leaves its stages.
THEOREM ShutdownTypeCorrect == ShutdownSpec => []ShutdownTypeOK
<1>1. ShutdownInv => ShutdownTypeOK
  BY DEF ShutdownInv
<1> QED
  BY <1>1, ShutdownInvariant, PTL

\* SIGKILL never reaches a process of another directory, although the list of a kill round
\* may be stale and may hold the -1 of an unusable pgrep (lifecycle.shutdown_and_verify).
THEOREM OnlyTheTargetIsKilled == ShutdownSpec => []OnlyTargetKilled
<1>1. ShutdownInv => OnlyTargetKilled
  BY DEF ShutdownInv
<1> QED
  BY <1>1, ShutdownInvariant, PTL

\* True is returned only once every QEMU of the target is gone, and it stays true.
THEOREM OkIsGone == ShutdownSpec => []OkMeansGone
<1>1. ShutdownInv => OkMeansGone
  BY DEF ShutdownInv
<1> QED
  BY <1>1, ShutdownInvariant, PTL

\* A guest that has accepted the poweroff has SHUTDOWN_TIMEOUT_SEC to halt before any
\* SIGKILL.
THEOREM ShutdownGivesGrace == ShutdownSpec => GraceBeforeKill
<1>1. ShutdownInv /\ [ShutdownNext]_shutdownVars =>
        [\A p \in sigkilled' \ sigkilled : st[p] = "halting" => age[p] >= GracePolls]_shutdownVars
  <2> SUFFICES ASSUME ShutdownInv, [ShutdownNext]_shutdownVars,
                      NEW p \in sigkilled' \ sigkilled, st[p] = "halting"
               PROVE  age[p] >= GracePolls
    OBVIOUS
  <2>1. pc = "sd_kill"
    BY ShutdownSteps DEF ShutdownInv, SdEffect, hostVars, shutdownVars, HostStep, LauncherExec,
       ProcExit
  <2>2. p \in Pids
    BY ShutdownTypeStep DEF ShutdownInv, ShutdownTypeOK, HostTypeOK
  <2> QED
    BY <2>1, <2>2 DEF ShutdownInv, GraceSoFar
<1> QED
  BY <1>1, ShutdownInvariant, PTL DEF ShutdownSpec, GraceBeforeKill

=============================================================================
