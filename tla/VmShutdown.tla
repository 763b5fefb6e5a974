------------------------------ MODULE VmShutdown ------------------------------
(***************************************************************************)
(* fleet/lifecycle.py: shutdown_and_verify(target_dir, host, port, ...)    *)
(* against a process table that moves on its own.                          *)
(*                                                                         *)
(* One call has four stages: ask the guest to power off, poll for its QEMU *)
(* to go away during the grace period, then up to KillRounds rounds of     *)
(* SIGKILL to whatever pgrep lists, then poll again until the verification *)
(* deadline.  A stage's deadline is a number of polls (timeout divided by  *)
(* the 5 s sleep); between any two steps the host may move.                *)
(*                                                                         *)
(* The module is the component on its own (ShutdownSpec) and a part of     *)
(* FleetBuild, which calls it by setting pc to "sd_off" and continues when *)
(* pc is "sd_done".                                                        *)
(***************************************************************************)
EXTENDS HostProcs

CONSTANTS
  GracePolls,   \* SHUTDOWN_TIMEOUT_SEC / 5
  KillRounds,   \* range(3)
  VerifyPolls   \* VERIFY_DEAD_TIMEOUT_SEC / 5

ASSUME PollsAssumption ==
  /\ GracePolls \in Nat
  /\ KillRounds \in Nat
  /\ VerifyPolls \in Nat

VARIABLES
  pc,        \* control point
  target,    \* the directory whose VM is being built or shut down
  ep,        \* QEMU behind the known SSH endpoint; NoEndpoint: host "" and port 0
  polls,     \* iterations of the current loop
  batch,     \* what the last look of a kill loop returned and is not yet handled
  sdResult   \* outcome of the last call

sdVars == <<pc, target, ep, polls, batch, sdResult>>
shutdownVars == <<hostVars, sdVars>>

NoEndpoint == 0

SdPoints == {"sd_off", "sd_grace", "sd_round", "sd_kill", "sd_verify", "sd_done"}
SdResults == {"none", "ok", "fail", "raised"}

SdTypeOK ==
  /\ target \in Distros
  /\ ep \in Pids \cup {NoEndpoint}
  /\ polls \in Nat
  /\ batch \subseteq Pids \cup {Unknown}
  /\ sdResult \in SdResults

-----------------------------------------------------------------------------
(* Steps of shutdown_and_verify. *)

\* Return, or let the exception out.
Finish(result) ==
  /\ sdResult' = result
  /\ pc' = "sd_done"
  /\ UNCHANGED <<target, ep, polls, batch>>

\* "sudo systemctl poweroff" over SSH, when there is an endpoint.  Errors are
\* swallowed; the guest may also accept and never act, or not be there.
SdPowerOff ==
  /\ pc = "sd_off"
  /\ \/ UNCHANGED st
     \/ /\ ep # NoEndpoint
        /\ st[ep] = "up"
        /\ st' = [st EXCEPT ![ep] = "halting"]
  /\ pc' = "sd_grace"
  /\ polls' = 0
  /\ UNCHANGED <<owner, age, sigkilled, target, ep, batch, sdResult>>

\* One turn of a polling loop with the given deadline: look; gone, return True;
\* otherwise sleep and look again.
Poll(deadline) ==
  /\ polls < deadline
  /\ \E r \in QemuPids({target}) :
       \/ r.raised /\ Finish("raised") /\ UNCHANGED hostVars
       \/ ~r.raised /\ r.pids = {} /\ Finish("ok") /\ UNCHANGED hostVars
       \/ /\ ~r.raised /\ r.pids # {}
          /\ PollSleep
          /\ polls' = polls + 1
          /\ UNCHANGED <<owner, st, sigkilled, pc, target, ep, batch, sdResult>>

\* Start the next stage with its loop counter at zero.
NextStage(stage) ==
  /\ pc' = stage
  /\ polls' = 0
  /\ UNCHANGED <<hostVars, target, ep, batch, sdResult>>

SdGrace == pc = "sd_grace" /\ Poll(GracePolls)

\* Bug: the grace period is one poll short.
SdGraceOverEarly ==
  pc = "sd_grace" /\ polls + 1 >= GracePolls /\ NextStage("sd_round")

SdGraceOver == pc = "sd_grace" /\ polls >= GracePolls /\ NextStage("sd_round")

\* A kill round looks again; an empty list ends the rounds.
SdRound ==
  /\ pc = "sd_round"
  /\ polls < KillRounds
  /\ \E r \in QemuPids({target}) :
       \/ r.raised /\ Finish("raised") /\ UNCHANGED hostVars
       \/ ~r.raised /\ r.pids = {} /\ NextStage("sd_verify")
       \/ /\ ~r.raised /\ r.pids # {}
          /\ batch' = r.pids
          /\ pc' = "sd_kill"
          /\ UNCHANGED <<hostVars, target, ep, polls, sdResult>>

SdRoundsOver ==
  pc = "sd_round" /\ polls >= KillRounds /\ NextStage("sd_verify")

\* Bug: the sentinel is not filtered out.
SdKillAny ==
  /\ pc = "sd_kill"
  /\ \E pid \in batch :
       /\ KillPid(pid)
       /\ batch' = batch \ {pid}
  /\ UNCHANGED <<owner, age, pc, target, ep, polls, sdResult>>

\* SIGKILL one process of the list, unless it is the sentinel.  The list is as
\* old as the look: the process may have gone, or died, in the meantime.
SdKill ==
  /\ pc = "sd_kill"
  /\ \E pid \in batch :
       /\ IF pid <= 0 THEN UNCHANGED <<st, sigkilled>> ELSE KillPid(pid)
       /\ batch' = batch \ {pid}
  /\ UNCHANGED <<owner, age, pc, target, ep, polls, sdResult>>

\* Bug: the rounds are not counted.
SdRoundEndUncounted ==
  /\ pc = "sd_kill"
  /\ batch = {}
  /\ pc' = "sd_round"
  /\ UNCHANGED <<hostVars, target, ep, polls, batch, sdResult>>

\* The list is done: sleep 3 s and go round.
SdRoundEnd ==
  /\ pc = "sd_kill"
  /\ batch = {}
  /\ pc' = "sd_round"
  /\ polls' = polls + 1
  /\ UNCHANGED <<hostVars, target, ep, batch, sdResult>>

\* Bug: the final deadline is taken for success.
SdVerifyOverOk ==
  /\ pc = "sd_verify"
  /\ polls >= VerifyPolls
  /\ Finish("ok")
  /\ UNCHANGED hostVars

\* Bug: no return after the final deadline.
SdVerifyOverNone ==
  /\ pc = "sd_verify"
  /\ polls >= VerifyPolls
  /\ Finish("None")
  /\ UNCHANGED hostVars

SdVerify == pc = "sd_verify" /\ Poll(VerifyPolls)

SdVerifyOver ==
  /\ pc = "sd_verify"
  /\ polls >= VerifyPolls
  /\ Finish("fail")
  /\ UNCHANGED hostVars

SdStep ==
  \/ SdPowerOff \/ SdGrace \/ SdGraceOver
  \/ SdRound \/ SdRoundsOver \/ SdKill \/ SdRoundEnd
  \/ SdVerify \/ SdVerifyOver

-----------------------------------------------------------------------------
(* The component on its own: any process table, any endpoint of the target,  *)
(* and every launcher of the target past its exec, as after an endpoint has   *)
(* been found.  FleetBuild has the calls that come earlier.                   *)

ShutdownInit ==
  /\ owner \in [Pids -> Distros \cup {Foreign}]
  /\ st \in [Pids -> {"launching", "up", "gone"}]
  /\ age = [p \in Pids |-> 0]
  /\ sigkilled = {}
  /\ pc = "sd_off"
  /\ target \in Distros
  /\ \A p \in Pids : st[p] = "launching" => owner[p] # target
  /\ ep \in PidsOf({target}) \cup {NoEndpoint}
  /\ polls = 0
  /\ batch = {}
  /\ sdResult = "none"

ShutdownNext ==
  \/ SdStep
  \/ HostStep /\ UNCHANGED sdVars

\* Every call the program makes has a timeout of its own, so it keeps stepping.
ShutdownSpec ==
  /\ ShutdownInit
  /\ [][ShutdownNext]_shutdownVars
  /\ WF_shutdownVars(SdStep)

-----------------------------------------------------------------------------
(* Properties. *)

ShutdownTypeOK == HostTypeOK /\ SdTypeOK /\ pc \in SdPoints

\* shutdown_and_verify only ever SIGKILLs QEMUs of the directory it was given:
\* neither the operator's other VMs nor, through the -1 that stands for an
\* unusable pgrep, everything the user runs.
OnlyTargetKilled == \A p \in sigkilled : owner[p] = target

\* "Returns True on success": once True has been returned, no QEMU of the target
\* is left, and none appears later.  In particular a look that failed, and a
\* deadline that passed, never count as "the VM is gone".
OkMeansGone == sdResult = "ok" => NoneAlive(target)

\* A guest that accepted the poweroff gets its whole grace period: SIGKILL
\* never reaches it before GracePolls sleeps have passed, so a guest that halts
\* within SHUTDOWN_TIMEOUT_SEC keeps a clean disk.
GraceBeforeKill ==
  [][\A p \in sigkilled' \ sigkilled :
       st[p] = "halting" => age[p] >= GracePolls]_shutdownVars

\* The call returns, whatever pgrep and the guest do.
ShutdownReturns == <>(pc = "sd_done")

\* Claimed by _qemu_pids ("cannot abort the caller"): no exception comes out.
NeverRaises == sdResult # "raised"

=============================================================================
