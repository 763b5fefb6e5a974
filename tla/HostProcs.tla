------------------------------- MODULE HostProcs -------------------------------
(***************************************************************************)
(* The host's process table, as far as the fleet builder can see and       *)
(* change it.  A process identity is either a QEMU of some target          *)
(* directory ~/VMs/<distro>, from the moment qemu.launch() spawns its bash *)
(* launcher to the moment it is gone, or a QEMU the operator runs          *)
(* elsewhere (owner Foreign).                                              *)
(*                                                                         *)
(* The launcher is a bash script that probes for a free SSH port and only  *)
(* then execs qemu-system-*: until the exec, "pgrep -f qemu-system.*dir"   *)
(* cannot see it.  A process id is never reused.                           *)
(***************************************************************************)
EXTENDS Integers

CONSTANTS
  Distros,        \* the members of DISTROS; one target directory each
  Foreign,        \* owner of the QEMUs outside OUT_ROOT
  Pids,           \* process identities the host can hand out
  PgrepFaults,    \* the ways pgrep may fail on this host, a subset of Faults
  PromptLauncher  \* TRUE: a spawned launcher execs (or dies) at once

\* pgrep exits with a code other than 0 and 1, or is not on PATH ("unusable"),
\* or does not answer within its 30 s ("hang").
Faults == {"unusable", "hang"}

ASSUME PidsAssumption    == Pids \subseteq Nat \ {0}
ASSUME ForeignAssumption == Foreign \notin Distros
ASSUME FaultsAssumption  == PgrepFaults \subseteq Faults
ASSUME LauncherAssumption == PromptLauncher \in BOOLEAN

VARIABLES
  owner,      \* owner[p]: the target directory on p's command line
  st,         \* st[p]: where process p is in its life
  age,        \* age[p]: 5 s sleeps since p's guest accepted a poweroff
  sigkilled   \* the processes that have received SIGKILL from this program

hostVars == <<owner, st, age, sigkilled>>

ProcStates == {"free", "launching", "up", "halting", "killed", "gone"}

HostTypeOK ==
  /\ owner \in [Pids -> Distros \cup {Foreign}]
  /\ st \in [Pids -> ProcStates]
  /\ age \in [Pids -> Nat]
  /\ sigkilled \subseteq Pids

-----------------------------------------------------------------------------
(* What pgrep answers. *)

Visible(p) == st[p] \in {"up", "halting", "killed"}
Alive(p)   == Visible(p) \/ st[p] = "launching"

\* The QEMU processes whose command line names one of the directories in S.
PidsOf(S) == {p \in Pids : Visible(p) /\ owner[p] \in S}

\* No process of directory d is left, not even a launcher.
NoneAlive(d) == \A p \in Pids : owner[p] = d => ~Alive(p)

\* provider.list_running_qemu_pids: the processes, or an exception.
Pgrep(S) ==
  {[exc |-> "none", pids |-> PidsOf(S)]}
    \cup {[exc |-> f, pids |-> {}] : f \in PgrepFaults}

\* The value _qemu_pids returns for "could not look".
Unknown == -1

\* Bug: a failed look counts as "no process".
QemuPidsOptimist(S) ==
  {[raised |-> r.exc = "hang", pids |-> r.pids] : r \in Pgrep(S)}

\* lifecycle._qemu_pids: an unusable pgrep becomes {Unknown}; the timeout of
\* pgrep itself (subprocess.TimeoutExpired) is not caught.
QemuPids(S) ==
  {[raised |-> r.exc = "hang",
    pids   |-> IF r.exc = "unusable" THEN {Unknown} ELSE r.pids] :
       r \in Pgrep(S)}

-----------------------------------------------------------------------------
(* What the program does to processes. *)

\* The processes "kill -9 pid" reaches; -1 addresses every process of the user.
Signalled(pid) == {p \in Pids : Alive(p) /\ (pid = p \/ pid = Unknown)}

\* lifecycle.kill_pid.  A process under SIGKILL stays in the table until the
\* kernel has torn it down.
KillPid(pid) ==
  /\ st' = [p \in Pids |-> IF p \in Signalled(pid) THEN "killed" ELSE st[p]]
  /\ sigkilled' = sigkilled \cup Signalled(pid)

\* A 5 s sleep of the polling loops.
PollSleep ==
  age' = [p \in Pids |-> IF st[p] = "halting" THEN age[p] + 1 ELSE age[p]]

\* qemu.launch: Popen of the launcher in a session of its own, never waited for.
Spawn(d) ==
  \E p \in Pids :
    /\ st[p] = "free"
    /\ owner' = [owner EXCEPT ![p] = d]
    /\ \E s \in IF PromptLauncher THEN {"up", "gone"} ELSE {"launching"} :
         st' = [st EXCEPT ![p] = s]
    /\ UNCHANGED <<age, sigkilled>>

-----------------------------------------------------------------------------
(* What processes do by themselves. *)

\* The launcher has found a port and becomes qemu-system.
LauncherExec(p) ==
  /\ st[p] = "launching"
  /\ st' = [st EXCEPT ![p] = "up"]
  /\ UNCHANGED <<owner, age, sigkilled>>

\* A process ends: no free port, a crash, the guest has halted, the kernel has
\* finished a kill.
ProcExit(p) ==
  /\ Alive(p)
  /\ st' = [st EXCEPT ![p] = "gone"]
  /\ UNCHANGED <<owner, age, sigkilled>>

HostStep == \E p \in Pids : LauncherExec(p) \/ ProcExit(p)

=============================================================================
