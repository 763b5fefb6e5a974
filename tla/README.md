# linux-desktop-vm: a TLA+ verification development

`linux-desktop-vm` builds Linux desktop VMs under QEMU. `setup_vm.py` builds one; the
*fleet builder* (`linux_vm/fleet/`) builds several one after the other, boots each, waits for
cloud-init over SSH, believes or disbelieves its success mark, shuts the VM down and reports. What
is hard about it is not any one function but that four kinds of actors move at the same time: the
fleet program, its `setup_vm.py` child, the launchers and QEMUs (in sessions of their own, outliving
both), and the guest's cloud-init; and that everything the program knows of the others comes from
looks (`pgrep`, SSH, a log file) that may fail and are out of date when they are used.

## 1. Inventory

| component | code | state it keeps | operations | interacts with |
|---|---|---|---|---|
| process table, pgrep, kill | `provider.py`, `fleet/lifecycle.py:38-71`, `qemu.py:712-825` | none of its own: the host's processes | list by directory, SIGKILL, spawn launcher | shutdown, preflight, port discovery |
| shutdown of a VM | `fleet/lifecycle.py:87-162` | stage, polls, list of pids | poweroff, grace, 3 kill rounds, verify | guest over SSH, process table |
| build of one distro, build loop | `fleet/orchestrator.py:31-211`, `fleet/main.py:443-481` | `vm_started`, `cloud_init_ok`, `failure_reason`, `failed_distros` | phase 1 (child), discovery, reach, wait, `finally`, classify | everything above |
| cloud-init wait | `fleet/ssh.py:199-603` | status last seen, time since start | probe, marker look, 900 s fallback, deadline | guest's marks, SSH |
| simulate phase | `fleet/orchestrator.py:260-483` | `vm_started`, `ok`, `fail_seen`, per-distro status | phase 1 (child), discovery, wait, marker probes, `finally` | VM builder, cloud-init wait, shutdown |
| command line, gates, exit status | `fleet/main.py` | flags, plan, `sim_results`, `failed_distros`, extension server | gates, preflight, prefetch, simulate, build | all phases |
| executor | `fleet/executor.py` | child process tree | run with timeout, kill tree | phase 1, prefetch, gates |
| image cache | `download.py:250-398, 422-506, 717-785`, `orchestrate.py:153-191`, `orchestrator.py:214-257` | cached image, `.part`, image in the VM directory | resume, rename, verify, link or copy, three attempts | mirror, disk |
| extension server | `download.py:530-711` | one detached process, a port | start, stop | guest |
| VM builder | `orchestrate.py`, `qemu.py`, `templates.py`, `config.py` | files of the target directory: image, disk, key pair, seed ISO, variable store, launcher, credentials | each made, replaced or kept; launch | process table, image cache, VMs that run from the directory |
| console monitor | `monitor.py` | read offset in a growing file, phases found | stat, read, search; wait for SSH | guest's console, fresh builds replacing it |
| host detection, sizing | `host.py`, `qemu.py:90-131, 281-353` | none | cores, memory and firmware from host facts | VM builder |
| venv bootstrap | `venv_bootstrap.py` | one environment variable | one re-exec | all scripts |
| lint, audit, tests | `scripts/` | none | report by exit code | gates |
| templates | `templates/*.j2` | marks in the guest's log | checks, one runcmd entry after the other | cloud-init wait |

What makes each of them correct, and where it is hard, is the list of hazards in `PROJECT.json`,
each at its line.

## 2. Modules

| module | models | composes | checked by | proved in |
|---|---|---|---|---|
| `HostProcs` | process table, `pgrep`, `_qemu_pids`, `kill_pid`, launcher until `exec` | | through the next two | |
| `VmShutdown` | `shutdown_and_verify` | `HostProcs` | `MCVmShutdown` | `VmShutdown_proofs` |
| `BuildLoop` | what main's loop over the distros promises | | as a property of `FleetBuild` and `FleetMain` | `FleetBuild_proofs`, `FleetMain_proofs` |
| `FleetBuild` | preflight, `build_and_provision`, build loop, Ctrl-C | `VmShutdown`, `BuildLoop` | `MCFleetBuild` | `FleetBuild_proofs` |
| `VerdictContract` | what a wait for cloud-init promises | | as a property of `SimulateVerdict` | its safety in `SimulateVerdict_proofs` |
| `CloudInitWait` | `ssh_wait_cloud_init`, marker look, the guest's checks, the host's clock | `VerdictContract` | `MCSimulateVerdict` | `SimulateVerdict_proofs` |
| `SimulateVerdict` | `simulate_distro` from the wait to PASS or FAIL | `CloudInitWait` | `MCSimulateVerdict` | `SimulateVerdict_proofs` |
| `SetupVm` | `setup_vm.py` building one directory, again and again | | `MCSimulatePhase` | `SetupVm_proofs` |
| `SimulatePhase` | `simulate_distro`, call after call, over that directory | `SetupVm` | `MCSimulatePhase` | `SimulatePhase_proofs` |
| `ConsoleMonitor` | `setup_vm.py monitor`: scanner, phase bar, `--tail` | | `MCConsoleMonitor` | `ConsoleMonitor_proofs` |
| `HostFit` | defaults for cores and memory, choice of firmware | | | `SetupVm_proofs` |
| `ImageCache` | `download`, `verify_hash`, `download_to_cache`, `_ensure_image`, `prefetch_images` | | `MCImageCache` | `ImageCache_proofs` |
| `FleetMain` | `main` from the flags to the exit status | `BuildLoop` | `MCFleetMain` | `FleetMain_proofs` |

**HostProcs.** A process is free, launching, up, halting (its guest accepted a poweroff), killed
(SIGKILL delivered, not yet torn down) or gone, and has an owner: the target directory of a distro,
or `Foreign` for a QEMU the operator runs elsewhere. `pgrep -f 'qemu-system.*dir'` sees it from its
`exec` on; a launcher still probing ports is invisible. Process ids are not reused.
`_qemu_pids` turns an unusable pgrep into `{-1}`; the 30 s timeout of pgrep goes through it.

**VmShutdown.** One action per step of `shutdown_and_verify`: poweroff over SSH, the grace poll
loop, kill rounds (list, kill one pid after the other, sleep), the verify loop, each look an atomic
step between which the host moves.

**BuildLoop.** The abstract promise of main's loop ("continue-on-failure"): the distros of the plan
are built one after the other, whatever became of the ones before, every build that comes back
counts once, as a success or as a failure, and the loop is complete only behind the last.
`KeepsLoop` says that `FleetMain` (the loop with everything before and after it) and `FleetBuild`
(the inside of a build) both implement it; the plan is made by `FleetMain` and given to `FleetBuild`.

**FleetBuild.** `pc` is the point of the fleet program, `child` the `setup_vm.py` process of
phase 1, `HostStep` the rest. Every exit of the `try` block (abort, exception, Ctrl-C, verdict)
leads into the `finally` block as in the code; `Classify` is the `if/elif` of main's loop. What the
cloud-init wait says is any of its three results: `CloudInitWait` has its inside.

**CloudInitWait.** The guest runs its checks in order, a failing one does not stop the later ones,
and the marks they may write are those of `_macros.j2` and the templates. The host alternates two
looks, status and mark, with the guest moving in between; each may miss. Time is counted in turns
of 300 s as `time.time()` tells it, and `ClockSet` sets that clock to any value, forward or back.
`simulate` says which of the two templates the guest runs. `missed` is a history variable: a look has missed a mark that was there. The properties
that SSH failures make impossible have `~missed` as their premise, so they are checked with
unreliable SSH and reliable SSH in the same run. `VerdictContract` is the abstract promise (one
verdict, final, "complete" only with the mark there, and in the end); `KeepsContract` says that
`CloudInitWait` implements it.

**SimulateVerdict.** Continues the wait of a simulate-mode guest with the OK and FAIL probes (five
attempts) and the last FAIL probe.

**SetupVm.** One invocation of `setup_vm.py` after another over one target directory, each finding
what the ones before have left: complete, failed half way, or killed. A file carries the number of
the invocation that created it, which is also its inode, and whether it is complete; a write takes
two steps (`Create`, `Finish`) so that a kill can fall in between. The key pair has two halves,
written one after the other. `vm[v]` keeps what each QEMU opened when it was started, by `--start`
or by the operator's hand (`HandStart`), and outlives the invocation. `tornVars` is a history
variable: a copy of the firmware variables was cut short, which is the one thing no later build
repairs (`qemu.py:686`). The image itself, its cache and checksums are `ImageCache`'s.

**SimulatePhase.** Extends `SetupVm` with `simulate_distro`: phase 1 is an invocation, `Discover`
takes any running VM of the directory (`find_running_ssh_port` takes the first pid pgrep prints),
the mark is believed of the VM on that port or of the one whose `console.log` is there, and the
`finally` block shuts down what it finds, with its result ignored. Between calls the operator may
build in the same directory or run its launcher. `left` is a history variable: VMs that a cleanup
left running or the operator started. That `shutdown_and_verify` returning True means the VMs are
gone is `VmShutdown`'s `OkMeansGone`, used here as what `ShutdownDone` does.

**ConsoleMonitor.** A log is a length and the positions at which marks end in it; QEMU appends in
pieces of any length, a fresh build removes the file and writes another. `Stat` and `Read` are two
steps, as `stat()` and `open()` are. `fooled` is a history variable: a replaced log was taken for
the old one because it had grown at least as long, which the scanner cannot tell.

**HostFit.** Pure functions, stated for theorems and not for runs.

**ImageCache.** A file is the sequence of its blocks, each the version it belongs to, so that a
truncated file or one resumed across two versions differs from a published one. Resumes get 206,
200 or 416 as the server likes; streams break (and are resumed), end early without a sign (a sized
`read` of `http.client` does not raise), or are given up; the process is killed anywhere, also half
way through a copy; the mirror publishes a new version under the same address. Image and checksum
file are published together. A hard link is a copy by value, since neither file is ever written in
place. `began` and `bad` are history variables.

**FleetMain.** One action per phase of `main`; what a gate, a download, a simulated distro or a
build comes to is any of its outcomes. `server` is the extension server, a process of its own.

### What is abstracted

Looks and commands take no time and are atomic. Wall-clock jumps are in `CloudInitWait`; the other
loops count their sleeps. Failing log writes are left out. Diagnostics written to the build log are left out. A guest accepts a poweroff or not.
Environment definitions (pgrep, kill, Ctrl-C, the guest's cloud-init, the mirror) are marked
external in the map.

## 3. Runs

| run | question | bounds |
|---|---|---|
| `shutdown` | one shutdown on every host: does it return, is True only said of a dead VM, is nothing else killed, does a halting guest get its grace? | 3 processes with any owner and state, 2 grace polls, the code's 3 kill rounds, 2 verify polls, pgrep failing both ways |
| `shutdown_hang` | *violation*: pgrep's own timeout raises through `_qemu_pids` | the same, only that fault |
| `fleet_faulty` | preflight and two builds beside an orphan or a foreign VM, slow launchers, failing pgrep, Ctrl-C anywhere | 3 processes: one at the start, one for each launch; one poll of each loop stands for all of them; one Ctrl-C |
| `fleet_twice` | the same distro twice: leftovers of the first build meet the second; the inductive invariant; termination; the loop as `BuildLoop` has it | 2 processes, as above |
| `fleet_late_launcher` | *violation*: `shutdown_ok = True` while a launcher is about to exec | |
| `fleet_pgrep_lost` | *violation*: a failing pgrep ends the fleet early | |
| `simulate` | the wait of a real build and of a dry run: COMPLETE only if verified, PASS only with a SIMULATE-OK, FAIL wins, a finished guest not lost, contract kept, a result in the end | 3 checks, 6 turns (1800 s / 300 s), fallback after 3 (900 s), the code's 5 marker attempts, two settings of the clock |
| `simulate_fallback` | *violation*: a check that fails after the last probe | the same, the clock never set |
| `simulate_phase` | dry runs, builds and prefetches of one directory, killed or failing anywhere: what exit 0 leaves, whose SIMULATE-OK a PASS is, whether the key opens every running VM, whether an open file is ever written | 2 invocations, 2 VMs, three command lines |
| `monitor` | the marks found are those of a full search, completion is seen, `--tail` gives up | 2 marks of 3 bytes, logs of up to 7, an overlap of 2, 2 logs, 12 units of 10 s |
| `image` | prefetch after prefetch of one image | 3 versions of 2, 3 and 1 blocks, the code's 3 attempts |
| `main_all` | all mode flags with lists of up to two distros, any phase failing, Ctrl-C anywhere; the loop as `BuildLoop` has it | the 2 distros of the code and a misspelt one; gates all on, one off, all off |

Why the bounds are enough: a build launches one process, so two builds with an orphan need three
identities. A polling loop distinguishes "seen within the loop" from "loop used up", which one
poll already does; `shutdown` uses two and three so that counters are seen to advance. A
second Ctrl-C can only hit places the first can. Three checks have one before, at and after a host
look; three versions shrink and grow. Two invocations and two VMs have a directory with leftovers and
a VM of the first running under the second; a mark of three bytes with an overlap of two is the
least overlap that works (`Overlap + 1 >= Width`; the code's is 8192 bytes for marks of some 60), and
seven bytes hold two marks and a byte between. Every safety property of these runs is also a theorem
below, for every value of the constants; the bounds matter for liveness and for the violations.

### Fairness

Weak fairness on the program's own steps only: every wait of the code has a deadline, a count
or a hard timeout (`run_with_hard_timeout`, `run_to_file`). Nothing is assumed of guests, launchers,
QEMUs, SSH, pgrep or the operator. In `ConsoleMonitor` it is
the monitor's own step, each a sleep, a read or a connection attempt with a timeout; the guest, the
builds and the end of a stream are left to themselves. `ImageCache`, `FleetMain`, `SetupVm` and
`SimulatePhase` state no liveness.

## 4. What is proved

Every invariant, every action property and the safety of every refinement that a passing run checks
is a theorem of the specification, for every value of the constants that meets the ASSUMEs of the
modules. Each proof has the same layout:
an inductive invariant whose parts have names and comments, one lemma for the initial states, lemmas
for what a step can do, one lemma per part of the invariant, and the theorems. TLC has checked every
inductive invariant on the bounds of section 3 before it was proved.

`VmShutdown_proofs`: `ShutdownInv` is inductive, for every process table, fault of pgrep and number
of polls and kill rounds. `OkMeansGone` says "and none appears later", which needs that no launcher
of the target is left when the shutdown begins (`NoLauncher`, which `ShutdownInit` says and the run
`fleet_late_launcher` shows to matter), and that an "ok" comes from a look that worked
(`OkMeansUnseen`). `OnlyTargetKilled` needs that the list of the kill loop was read off the target
and that no process changes hands (`BatchIsTarget`); `GraceBeforeKill` needs the age of a halting
guest at each stage (`GraceSoFar`). The lemmas about a step of `shutdown_and_verify` (`SdEffects`,
`SdTypeStep`, `SdBatch`, `SdStages`) and about the host (`NothingCreated`, `GoneStaysGone`) are
stated without the invariant, and serve `FleetBuild_proofs`, too. From it: `ShutdownInvariant`,
`ShutdownTypeCorrect`, `OnlyTheTargetIsKilled`, `OkIsGone`, `ShutdownGivesGrace`.

`FleetBuild_proofs`: `IInv` is inductive, for every set of distros, order of builds (also naming a
distro twice), process table, fault of pgrep and number of polls and Ctrl-Cs. The properties are
not inductive by themselves: that a build logged as SUCCESS has left nothing behind
(`SuccessMeansGone`) needs to know that phase 1 launched at most one process (`OneLaunch`), that an
endpoint was found only by seeing that process past its `exec`, and that "ok" of the shutdown
came from a look that worked; `ExitZeroMeansAllBuilt` needs `SuccessSoFar`; `OperatorVmsUntouched`
needs that what the kill loops hold belongs to the fleet (`KillsAreOurs`); `GraceBeforeKill`
needs the age of a halting guest at each stage (`GraceGiven`). `Control` ties the program
points to the flags. The proof has a lemma for what a step may do to the process table
(`HostEffects`, by way of the shared `SdEffects`), one for what it may do to the program's variables (`Frames`), and one per part of
`IInv`. From it: `TypeCorrect`, `SuccessIsGone`, `ExitZeroIsHonest`, `OperatorVmsSafe`,
`GraceIsGiven`, `StartedIsShutDown`, and `FleetKeepsLoop`: by `Frames`, only the start and the
return of a build touch what main has counted (`LoopStep`), and the loop is left as "done" only
behind the last distro (`DoneOnlyOnce`). Premises: the ASSUMEs of the modules (process ids are positive,
`Foreign` is not a distro, and types).

`SimulateVerdict_proofs`: `SimInv` is inductive, for every number of checks, deadline, fallback,
number of rounds and settings of the clock. Every step is one of five kinds (`StepKinds`): the
guest's, the clock's, the wait going on, the wait returning, and the look for marks afterwards. The
guest's part (`GuestInv`) is why COMPLETE means verified: in a real build the success mark comes last
and only if nothing failed, and no mark comes once cloud-init has ended. `WaitInv` and `MarkInv` say
at which points a verdict is out and what has been seen. `CompleteIsVerified` is about
`CloudInitWait` inside the composition, for either template. `FinishedIsKept` is an action property:
the step that returns FAILED or TIMEOUT is the one that has missed the mark. `ContractIsKept` maps
every step to a step of `VerdictContract` or none, which is the safety of `KeepsContract`. From it
also `SimInvariant`, `SimTypeCorrect`, `PassIsOk`, `FailureWins`.

`ConsoleMonitor_proofs`: `MonInv` is inductive, for every set of marks, number and length of logs and
every overlap with `Overlap + 1 >= Width`. What is remembered is right for the log the offset is a
position in (`ScanOK`); a read that is due goes by a size that this log has had (`ReadOK`); an offset
of zero goes with nothing remembered (`OffsetOK`). The heart is `MarkInChunk`: a mark that ends
behind the offset begins inside the chunk, because it reaches back less than the overlap. From it:
`MonInvariant`, `MonTypeCorrect`, `IncrementalScanIsFull`.

`FleetMain_proofs`: `MainInv` is inductive, for every list of known distros, every set of command
lines (also with names twice, unknown, or in any order) and number of Ctrl-Cs. `PhasesOK` puts every
phase behind the one that guards it: a real build behind what `Vetted` says, a preflight behind
`~DryRun`. `BuiltOK` follows the loop: as long as nothing has failed, every build so far was a
success. `FailedOK` says that what has failed is behind `pos` in the plan, hence, in a plan in order,
that the first failure is the first in DISTROS, which is what `HintIsEnough` needs. That a plan
holds known distros only (`PlanType`) is about a filter defined by recursion over its positions;
since the library's induction cannot be instantiated with a predicate, `NatSetInduction` states
induction for a set, from the well-foundedness of the natural numbers, and `KeptIsAtOrAfter` and
`AtOrAfterType` use it, and so do `AtOrAfterKeeps` (the filter keeps every member that is not
before `--start-from`) and `RestOfDistros` (the slice of DISTROS does the same), which give
`PlanIsWhatWasAsked`: a plan holds what was asked for, no more and no less. `MainKeepsLoop` maps
every step of `main` to a step of `BuildLoop` or none; a plan is made once and before anything is
built, and "complete" needs that the loop was left at its end and not by an exception, which
`raised` tells in the `finally` block. From `MainInv`: `MainInvariant`, `MainTypeCorrect`, `DryRunsDoNoHarm`,
`RealBuildsAreVetted`, `ZeroIsDone`, `ServerDoesNotOutlive`, `HintIsEnough`.

`ImageCache_proofs`: `CacheInv` is inductive, for every sequence of image sizes and every number of
attempts. `ImageIsPublished` rests on `PlacedIsPublished` (only what has just been verified is
placed); `GoodImageIsKept` on `OneFile` (a download begins only over an empty cache entry).
`FailsOnlyIfDisturbed` needs an account: the failures so far, plus one for a part file that is not a
prefix of the published image, plus one for a verification that is bound to fail, never exceed the
disturbances by more than one (`Budget`). Every step is then one of five kinds (`Quiet`, `Ends`,
`Renames`, `Spoils`, `Begins`), none of which overdraws it. From it: `PlacedImageIsPublished`,
`AttemptsOutlastDisturbances` (n attempts fail only after n - 1 disturbances), `GoodImageStays`.

`SetupVm_proofs`: `SInv` is inductive, for every number of invocations and VMs and every set of
command lines. `SuccessIsWhole` is about the end of an invocation; `DiskOK`, `SeedOK`, `NvramOK` and
`LauncherOK` say file by file what it has created at each point. `RunningVmReachable` needs that the
public half, once made, stays with its private half, and that every seed and every VM was given
that one (`KeysOK`). `OpenFilesUntouched` is an action property: a file changes only while an
invocation writes its own (`FilesStep`), and before it launches none of its own is open (`VmsOK`).
From it: `SetupTypeCorrect`, `SuccessLeavesAWholeVm`, `KeyFitsEveryRunningVm`, `NoOpenFileIsWritten`.

`SimulatePhase_proofs`: every step of the simulate phase is a step of `SetupVm` or none
(`StepIsSetup`), so that `PhaseSpec` implies `SetupSpec` and has its theorems
(`PhaseImplementsSetup`). `VerdictIsFresh` needs that between two calls only VMs in `left` run
(`RunningCounts`), which is what the `finally` block is for, and that `console.log` is that of such
a VM once phase 1 has come to its end, unless this call's own VM died before it could replace the
old log and the port is a leftover's (`ConsoleCounts`). From it: `PhaseTypeCorrect`, `FreshVerdict`.

`HostFit`, at the end of `SetupVm_proofs`: half of the cores and of the memory is left to a host
that has them, and never more taken than there is from 8 GB on (`HalfTheCores`, `HalfTheMemory`);
firmware of another package manager is never chosen (`NoCrossPrefixFirmware`), the binary's own
always (`OwnFirmwareWins`).

Only model-checked: liveness (`ShutdownReturns`, `FleetTerminates`, `SimulateDecides`,
`SeesCompletion`, the liveness of `KeepsContract`), which is out of the prover's reach, and the four
runs that end in a violation.

## 5. Findings

Runs that end in a violation show the program doing other than a comment of the repository says:
`_qemu_pids` raises on pgrep's timeout (`lifecycle.py:53-57`); `shutdown_ok = True` beside a
launcher about to exec (`orchestrator.py:74`); one failing pgrep ends the fleet
(`main.py:319`); a SIMULATE-FAIL after the last probe (`orchestrator.py:388-391`).
Each is quoted in `PROJECT.json`.

Observed while reading, without a run of its own:

- `main.py:187` says only one VM runs at a time; the loop goes on after a VM that could not be
  shut down (`main.py:448-451`), which `orchestrator.py:76` calls grounds to abort the fleet.
- With `--distros` in an order other than that of `DISTROS`, `--start-from` filters by `DISTROS`
  (`main.py:163, 183-184` against `306-307`), and the hint of the summary (`main.py:480`) leaves
  out `--distros`; `HintCoversFailed` has the order as its premise.
- `--simulate-only --prefetch-only` exits 0 without simulating (`main.py:179`, `389-392`).
- `simulate_all` "never exits early" (`orchestrator.py:467`), but only `PhaseAbort` is caught
  below it.
- The comment at `download.py:357-364` expects a truncated response to raise; with sized reads it
  ends the loop like a complete one, and only the verification notices (`BodyShort`).
- `executor.py:75-77` calls killing the process group the way "to take the VM down with its
  parent"; `qemu.launch` gives the launcher a session, hence a group, of its own
  (`qemu.py:820`), and it is the look of the `finally` block that finds the VM.
- A `setup_vm.py` killed while it copies the firmware variables leaves a short `nvram.fd` that every
  later build keeps (`qemu.py:686`, the premise `tornVars` of `SuccessIsWhole`).
- `monitor --tail` announces "falling back to phase-bar mode" and returns 1 (`monitor.py:319-321`);
  its Ctrl-C during the wait is not caught, that of the phase bar is.
- `detect_tools` asks for a virgl-enabled QEMU (`qemu.py:310-315`); the hint printed for its error
  names `brew install qemu`, which it refuses (`qemu.py:356-363`).
- With `--start`, nothing looks for a VM that already runs from the directory (`qemu.py:786`); after
  a rebuild it has a disk of its own but the same variable store.

## 6. Not modelled, and the plan

Not modelled: formatting and logging; installing packages in the guest; the QEMU command line and
the probes of the binary for graphics, audio and accelerators (`qemu.py:134-266, 387-673`), whose
result only changes arguments; the extraction of archived images (`orchestrate.py:86-150, 440-479`),
which no distro of `config.py` uses; the diagnostics of a failed wait and the kill of stale ssh
processes (`fleet/ssh.py`); the archive and the port of the extension server (`download.py:530-711`);
the static checks behind the gates (their exit codes are in `FleetMain`); the venv re-exec, which is
one guard on one environment variable; the GPU report scripts. Which hazards stay without a
property, and why, is noted at each in `PROJECT.json`: a second program in the same image cache, the
extension server's port, gentoo's clock inside the guest, two VMs of one directory sharing a
variable store, the monitor ended by an unusable pgrep, and directories whose paths are prefixes of
one another.

Next, in this order:

1. An abstract specification of `shutdown_and_verify`, which `FleetBuild` and `SimulatePhase` then
   use in place of the detailed one (`SimulatePhase` has it as what `ShutdownDone` does).
2. Two programs sharing one image cache (`ImageCache` with two processes and one `.part`).
3. The executor's process tree (`executor.py`), with gates and phase 1 as its users.
