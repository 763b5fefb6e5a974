-------------------------------- MODULE SetupVm --------------------------------
(***************************************************************************)
(* setup_vm.py building one VM directory, invocation after invocation.     *)
(*                                                                         *)
(* Each invocation finds what the ones before it have left in the          *)
(* directory, whether they came to their end, failed or were killed, and   *)
(* VMs started earlier may still be running from it.  A file carries the   *)
(* number of the invocation that created it, which is also what tells one  *)
(* inode of that name from another, and whether it is complete; a write    *)
(* takes two steps, so that a kill can fall in between.  The cloud image   *)
(* itself, its cache and its checksums are ImageCache's.                   *)
(***************************************************************************)
EXTENDS Naturals

CONSTANTS
  MaxRuns,   \* bound on the invocations
  MaxVms,    \* bound on the QEMUs ever started from the directory
  Options    \* the command lines in use, of [start, simulate, prefetch, keep]

ASSUME BoundsAssumption == MaxRuns \in Nat /\ MaxVms \in Nat
ASSUME OptionsAssumption ==
  Options \subseteq [start : BOOLEAN, simulate : BOOLEAN, prefetch : BOOLEAN, keep : BOOLEAN]

VARIABLES
  pc,        \* control point of the invocation; "idle" between two
  run,       \* number of the invocation
  opt,       \* its options
  exit,      \* its exit status; NoExit while it runs
  file,      \* file[a]: the file in the directory, NoFile if there is none
  priv, pub, \* the invocation that made that half of the key pair, 0 if absent
  seed,      \* what the seed ISO says: the authorized key, simulate mode or not
  console,   \* the VM whose output console.log holds, 0 if there is no file
  vm,        \* vm[v]: the QEMUs started so far and what they were started from
  tornVars   \* history: a copy of the firmware variables was cut short

progVars == <<pc, run, opt, exit>>
keyVars  == <<priv, pub>>
dirVars  == <<file, priv, pub, seed>>
setupVars == <<progVars, dirVars, console, vm, tornVars>>

Artifacts == {"image", "disk", "seed", "nvram", "launcher", "info"}
Runs   == 0..MaxRuns
VmIds  == 1..MaxVms
NoFile == [by |-> 0, whole |-> FALSE]
NoVm   == [state |-> "none", by |-> 0, disk |-> NoFile, seed |-> NoFile, nvram |-> NoFile,
           key |-> 0, simulate |-> FALSE]

Points == {"idle", "check", "image", "fetched", "prefetch", "disk", "resize", "drop",
           "templates", "keys", "keygen", "keypub", "seed", "seeded", "nvram", "copied",
           "launcher", "written", "info", "start", "summary"}
NoExit   == 255
Killed   == 137
Statuses == {0, 1, 2, 3, 4, 5, 7, Killed, NoExit}

Exists(a) == file[a].by # 0
Up(v)     == vm[v].state = "up"

SetupInit ==
  /\ pc = "idle" /\ run = 0 /\ exit = NoExit
  /\ opt \in Options
  /\ file = [a \in Artifacts |-> NoFile]
  /\ priv = 0 /\ pub = 0
  /\ seed = [key |-> 0, simulate |-> FALSE]
  /\ console = 0
  /\ vm = [v \in VmIds |-> NoVm]
  /\ tornVars = FALSE

-----------------------------------------------------------------------------
(* Control flow. *)

Goto(point) == pc' = point /\ UNCHANGED <<run, opt, exit>>
Quit(status) == pc' = "idle" /\ exit' = status /\ UNCHANGED <<run, opt>>

\* A file of this name, new or over the old one, whose writing has begun.
Create(a) == file' = [file EXCEPT ![a] = [by |-> run, whole |-> FALSE]]
Remove(a) == file' = [file EXCEPT ![a] = NoFile]
Finish(a) == file' = [file EXCEPT ![a].whole = TRUE]

\* The command line has been parsed and the target directory chosen.
Start(o) ==
  /\ pc = "idle"
  /\ run < MaxRuns
  /\ pc' = "check" /\ run' = run + 1 /\ opt' = o /\ exit' = NoExit
  /\ UNCHANGED <<dirVars, console, vm, tornVars>>

\* A foreign --gnome-ext-url or an unsupported host (2), no virgl-enabled QEMU (3),
\* no qemu-img, not even after "brew install" (4).
Refuse ==
  /\ pc = "check"
  /\ \E status \in {2, 3, 4} : Quit(status)
  /\ UNCHANGED <<dirVars, console, vm, tornVars>>

\* Tools located, Python packages installed or not, image resolved.
Located ==
  /\ pc = "check"
  /\ Goto("image")
  /\ UNCHANGED <<dirVars, console, vm, tornVars>>

-----------------------------------------------------------------------------
(* The image and the disk. *)

\* _ensure_image: a complete image of the resolved version is used as it is; one
\* that does not verify is removed, and the image is placed anew.
EnsureImage ==
  /\ pc = "image"
  /\ \/ file["image"].whole /\ Goto("prefetch") /\ UNCHANGED file
     \/ Create("image") /\ Goto("fetched")
  /\ UNCHANGED <<keyVars, seed, console, vm, tornVars>>

ImagePlaced ==
  /\ pc = "fetched"
  /\ Finish("image")
  /\ Goto("prefetch")
  /\ UNCHANGED <<keyVars, seed, console, vm, tornVars>>

PrefetchOnly ==
  /\ pc = "prefetch"
  /\ IF opt.prefetch THEN Quit(0) ELSE Goto("disk")
  /\ UNCHANGED <<dirVars, console, vm, tornVars>>

\* Bug: qemu-img converts into the disk that is there.
ConvertInPlace ==
  /\ pc = "disk"
  /\ IF Exists("disk") THEN file' = [file EXCEPT !["disk"].whole = FALSE] ELSE Create("disk")
  /\ Goto("resize")
  /\ UNCHANGED <<keyVars, seed, console, vm, tornVars>>

\* prepare_disk: the old disk is unlinked, and convert writes a new file.
Convert ==
  /\ pc = "disk"
  /\ Create("disk")
  /\ Goto("resize")
  /\ UNCHANGED <<keyVars, seed, console, vm, tornVars>>

Resize ==
  /\ pc = "resize"
  /\ Finish("disk")
  /\ Goto("drop")
  /\ UNCHANGED <<keyVars, seed, console, vm, tornVars>>

\* The image is a hard link or a copy; unless --keep-qcow2, it goes.  An unlink that
\* fails is passed over.
DropImage ==
  /\ pc = "drop"
  /\ \/ ~opt.keep /\ Remove("image")
     \/ UNCHANGED file
  /\ Goto("templates")
  /\ UNCHANGED <<keyVars, seed, console, vm, tornVars>>

-----------------------------------------------------------------------------
(* Templates, keys and the seed. *)

Templates ==
  /\ pc = "templates"
  /\ Quit(5) \/ Goto("keys")
  /\ UNCHANGED <<dirVars, console, vm, tornVars>>

\* Bug: a new pair in every invocation.
KeysAlways ==
  /\ pc = "keys"
  /\ priv' = 0 /\ pub' = 0 /\ Goto("keygen")
  /\ UNCHANGED <<file, seed, console, vm, tornVars>>

\* A pair is kept; a lone half is removed and a new pair made.
Keys ==
  /\ pc = "keys"
  /\ IF priv # 0 /\ pub # 0
     THEN Goto("seed") /\ UNCHANGED keyVars
     ELSE priv' = 0 /\ pub' = 0 /\ Goto("keygen")
  /\ UNCHANGED <<file, seed, console, vm, tornVars>>

\* ssh-keygen writes one half after the other; its failure is only a warning.
KeygenPrivate ==
  /\ pc = "keygen"
  /\ \/ priv' = run /\ Goto("keypub")
     \/ UNCHANGED priv /\ Goto("seed")
  /\ UNCHANGED <<file, pub, seed, console, vm, tornVars>>

KeygenPublic ==
  /\ pc = "keypub"
  /\ pub' \in {run, 0}
  /\ Goto("seed")
  /\ UNCHANGED <<file, priv, seed, console, vm, tornVars>>

\* render_jinja2_template and build_seed_iso: the public key that is there now is
\* authorized in the guest; the old ISO is unlinked.
Seed ==
  /\ pc = "seed"
  /\ Create("seed")
  /\ seed' = [key |-> pub, simulate |-> opt.simulate]
  /\ Goto("seeded")
  /\ UNCHANGED <<keyVars, console, vm, tornVars>>

SeedWritten ==
  /\ pc = "seeded"
  /\ Finish("seed")
  /\ Goto("nvram")
  /\ UNCHANGED <<keyVars, seed, console, vm, tornVars>>

-----------------------------------------------------------------------------
(* The launcher, the credentials, the launch. *)

\* _argv_firmware: without firmware, RuntimeError; the VM's variable store is made
\* once, by a copy of the template, and kept as it is ever after.
Nvram ==
  /\ pc = "nvram"
  /\ \/ Quit(1) /\ UNCHANGED file
     \/ Exists("nvram") /\ Goto("launcher") /\ UNCHANGED file
     \/ ~Exists("nvram") /\ Create("nvram") /\ Goto("copied")
  /\ UNCHANGED <<keyVars, seed, console, vm, tornVars>>

NvramCopied ==
  /\ pc = "copied"
  /\ Finish("nvram")
  /\ Goto("launcher")
  /\ UNCHANGED <<keyVars, seed, console, vm, tornVars>>

Launcher ==
  /\ pc = "launcher"
  /\ Create("launcher")
  /\ Goto("written")
  /\ UNCHANGED <<keyVars, seed, console, vm, tornVars>>

LauncherWritten ==
  /\ pc = "written"
  /\ Finish("launcher")
  /\ Goto("info")
  /\ UNCHANGED <<keyVars, seed, console, vm, tornVars>>

\* Bug: a failure to write the credentials is only logged.
InfoIgnored ==
  /\ pc = "info"
  /\ Goto("start")
  /\ \/ UNCHANGED file
     \/ file' = [file EXCEPT !["info"] = [by |-> run, whole |-> TRUE]]
  /\ UNCHANGED <<keyVars, seed, console, vm, tornVars>>

\* install-info.txt, 0600 from the start; not opened, or not written to its end: 7.
Info ==
  /\ pc = "info"
  /\ \/ Quit(7) /\ (UNCHANGED file \/ Create("info"))
     \/ Goto("start") /\ file' = [file EXCEPT !["info"] = [by |-> run, whole |-> TRUE]]
  /\ UNCHANGED <<keyVars, seed, console, vm, tornVars>>

\* What a QEMU opens when the launcher runs; by is 0 when the operator runs it.
Boots(v, by, state) ==
  vm' = [vm EXCEPT ![v] =
          [state |-> state, by |-> by, disk |-> file["disk"], seed |-> file["seed"],
           nvram |-> file["nvram"], key |-> seed.key, simulate |-> seed.simulate]]

\* qemu.launch: console.log is removed, if it can be, and the launcher spawned and not
\* waited for.  QEMU comes up, and writes a console.log of its own, or dies at once: no
\* free port, the port taken between the launcher's probe and QEMU's bind, a firmware
\* store of the wrong size.
Launch ==
  /\ pc = "start"
  /\ Goto("summary")
  /\ IF opt.start
     THEN \E v \in VmIds :
            /\ vm[v].state = "none"
            /\ \E state \in {"up", "gone"} :
                 Boots(v, run, state) /\ console' \in IF state = "up" THEN {v} ELSE {0, console}
     ELSE UNCHANGED <<console, vm>>
  /\ UNCHANGED <<dirVars, tornVars>>

Summary ==
  /\ pc = "summary"
  /\ Quit(0)
  /\ UNCHANGED <<dirVars, console, vm, tornVars>>

-----------------------------------------------------------------------------
(* Failures and the world. *)

\* Anything else the code lets through, an exception (1), or a kill: phase 1's
\* timeout, Ctrl-C.  What has been written stays.
Stop ==
  /\ pc # "idle"
  /\ \E status \in {1, Killed} : Quit(status)
  /\ tornVars' = (tornVars \/ pc = "copied")
  /\ UNCHANGED <<dirVars, console, vm>>

\* The operator runs the launcher again ("Re-run the generated launch-vm.sh"), between
\* two invocations; QEMU truncates console.log.
HandStart ==
  /\ pc = "idle"
  /\ file["launcher"].whole /\ Exists("disk") /\ Exists("seed") /\ Exists("nvram")
  /\ \E v \in VmIds :
       /\ vm[v].state = "none"
       /\ Boots(v, 0, "up")
       /\ console' = v
  /\ UNCHANGED <<progVars, dirVars, tornVars>>

\* VMs end: powered off, killed or crashed.
VmsEnd(ended) ==
  /\ \A v \in ended : Up(v)
  /\ vm' = [v \in VmIds |-> IF v \in ended THEN [vm[v] EXCEPT !.state = "gone"] ELSE vm[v]]
  /\ UNCHANGED <<progVars, dirVars, console, tornVars>>

SetupStep ==
  \/ Refuse \/ Located
  \/ EnsureImage \/ ImagePlaced \/ PrefetchOnly \/ Convert \/ Resize \/ DropImage
  \/ Templates \/ Keys \/ KeygenPrivate \/ KeygenPublic \/ Seed \/ SeedWritten
  \/ Nvram \/ NvramCopied \/ Launcher \/ LauncherWritten \/ Info \/ Launch \/ Summary
  \/ Stop

SetupNext ==
  \/ \E o \in Options : Start(o)
  \/ SetupStep
  \/ HandStart
  \/ \E ended \in SUBSET VmIds : VmsEnd(ended)

SetupSpec == SetupInit /\ [][SetupNext]_setupVars

-----------------------------------------------------------------------------
(* Properties. *)

File == [by : Runs, whole : BOOLEAN]

SetupTypeOK ==
  /\ pc \in Points
  /\ run \in Runs
  /\ opt \in Options
  /\ exit \in Statuses
  /\ file \in [Artifacts -> File]
  /\ priv \in Runs /\ pub \in Runs
  /\ seed \in [key : Runs, simulate : BOOLEAN]
  /\ console \in VmIds \cup {0}
  /\ vm \in [VmIds -> [state : {"none", "up", "gone"}, by : Runs, disk : File, seed : File,
                       nvram : File, key : Runs, simulate : BOOLEAN]]
  /\ tornVars \in BOOLEAN

\* Exit status 0 of an invocation that was to build means that everything the VM needs
\* is there and complete and is this invocation's own, whatever half-made files the
\* ones before had left: "regenerated each run" (README.md).  The key pair may be
\* older, and the variable store is, but only a copy cut short leaves it incomplete.
SuccessIsWhole ==
  exit = 0 /\ ~opt.prefetch =>
    /\ \A a \in {"disk", "seed", "launcher", "info"} : file[a] = [by |-> run, whole |-> TRUE]
    /\ seed = [key |-> pub, simulate |-> opt.simulate]
    /\ file["nvram"].whole \/ tornVars

\* The operator, the monitor and the fleet log in with the private key in the directory:
\* to every VM that runs from it, also one that was started before the directory was
\* rebuilt under it, completely or not, unless it was given no key at all.
RunningVmReachable == \A v \in VmIds : Up(v) /\ vm[v].key # 0 => vm[v].key = priv

\* A rebuild under a running VM replaces the files it has open and never writes into
\* them; its disk, its seed and its variable store stay what they were.
Touched(opened, a) ==
  file[a].by = opened.by /\ opened.by # 0 /\ file'[a].by = opened.by /\ file'[a] # file[a]
LeavesOpenFiles ==
  \A v \in VmIds : Up(v) =>
    ~Touched(vm[v].disk, "disk") /\ ~Touched(vm[v].seed, "seed") /\ ~Touched(vm[v].nvram, "nvram")
OpenFilesUntouched == [][LeavesOpenFiles]_setupVars

=============================================================================
