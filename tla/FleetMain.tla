------------------------------- MODULE FleetMain -------------------------------
(***************************************************************************)
(* fleet/main.py: from the command line to the exit status.  The flags     *)
(* decide what is built and which phases run; a phase that fails ends the  *)
(* program with a status of its own, before anything more expensive.       *)
(*                                                                         *)
(* What a gate, a download, a simulated distro or a build comes to is left *)
(* open; SimulateVerdict and FleetBuild have the inside of the last two.   *)
(* The operator may press Ctrl-C at any point.                             *)
(***************************************************************************)
EXTENDS Integers, FiniteSets, SequencesExt

CONSTANTS
  DISTROS,       \* the known distros, in the default build order
  Absent,        \* the value of a flag that was not given
  ArgSets,       \* the command lines, a set of Args records
  MaxInterrupts  \* bound: how often the operator presses Ctrl-C

\* distros is the list after split and strip, or Absent; skipped is the set of
\* positions in Gates whose --no-... flag was given.
IsArgs(a) ==
  /\ DOMAIN a = {"distros", "startFrom", "skipped", "prefetchOnly", "noPrefetch",
                 "simulateOnly", "noSimulate", "noPreflight"}
  /\ a.distros # Absent => a.distros \in Seq(ToSet(a.distros))
  /\ a.skipped \subseteq 1..5
  /\ {a.prefetchOnly, a.noPrefetch, a.simulateOnly, a.noSimulate, a.noPreflight}
       \subseteq BOOLEAN

ASSUME DistrosAssumption ==
  DISTROS \in Seq(ToSet(DISTROS)) /\ IsInjective(DISTROS) /\ DISTROS # <<>>
ASSUME ArgsAssumption == \A a \in ArgSets : IsArgs(a)
ASSUME InterruptsAssumption == MaxInterrupts \in Nat

VARIABLES
  args,       \* the parsed command line
  pc,         \* control point
  plan,       \* distros_to_build
  pos,        \* position in Gates or in plan
  did,        \* phases that have been entered
  simulated,  \* sim_results: the status of each distro, "none" before
  built,      \* built[d]: how the last build of d came out
  failed,     \* failed_distros
  server,     \* the GNOME extension server is running
  raised,     \* the exception on its way out of the build loop
  exit,       \* exit status
  hits        \* where Ctrl-C was pressed

vars == <<args, pc, plan, pos, did, simulated, built, failed, server, raised, exit, hits>>

Known == ToSet(DISTROS)
Running == -1         \* no exit status yet
Traceback == 1
Interrupted == 130

\* The gates in the order they run, as the status each one's failure exits with:
\* lint, audit, pylint, tests, smoke.
Gates == <<5, 7, 8, 9, 6>>

-----------------------------------------------------------------------------
(* The command line. *)

\* Position in DISTROS.
Index(d) == CHOOSE i \in DOMAIN DISTROS : DISTROS[i] = d

Asked(a) == IF a.distros = Absent THEN DISTROS ELSE a.distros

\* The members of s from position k in DISTROS on, in the order of s: a SelectSeq, from
\* the front.
AtOrAfter(s, k) ==
  LET kept[i \in 0..Len(s)] ==
        IF i = 0 THEN <<>>
        ELSE IF Index(s[i]) >= k THEN Append(kept[i - 1], s[i]) ELSE kept[i - 1]
  IN  kept[Len(s)]

\* Bug: the distro that --start-from names is skipped, too.
PlanOfAfter(a) ==
  IF a.startFrom = Absent THEN Asked(a)
  ELSE IF a.distros = Absent THEN SubSeq(DISTROS, Index(a.startFrom) + 1, Len(DISTROS))
  ELSE AtOrAfter(a.distros, Index(a.startFrom) + 1)

\* --start-from: a slice of DISTROS, or a given list filtered by the position in DISTROS.
PlanOf(a) ==
  IF a.startFrom = Absent THEN Asked(a)
  ELSE IF a.distros = Absent THEN SubSeq(DISTROS, Index(a.startFrom), Len(DISTROS))
  ELSE AtOrAfter(a.distros, Index(a.startFrom))

\* Bug: the contradictory flag pairs are let through.
BadArgsLax(a) ==
  \/ Asked(a) = <<>>
  \/ ~ ToSet(Asked(a)) \subseteq Known
  \/ a.startFrom \notin Known \cup {Absent}
  \/ PlanOf(a) = <<>>

\* Bug: the names in --distros are not looked up.
BadArgsTrusting(a) ==
  \/ Asked(a) = <<>>
  \/ a.simulateOnly /\ a.noSimulate
  \/ a.prefetchOnly /\ a.noPrefetch
  \/ a.startFrom # Absent /\ BadArgsLax(a)

BadArgs(a) ==
  \/ Asked(a) = <<>>
  \/ ~ ToSet(Asked(a)) \subseteq Known
  \/ a.simulateOnly /\ a.noSimulate
  \/ a.prefetchOnly /\ a.noPrefetch
  \/ a.startFrom \notin Known \cup {Absent}
  \/ PlanOf(a) = <<>>

DryRun(a) == a.prefetchOnly \/ a.simulateOnly

-----------------------------------------------------------------------------
Init ==
  /\ args \in ArgSets
  /\ pc = "args"
  /\ plan = <<>>
  /\ pos = 1
  /\ did = {}
  /\ simulated = [d \in Known |-> "none"]
  /\ built = [d \in Known |-> "none"]
  /\ failed = <<>>
  /\ server = FALSE
  /\ raised = "none"
  /\ exit = Running
  /\ hits = {}

Goto(point) == pc' = point /\ UNCHANGED exit
Exit(status) == pc' = "over" /\ exit' = status
Enter(phase) == did' = did \cup {phase}
NoBuild == UNCHANGED <<built, failed, server, raised, hits>>

ParseArgs ==
  /\ pc = "args"
  /\ IF BadArgs(args) THEN Exit(2) /\ UNCHANGED plan
                      ELSE Goto("gate") /\ plan' = PlanOf(args)
  /\ UNCHANGED <<args, pos, did, simulated>> /\ NoBuild

\* One gate: skipped, passed, or failed for any reason, its timeout included.
Gate ==
  /\ pc = "gate"
  /\ pos \in DOMAIN Gates
  /\ \/ Goto("gate") /\ pos' = pos + 1
     \/ pos \notin args.skipped /\ Exit(Gates[pos]) /\ UNCHANGED pos
  /\ UNCHANGED <<args, plan, did, simulated>> /\ NoBuild

GatesOver ==
  /\ pc = "gate"
  /\ pos \notin DOMAIN Gates
  /\ Goto("preflight")
  /\ UNCHANGED <<args, plan, pos, did, simulated>> /\ NoBuild

\* Dry runs leave running VMs alone.
NoPreflight(a) == a.noPreflight \/ DryRun(a)

PreflightSkipped ==
  /\ pc = "preflight"
  /\ NoPreflight(args)
  /\ Goto("prefetch")
  /\ UNCHANGED <<args, plan, pos, did, simulated>> /\ NoBuild

\* The orphan cleanup, which may raise (FleetBuild has its inside).
Preflight ==
  /\ pc = "preflight"
  /\ ~NoPreflight(args)
  /\ Goto("prefetch") \/ Exit(Traceback)
  /\ Enter("preflight")
  /\ UNCHANGED <<args, plan, pos, simulated>> /\ NoBuild

\* The downloads of all distros of the plan, three attempts each: every one
\* succeeds, or at least one does not.
Prefetch ==
  /\ pc = "prefetch"
  /\ ~args.noPrefetch
  /\ Enter("prefetch")
  /\ \/ Exit(3)
     \/ IF args.prefetchOnly THEN Exit(0) ELSE Goto("simulate")
  /\ pos' = 1
  /\ UNCHANGED <<args, plan, simulated>> /\ NoBuild

PrefetchSkipped ==
  /\ pc = "prefetch"
  /\ args.noPrefetch
  /\ Goto("simulate")
  /\ pos' = 1
  /\ UNCHANGED <<args, plan, did, simulated>> /\ NoBuild

\* simulate_all: the next distro, whatever the ones before came to.
SimulateOne ==
  /\ pc = "simulate"
  /\ ~args.noSimulate
  /\ pos \in DOMAIN plan
  /\ Enter("simulate")
  /\ \E status \in {"PASS", "FAIL", "ERROR"} :
       simulated' = [simulated EXCEPT ![plan[pos]] = status]
  /\ pos' = pos + 1
  /\ Goto("simulate")
  /\ UNCHANGED <<args, plan>> /\ NoBuild

\* simulate_distro lets an exception out (a pgrep failure while it looks for the
\* SSH port).
SimulateRaises ==
  /\ pc = "simulate"
  /\ ~args.noSimulate
  /\ pos \in DOMAIN plan
  /\ Enter("simulate")
  /\ Exit(Traceback)
  /\ UNCHANGED <<args, plan, pos, simulated>> /\ NoBuild

\* Bug: one pass is enough.
AllPassedAny == \E i \in DOMAIN plan : simulated[plan[i]] = "PASS"

\* pass_count = total_sims
AllPassed == \A i \in DOMAIN plan : simulated[plan[i]] = "PASS"

SimulateOver ==
  /\ pc = "simulate"
  /\ ~args.noSimulate
  /\ pos \notin DOMAIN plan
  /\ IF ~AllPassed THEN Exit(4)
     ELSE IF args.simulateOnly THEN Exit(0) ELSE Goto("server")
  /\ pos' = 1
  /\ UNCHANGED <<args, plan, did, simulated>> /\ NoBuild

SimulateSkipped ==
  /\ pc = "simulate"
  /\ args.noSimulate
  /\ Goto("server")
  /\ UNCHANGED <<args, plan, pos, did, simulated>> /\ NoBuild

-----------------------------------------------------------------------------
(* The build loop. *)

\* start_gnome_ext_server, in a try block of its own; a failure is only logged.
\* The try block of the build loop has not been entered yet.
StartServer ==
  /\ pc = "server"
  /\ server' \in BOOLEAN
  /\ Goto("window")
  /\ UNCHANGED <<args, plan, pos, did, simulated, built, failed, raised, hits>>

EnterLoop ==
  /\ pc = "window"
  /\ Goto("loop")
  /\ UNCHANGED <<args, plan, pos, did, simulated>> /\ NoBuild

\* Bug: a build whose VM could not be shut down is skipped, not recorded.
FailedAfterLax(outcome) == IF outcome = "cloud-init" THEN Append(failed, plan[pos]) ELSE failed

\* failed_distros after a build with this outcome.
FailedAfter(outcome) == IF outcome = "success" THEN failed ELSE Append(failed, plan[pos])

\* build_and_provision returns; whatever it says, the loop goes on.
BuildOne ==
  /\ pc = "loop"
  /\ pos \in DOMAIN plan
  /\ Enter("build")
  /\ \E outcome \in {"success", "cloud-init", "shutdown"} :
       /\ built' = [built EXCEPT ![plan[pos]] = outcome]
       /\ failed' = FailedAfter(outcome)
  /\ pos' = pos + 1
  /\ Goto("loop")
  /\ UNCHANGED <<args, plan, simulated, server, raised, hits>>

\* build_and_provision lets an exception out.
BuildRaises ==
  /\ pc = "loop"
  /\ pos \in DOMAIN plan
  /\ Enter("build")
  /\ raised' = "traceback"
  /\ Goto("finally")
  /\ UNCHANGED <<args, plan, pos, simulated, built, failed, server, hits>>

LoopOver ==
  /\ pc = "loop"
  /\ pos \notin DOMAIN plan
  /\ Goto("finally")
  /\ UNCHANGED <<args, plan, pos, did, simulated>> /\ NoBuild

\* Stop the server; then let the exception on, or report.
Finally ==
  /\ pc = "finally"
  /\ server' = FALSE
  /\ Exit(CASE raised = "interrupt" -> Interrupted
            [] raised = "traceback" -> Traceback
            [] raised = "none" -> IF failed = <<>> THEN 0 ELSE 1)
  /\ UNCHANGED <<args, plan, pos, did, simulated, built, failed, raised, hits>>

\* Bug: nothing holds a Ctrl-C in the loop, either.
CaughtNowhere == FALSE

\* Only the build loop has a finally block.
Caught == pc = "loop"

\* Whether the extension server runs after a Ctrl-C: the calls that start and stop
\* it may be broken off before or after their effect.
ServersAfterInterrupt ==
  CASE pc = "server"  -> BOOLEAN
    [] pc = "finally" -> {server, FALSE}
    [] OTHER          -> {server}

\* Ctrl-C: out of the loop through the finally block, or out of the program.
Interrupt ==
  /\ pc # "over"
  /\ Cardinality(hits) < MaxInterrupts
  /\ hits' = hits \cup {pc}
  /\ IF Caught THEN Goto("finally") /\ raised' = "interrupt"
               ELSE Exit(Interrupted) /\ UNCHANGED raised
  /\ server' \in ServersAfterInterrupt
  /\ UNCHANGED <<args, plan, pos, did, simulated, built, failed>>

Next ==
  \/ ParseArgs \/ Gate \/ GatesOver
  \/ PreflightSkipped \/ Preflight
  \/ Prefetch \/ PrefetchSkipped
  \/ SimulateOne \/ SimulateRaises \/ SimulateOver \/ SimulateSkipped
  \/ StartServer \/ EnterLoop \/ BuildOne \/ BuildRaises \/ LoopOver \/ Finally
  \/ Interrupt

Spec == Init /\ [][Next]_vars

-----------------------------------------------------------------------------
(* Properties. *)

Points == {"args", "gate", "preflight", "prefetch", "simulate", "server", "window",
           "loop", "finally", "over"}

TypeOK ==
  /\ args \in ArgSets
  /\ pc \in Points
  /\ plan \in Seq(Known)
  /\ pos \in 1..(Len(Gates) + Len(plan) + 1)
  /\ did \subseteq {"preflight", "prefetch", "simulate", "build"}
  /\ simulated \in [Known -> {"none", "PASS", "FAIL", "ERROR"}]
  /\ built \in [Known -> {"none", "success", "cloud-init", "shutdown"}]
  /\ failed \in Seq(Known)
  /\ server \in BOOLEAN
  /\ raised \in {"none", "traceback", "interrupt"}
  /\ exit \in 0..9 \cup {Running, Interrupted}
  /\ hits \subseteq Points

\* --prefetch-only and --simulate-only "exist to be cheap and non-destructive": with
\* either, alone or with any other flags, no VM of the operator's is killed and no real
\* build is ever started.
DryRunsAreHarmless == DryRun(args) => did \cap {"preflight", "build"} = {}

\* A real build runs only after everything that was to vet it: every distro of
\* the plan, of which there is at least one, has passed its simulation unless
\* --no-simulate was given, and the images are there unless --no-prefetch was.
BuildsAreVetted ==
  "build" \in did =>
    /\ plan # <<>>
    /\ "prefetch" \in did \/ args.noPrefetch
    /\ args.noSimulate \/ \A d \in ToSet(plan) : simulated[d] = "PASS"

\* Exit status 0 means what was asked for has happened: the last build of every
\* distro of the plan was a success, or, in a dry run, its phase has passed.
ZeroMeansDone ==
  exit = 0 =>
    CASE args.prefetchOnly -> "prefetch" \in did
      [] args.simulateOnly /\ ~args.prefetchOnly ->
           \A d \in ToSet(plan) : simulated[d] = "PASS"
      [] ~DryRun(args) -> \A d \in ToSet(plan) : built[d] = "success"

\* However the loop ends, the extension server does not outlive the program,
\* unless a Ctrl-C falls into its start, into the gap between that and the try
\* block of the loop, or into the finally block that stops it.
ServerIsStopped ==
  pc = "over" /\ server => hits \cap {"server", "window", "finally"} # {}

\* "To continue from the failed distro, run ... --start-from <first-failed-distro>":
\* after a run in the order of DISTROS, the run the hint names builds every distro
\* that has failed.  (The hint leaves out --distros: after a list in another order
\* it need not.)
HintCoversFailed ==
  (/\ exit = 1 /\ raised = "none" /\ failed # <<>>
   /\ \A i, j \in DOMAIN plan : i < j => Index(plan[i]) <= Index(plan[j])) =>
    ToSet(failed) \subseteq
      ToSet(PlanOf([args EXCEPT !.distros = Absent, !.startFrom = Head(failed)]))

\* "continue-on-failure": from the flags to the exit status, the program does with its
\* plan what BuildLoop promises: no distro skipped, none counted twice or not at all,
\* whatever phases come before and wherever a Ctrl-C falls.
DoneBuilds == IF "build" \in did THEN pos - 1 ELSE 0

LoopEnd ==
  CASE pc \notin {"finally", "over"} -> "none"
    [] pc \in {"finally", "over"} /\ "build" \in did /\ pos > Len(plan) /\ raised = "none" -> "complete"
    [] OTHER -> "stopped"

Loop == INSTANCE BuildLoop WITH
  plan <- plan, done <- DoneBuilds, end <- LoopEnd,
  good <- {d \in Known : built[d] = "success"}, bad <- ToSet(failed)

KeepsLoop == Loop!Spec

=============================================================================
