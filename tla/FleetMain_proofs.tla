---------------------------- MODULE FleetMain_proofs ----------------------------
(***************************************************************************)
(* Proofs about fleet/main.py from the command line to the exit status,    *)
(* for every list of known distros, every set of command lines and every   *)
(* number of Ctrl-Cs.                                                      *)
(***************************************************************************)
EXTENDS FleetMain, SequenceTheorems, WellFoundedInduction, TLAPS

-----------------------------------------------------------------------------
(* Induction over the natural numbers, with a set in place of a predicate.  *)

LEMMA NatWellFounded == IsWellFoundedOn({ss \in Nat \X Nat : ss[1] < ss[2]}, Nat)
  BY NatLessThanWellFounded DEF OpToRel

\* A set that holds zero, and with a number the next one, holds them all.
LEMMA NatSetInduction ==
  ASSUME NEW S, 0 \in S, \A n \in Nat : n \in S => n + 1 \in S
  PROVE  \A n \in Nat : n \in S
<1> DEFINE Less == {ss \in Nat \X Nat : ss[1] < ss[2]}
<1> DEFINE T == {n \in Nat : n \notin S}
<1> SUFFICES ASSUME T # {} PROVE FALSE
  OBVIOUS
<1>1. \A x, y \in Nat : y < x => <<y, x>> \in Less
  OBVIOUS
<1>2. IsWellFoundedOn(Less, Nat)
  BY NatWellFounded
<1>3. T \subseteq Nat
  OBVIOUS
<1> HIDE DEF Less
<1>4. \E x \in T : \A y \in T : ~(<<y, x>> \in Less)
  <2> HIDE DEF T
  <2> QED
    BY <1>2, <1>3, WFMin
<1>5. PICK x \in T : \A y \in T : ~(y < x)
  BY <1>1, <1>3, <1>4
<1>6. x \in Nat \ {0} /\ x - 1 \notin T
  BY <1>5
<1> QED
  BY <1>6

-----------------------------------------------------------------------------
(* The command line. *)

\* Every known distro has its one position in DISTROS.
LEMMA IndexOf ==
  ASSUME NEW d \in Known
  PROVE  Index(d) \in 1..Len(DISTROS) /\ DISTROS[Index(d)] = d
  BY DEF Index, Known, ToSet

\* One turn of AtOrAfter, and the function it is the last value of.
KeptStep(s, k, f, i) ==
  IF i = 0 THEN <<>>
  ELSE IF Index(s[i]) >= k THEN Append(f[i - 1], s[i]) ELSE f[i - 1]

IsKept(s, k, n, f) == f = [i \in 0..n |-> KeptStep(s, k, f, i)]

\* There is such a function, up to every position.
LEMMA KeptExists ==
  ASSUME NEW s, NEW k
  PROVE  \A n \in Nat : \E f : IsKept(s, k, n, f)
<1> DEFINE S == {n \in Nat : \E f : IsKept(s, k, n, f)}
<1>1. 0 \in S
  <2>1. IsKept(s, k, 0, [i \in 0..0 |-> <<>>])
    BY DEF IsKept, KeptStep
  <2> QED
    BY <2>1
<1>2. ASSUME NEW n \in Nat, n \in S PROVE n + 1 \in S
  <2>1. PICK f : IsKept(s, k, n, f)
    BY <1>2
  <2> DEFINE g == [i \in 0..(n + 1) |-> IF i <= n THEN f[i] ELSE KeptStep(s, k, f, i)]
  <2>a. \A i \in 0..n : f[i] = KeptStep(s, k, f, i)
    <3> HIDE DEF g
    <3> QED
      BY <2>1 DEF IsKept
  <2>2. \A i \in 0..n : g[i] = f[i]
    OBVIOUS
  <2>3. ASSUME NEW i \in 0..(n + 1) PROVE KeptStep(s, k, g, i) = KeptStep(s, k, f, i)
    <3>1. i # 0 => i - 1 \in 0..n
      OBVIOUS
    <3> HIDE DEF g
    <3> QED
      BY <2>2, <3>1 DEF KeptStep
  <2>4. ASSUME NEW i \in 0..(n + 1) PROVE g[i] = KeptStep(s, k, g, i)
    <3>1. g[i] = KeptStep(s, k, f, i)
      <4>1. CASE i <= n
        BY <4>1, <2>2, <2>a
      <4>2. CASE ~(i <= n)
        BY <4>2
      <4> QED
        BY <4>1, <4>2
    <3> QED
      BY <3>1, <2>3
  <2>5. IsKept(s, k, n + 1, g)
    BY <2>4 DEF IsKept
  <2> QED
    BY <2>5
<1> HIDE DEF S
<1>3. \A n \in Nat : n \in S
  BY <1>1, <1>2, NatSetInduction
<1> QED
  BY <1>3 DEF S

\* So AtOrAfter is what its definition says.
LEMMA KeptIsAtOrAfter ==
  ASSUME NEW s, Len(s) \in Nat, NEW k
  PROVE  \E f : IsKept(s, k, Len(s), f) /\ AtOrAfter(s, k) = f[Len(s)]
<1> DEFINE K == CHOOSE f : IsKept(s, k, Len(s), f)
<1>1. IsKept(s, k, Len(s), K)
  BY KeptExists
<1>2. AtOrAfter(s, k) = K[Len(s)]
  BY DEF AtOrAfter, IsKept, KeptStep
<1> QED
  BY <1>1, <1>2

\* What a sequence holds after one more is appended.
LEMMA AppendedSet ==
  ASSUME NEW S, NEW q \in Seq(S), NEW e \in S
  PROVE  ToSet(Append(q, e)) = ToSet(q) \cup {e}
<1>1. /\ Append(q, e) \in Seq(S) /\ Len(Append(q, e)) = Len(q) + 1
      /\ \A i \in 1..Len(q) : Append(q, e)[i] = q[i]
      /\ Append(q, e)[Len(q) + 1] = e
  BY AppendProperties
<1>2. DOMAIN Append(q, e) = 1..(Len(q) + 1) /\ DOMAIN q = 1..Len(q)
  BY <1>1
<1>3. \A i \in 1..(Len(q) + 1) : i \in 1..Len(q) \/ i = Len(q) + 1
  OBVIOUS
<1>4. 1..Len(q) \subseteq 1..(Len(q) + 1) /\ Len(q) + 1 \in 1..(Len(q) + 1)
  OBVIOUS
<1> QED
  BY <1>1, <1>2, <1>3, <1>4, Zenon DEF ToSet

\* What it keeps are members of s.
LEMMA AtOrAfterType ==
  ASSUME NEW S, NEW s \in Seq(S), NEW k
  PROVE  AtOrAfter(s, k) \in Seq(S)
<1>1. PICK f : IsKept(s, k, Len(s), f) /\ AtOrAfter(s, k) = f[Len(s)]
  BY KeptIsAtOrAfter
<1>2. \A i \in 0..Len(s) : f[i] = KeptStep(s, k, f, i)
  BY <1>1 DEF IsKept
<1> DEFINE Good == {n \in Nat : n <= Len(s) => f[n] \in Seq(S)}
<1>3. 0 \in Good
  <2>1. f[0] = <<>>
    BY <1>2 DEF KeptStep
  <2> QED
    BY <2>1, EmptySeq
<1>4. ASSUME NEW n \in Nat, n \in Good PROVE n + 1 \in Good
  <2> SUFFICES ASSUME n + 1 <= Len(s) PROVE f[n + 1] \in Seq(S)
    OBVIOUS
  <2>1. f[n] \in Seq(S) /\ s[n + 1] \in S
    BY <1>4
  <2>2. f[n + 1] = KeptStep(s, k, f, n + 1)
    BY <1>2
  <2>3. KeptStep(s, k, f, n + 1) \in {f[n], Append(f[n], s[n + 1])}
    BY DEF KeptStep
  <2>4. Append(f[n], s[n + 1]) \in Seq(S)
    BY <2>1, AppendProperties
  <2> QED
    BY <2>1, <2>2, <2>3, <2>4
<1> HIDE DEF Good
<1>5. \A n \in Nat : n \in Good
  BY <1>3, <1>4, NatSetInduction
<1> QED
  BY <1>1, <1>5 DEF Good

\* And they are the members of s from position k in DISTROS on.
LEMMA AtOrAfterKeeps ==
  ASSUME NEW S, NEW s \in Seq(S), NEW k
  PROVE  ToSet(AtOrAfter(s, k)) = {d \in ToSet(s) : Index(d) >= k}
<1>1. PICK f : IsKept(s, k, Len(s), f) /\ AtOrAfter(s, k) = f[Len(s)]
  BY KeptIsAtOrAfter
<1>2. \A i \in 0..Len(s) : f[i] = KeptStep(s, k, f, i)
  BY <1>1 DEF IsKept
<1> DEFINE UpTo(n) == {d \in {s[i] : i \in 1..n} : Index(d) >= k}
<1> DEFINE Good == {n \in Nat : n <= Len(s) => f[n] \in Seq(S) /\ ToSet(f[n]) = UpTo(n)}
<1>3. 0 \in Good
  <2>1. f[0] = <<>>
    BY <1>2 DEF KeptStep
  <2>2. ToSet(<<>>) = {} /\ UpTo(0) = {}
    BY DEF ToSet
  <2> QED
    BY <2>1, <2>2, EmptySeq
<1>4. ASSUME NEW n \in Nat, n \in Good PROVE n + 1 \in Good
  <2> SUFFICES ASSUME n + 1 <= Len(s) PROVE f[n + 1] \in Seq(S) /\ ToSet(f[n + 1]) = UpTo(n + 1)
    OBVIOUS
  <2>1. f[n] \in Seq(S) /\ ToSet(f[n]) = UpTo(n) /\ s[n + 1] \in S
    BY <1>4
  <2>2. f[n + 1] = KeptStep(s, k, f, n + 1)
    BY <1>2
  <2>3. {s[i] : i \in 1..(n + 1)} = {s[i] : i \in 1..n} \cup {s[n + 1]}
    OBVIOUS
  <2>4. CASE Index(s[n + 1]) >= k
    <3>1. f[n + 1] = Append(f[n], s[n + 1])
      BY <2>2, <2>4 DEF KeptStep
    <3>2. ToSet(Append(f[n], s[n + 1])) = ToSet(f[n]) \cup {s[n + 1]}
      BY <2>1, AppendedSet
    <3>3. UpTo(n + 1) = UpTo(n) \cup {s[n + 1]}
      BY <2>3, <2>4
    <3> QED
      BY <2>1, <3>1, <3>2, <3>3, AppendProperties
  <2>5. CASE ~(Index(s[n + 1]) >= k)
    <3>1. f[n + 1] = f[n]
      BY <2>2, <2>5 DEF KeptStep
    <3>2. UpTo(n + 1) = UpTo(n)
      BY <2>3, <2>5
    <3> QED
      BY <2>1, <3>1, <3>2
  <2> QED
    BY <2>4, <2>5
<1> HIDE DEF Good
<1>5. \A n \in Nat : n \in Good
  BY <1>3, <1>4, NatSetInduction
<1>6. ToSet(f[Len(s)]) = UpTo(Len(s))
  BY <1>5 DEF Good
<1>7. {s[i] : i \in 1..Len(s)} = ToSet(s)
  BY DEF ToSet
<1> QED
  BY <1>1, <1>6, <1>7

\* A sequence of known distros, by the names it holds.
LEMMA KnownSeq ==
  ASSUME NEW s, s \in Seq(ToSet(s)), ToSet(s) \subseteq Known
  PROVE  s \in Seq(Known)
<1>1. \A i \in 1..Len(s) : s[i] \in Known
  BY DEF ToSet
<1> QED
  BY <1>1

LEMMA DistrosAreKnown == DISTROS \in Seq(Known)
  BY DistrosAssumption, KnownSeq DEF Known

\* A command line that is let through asks for known distros, at least one of them.
LEMMA PlanType ==
  ASSUME NEW a \in ArgSets, ~BadArgs(a)
  PROVE  PlanOf(a) \in Seq(Known) /\ PlanOf(a) # <<>>
<1>1. IsArgs(a)
  BY ArgsAssumption
<1>2. a.distros # Absent => a.distros \in Seq(Known)
  BY <1>1, KnownSeq DEF IsArgs, BadArgs, Asked
<1>3. PlanOf(a) # <<>>
  BY DEF BadArgs
<1>4. CASE a.startFrom = Absent
  BY <1>2, <1>3, <1>4, DistrosAreKnown DEF PlanOf, Asked
<1>5. CASE a.startFrom # Absent /\ a.distros # Absent
  BY <1>2, <1>3, <1>5, AtOrAfterType DEF PlanOf
<1>6. CASE a.startFrom # Absent /\ a.distros = Absent
  <2>1. a.startFrom \in Known
    BY <1>6 DEF BadArgs
  <2>2. Index(a.startFrom) \in 1..Len(DISTROS)
    BY <2>1, IndexOf
  <2>3. SubSeq(DISTROS, Index(a.startFrom), Len(DISTROS)) \in Seq(Known)
    BY <2>2, DistrosAreKnown
  <2> QED
    BY <1>3, <1>6, <2>3 DEF PlanOf
<1> QED
  BY <1>4, <1>5, <1>6

\* From an index on, DISTROS holds the distros whose position it is.
LEMMA RestOfDistros ==
  ASSUME NEW k \in 1..Len(DISTROS)
  PROVE  ToSet(SubSeq(DISTROS, k, Len(DISTROS))) = {d \in Known : Index(d) >= k}
<1> DEFINE rest == SubSeq(DISTROS, k, Len(DISTROS))
<1>1. Len(DISTROS) \in Nat /\ DISTROS \in Seq(Known) /\ DOMAIN DISTROS = 1..Len(DISTROS)
  BY DistrosAreKnown
<1>2. \A i, j \in 1..Len(DISTROS) : DISTROS[i] = DISTROS[j] => i = j
  BY <1>1, DistrosAssumption DEF IsInjective
<1>3. /\ Len(rest) = Len(DISTROS) - k + 1 /\ DOMAIN rest = 1..Len(rest)
      /\ \A j \in 1..Len(rest) : rest[j] = DISTROS[k + j - 1]
  BY <1>1
<1> HIDE DEF rest
<1>4. ASSUME NEW j \in 1..Len(rest) PROVE rest[j] \in Known /\ Index(rest[j]) >= k
  <2>1. k + j - 1 \in 1..Len(DISTROS) /\ rest[j] = DISTROS[k + j - 1]
    BY <1>1, <1>3
  <2>2. rest[j] \in Known
    BY <1>1, <2>1 DEF Known, ToSet
  <2>3. Index(rest[j]) = k + j - 1
    BY <1>2, <2>1, <2>2, IndexOf
  <2> QED
    BY <2>2, <2>3
<1>5. ASSUME NEW d \in Known, Index(d) >= k PROVE \E j \in 1..Len(rest) : rest[j] = d
  <2>1. Index(d) \in 1..Len(DISTROS) /\ DISTROS[Index(d)] = d
    BY IndexOf
  <2>2. Index(d) - k + 1 \in 1..Len(rest) /\ k + (Index(d) - k + 1) - 1 = Index(d)
    BY <1>1, <1>3, <1>5, <2>1
  <2> QED
    BY <1>3, <2>1, <2>2
<1> QED
  BY <1>3, <1>4, <1>5, Zenon DEF ToSet, rest

\* What is to be built: what was asked for, from --start-from on.
LEMMA PlanHolds ==
  ASSUME NEW a \in ArgSets, ~BadArgs(a)
  PROVE  ToSet(PlanOf(a)) =
           {d \in ToSet(Asked(a)) : a.startFrom = Absent \/ Index(d) >= Index(a.startFrom)}
<1>1. a.startFrom # Absent => a.startFrom \in Known /\ Index(a.startFrom) \in 1..Len(DISTROS)
  BY IndexOf DEF BadArgs
<1>2. a.distros # Absent => a.distros \in Seq(ToSet(a.distros))
  BY ArgsAssumption DEF IsArgs
<1>3. CASE a.startFrom = Absent
  BY <1>3 DEF PlanOf
<1>4. CASE a.startFrom # Absent /\ a.distros = Absent
  BY <1>1, <1>4, RestOfDistros DEF PlanOf, Asked, Known
<1>5. CASE a.startFrom # Absent /\ a.distros # Absent
  BY <1>1, <1>2, <1>5, AtOrAfterKeeps DEF PlanOf, Asked
<1> QED
  BY <1>3, <1>4, <1>5

-----------------------------------------------------------------------------
(* The inductive invariant.                                                *)

Building == {"server", "window", "loop", "finally"}

\* pos is a position in Gates, then in plan, each phase from its start.
PosOK ==
  /\ pc \in {"args", "server", "window"} => pos = 1
  /\ pc = "gate" => pos \in 1..(Len(Gates) + 1)
  /\ pc \in {"simulate", "loop"} => pos \in 1..(Len(plan) + 1)
  /\ pc = "simulate" /\ args.noSimulate => pos = 1
  /\ pc = "loop" /\ "build" \notin did => pos = 1

\* A command line that is past ParseArgs.
Sound ==
  /\ plan # <<>>
  /\ ~(args.simulateOnly /\ args.noSimulate)
  /\ ~(args.prefetchOnly /\ args.noPrefetch)

Prefetched == "prefetch" \in did \/ args.noPrefetch

\* What a real build asks for, with the flags it asks for it.
Vetted ==
  /\ plan # <<>>
  /\ Prefetched
  /\ args.noSimulate \/ AllPassed
  /\ ~DryRun(args)

\* The phases in their order, each behind the one that guards it.
PhasesOK ==
  /\ pc = "args" => plan = <<>>
  /\ pc \notin {"args", "over"} => Sound
  /\ pc = "simulate" => Prefetched /\ ~args.prefetchOnly
  /\ pc \in Building \/ "build" \in did => Vetted
  /\ pc \notin {"loop", "finally", "over"} => "build" \notin did
  /\ "preflight" \in did => ~DryRun(args)

\* An exit status is there at the end and not before; an exception is on its way out of
\* the loop only.
EndOK ==
  /\ exit = Running <=> pc # "over"
  /\ pc \notin {"finally", "over"} => raised = "none"

\* As long as nothing has failed, every build so far was a success.
BuiltOK ==
  failed = <<>> =>
    /\ pc = "loop" => \A i \in 1..(pos - 1) : built[plan[i]] = "success"
    /\ pc = "finally" /\ raised = "none" => \A i \in 1..Len(plan) : built[plan[i]] = "success"

\* The server runs from its start to the end of the finally block.
ServerOK ==
  server => \/ pc \in {"window", "loop", "finally"}
            \/ pc = "over" /\ hits \cap {"server", "window", "finally"} # {}

InOrder == \A i, j \in DOMAIN plan : i < j => Index(plan[i]) <= Index(plan[j])

\* What has failed is behind pos in the plan, the first in the order of DISTROS first.
FailedOK ==
  /\ pc \notin {"loop", "finally", "over"} => failed = <<>>
  /\ \A i \in 1..Len(failed) :
       \E k \in 1..Len(plan) : failed[i] = plan[k] /\ (pc = "loop" => k < pos)
  /\ InOrder => \A i \in 1..Len(failed) : Index(failed[1]) <= Index(failed[i])

MainInv ==
  /\ TypeOK
  /\ PosOK
  /\ PhasesOK
  /\ EndOK
  /\ BuiltOK
  /\ ServerOK
  /\ FailedOK
  /\ ZeroMeansDone

LEMMA GateStatuses == DOMAIN Gates = 1..5 /\ Len(Gates) = 5 /\ \A i \in 1..5 : Gates[i] \in 5..9
  BY DEF Gates

LEMMA InitEstablishes == Init => MainInv
<1> SUFFICES ASSUME Init PROVE MainInv
  OBVIOUS
<1>1. TypeOK
  <2>1. failed \in Seq(Known) /\ plan \in Seq(Known)
    BY EmptySeq DEF Init
  <2>2. pos \in 1..(Len(Gates) + Len(plan) + 1)
    BY GateStatuses DEF Init
  <2> QED
    BY <2>1, <2>2 DEF Init, TypeOK, Points, Running
<1>2. PosOK /\ PhasesOK /\ EndOK
  BY DEF Init, PosOK, PhasesOK, EndOK, Building, Running
<1>3. BuiltOK /\ ServerOK /\ ZeroMeansDone
  BY DEF Init, BuiltOK, ServerOK, ZeroMeansDone, Running
<1>4. FailedOK
  BY DEF Init, FailedOK
<1> QED
  BY <1>1, <1>2, <1>3, <1>4 DEF MainInv

\* The types, by kinds of variables.
LEMMA ControlTypes ==
  MainInv /\ Next => /\ args' \in ArgSets /\ pc' \in Points /\ hits' \subseteq Points
                     /\ did' \subseteq {"preflight", "prefetch", "simulate", "build"}
                     /\ raised' \in {"none", "traceback", "interrupt"}
<1> SUFFICES ASSUME MainInv, Next
             PROVE  /\ args' \in ArgSets /\ pc' \in Points /\ hits' \subseteq Points
                    /\ did' \subseteq {"preflight", "prefetch", "simulate", "build"}
                    /\ raised' \in {"none", "traceback", "interrupt"}
  OBVIOUS
<1>0. /\ args \in ArgSets /\ pc \in Points /\ hits \subseteq Points
      /\ did \subseteq {"preflight", "prefetch", "simulate", "build"}
      /\ raised \in {"none", "traceback", "interrupt"}
  BY DEF MainInv, TypeOK
<1> USE <1>0 DEF Points, NoBuild, Goto, Exit, Enter
<1>1. CASE ParseArgs \/ Gate \/ GatesOver \/ PreflightSkipped \/ Preflight
  BY <1>1 DEF ParseArgs, Gate, GatesOver, PreflightSkipped, Preflight
<1>2. CASE Prefetch \/ PrefetchSkipped \/ SimulateOne \/ SimulateRaises
  BY <1>2 DEF Prefetch, PrefetchSkipped, SimulateOne, SimulateRaises
<1>3. CASE SimulateOver \/ SimulateSkipped \/ StartServer \/ EnterLoop
  BY <1>3 DEF SimulateOver, SimulateSkipped, StartServer, EnterLoop
<1>4. CASE BuildOne \/ BuildRaises \/ LoopOver
  BY <1>4 DEF BuildOne, BuildRaises, LoopOver
<1>5. CASE Finally
  BY <1>5 DEF Finally
<1>6. CASE Interrupt
  BY <1>6 DEF Interrupt
<1> QED
  BY <1>1, <1>2, <1>3, <1>4, <1>5, <1>6 DEF Next

LEMMA ServerType == MainInv /\ Next => server' \in BOOLEAN
<1> SUFFICES ASSUME MainInv, Next PROVE server' \in BOOLEAN
  OBVIOUS
<1>0. server \in BOOLEAN
  BY DEF MainInv, TypeOK
<1>1. CASE StartServer
  BY <1>1 DEF StartServer
<1>2. CASE Interrupt
  BY <1>0, <1>2 DEF Interrupt, ServersAfterInterrupt
<1>3. CASE Finally
  BY <1>3 DEF Finally
<1>4. server' = server \/ StartServer \/ Interrupt \/ Finally
  BY DEF NoBuild, Next, ParseArgs, Gate, GatesOver, PreflightSkipped, Preflight, Prefetch,
         PrefetchSkipped, SimulateOne, SimulateRaises, SimulateOver, SimulateSkipped, EnterLoop,
         BuildOne, BuildRaises, LoopOver
<1> QED
  BY <1>0, <1>1, <1>2, <1>3, <1>4

LEMMA NumberTypes ==
  MainInv /\ Next => /\ plan' \in Seq(Known)
                     /\ pos' \in 1..(Len(Gates) + Len(plan') + 1)
                     /\ exit' \in 0..9 \cup {Running, Interrupted}
<1> DEFINE Numbers == /\ plan \in Seq(Known)
                      /\ pos \in 1..(Len(Gates) + Len(plan) + 1)
                      /\ exit \in 0..9 \cup {Running, Interrupted}
<1> SUFFICES ASSUME MainInv, Next PROVE Numbers'
  OBVIOUS
<1>0. Numbers /\ args \in ArgSets
  BY DEF MainInv, TypeOK
<1>a. PosOK
  BY DEF MainInv
<1> USE <1>0, <1>a, GateStatuses DEF NoBuild, Goto, Exit, Running, Interrupted, Traceback
<1>1. CASE ParseArgs
  <2>1. plan' \in Seq(Known)
    BY <1>1, PlanType DEF ParseArgs
  <2>2. Len(plan') \in Nat /\ pos' = 1
    BY <2>1, <1>1 DEF ParseArgs, PosOK
  <2> QED
    BY <1>1, <2>1, <2>2 DEF ParseArgs
<1>2. CASE Gate \/ GatesOver
  BY <1>2 DEF Gate, GatesOver, PosOK
<1>3. CASE PreflightSkipped \/ Preflight \/ Prefetch \/ PrefetchSkipped
  BY <1>3 DEF PreflightSkipped, Preflight, Prefetch, PrefetchSkipped
<1>4. CASE SimulateOne \/ SimulateRaises \/ SimulateOver \/ SimulateSkipped
  BY <1>4 DEF SimulateOne, SimulateRaises, SimulateOver, SimulateSkipped
<1>5. CASE StartServer \/ EnterLoop \/ BuildOne \/ BuildRaises \/ LoopOver
  BY <1>5 DEF StartServer, EnterLoop, BuildOne, BuildRaises, LoopOver
<1>6. CASE Finally
  BY <1>6 DEF Finally, MainInv, TypeOK
<1>7. CASE Interrupt
  BY <1>7 DEF Interrupt
<1> QED
  BY <1>1, <1>2, <1>3, <1>4, <1>5, <1>6, <1>7 DEF Next

LEMMA RecordTypes ==
  MainInv /\ Next => /\ simulated' \in [Known -> {"none", "PASS", "FAIL", "ERROR"}]
                     /\ built' \in [Known -> {"none", "success", "cloud-init", "shutdown"}]
                     /\ failed' \in Seq(Known)
<1> DEFINE Records == /\ simulated \in [Known -> {"none", "PASS", "FAIL", "ERROR"}]
                      /\ built \in [Known -> {"none", "success", "cloud-init", "shutdown"}]
                      /\ failed \in Seq(Known)
<1> SUFFICES ASSUME MainInv, Next PROVE Records'
  OBVIOUS
<1>0. Records /\ plan \in Seq(Known)
  BY DEF MainInv, TypeOK
<1>1. CASE SimulateOne
  BY <1>0, <1>1 DEF SimulateOne, NoBuild
<1>2. CASE BuildOne
  <2>1. plan[pos] \in Known
    BY <1>0, <1>2 DEF BuildOne
  <2>2. failed' \in Seq(Known)
    BY <1>0, <1>2, <2>1, AppendProperties DEF BuildOne, FailedAfter
  <2> QED
    BY <1>0, <1>2, <2>2 DEF BuildOne
<1>3. UNCHANGED <<simulated, built, failed>> \/ SimulateOne \/ BuildOne
  BY DEF NoBuild, Next, ParseArgs, Gate, GatesOver, PreflightSkipped, Preflight, Prefetch,
         PrefetchSkipped, SimulateRaises, SimulateOver, SimulateSkipped, StartServer, EnterLoop,
         BuildRaises, LoopOver, Finally, Interrupt
<1> QED
  BY <1>0, <1>1, <1>2, <1>3

LEMMA TypeStep == MainInv /\ Next => TypeOK'
  BY ControlTypes, ServerType, NumberTypes, RecordTypes DEF TypeOK

LEMMA PosStep == MainInv /\ Next => PosOK'
<1> SUFFICES ASSUME MainInv, Next PROVE PosOK'
  OBVIOUS
<1> USE GateStatuses DEF MainInv, PosOK, NoBuild, Goto, Exit
<1>1. CASE ParseArgs \/ Gate \/ GatesOver \/ PreflightSkipped \/ Preflight
  BY <1>1 DEF ParseArgs, Gate, GatesOver, PreflightSkipped, Preflight
<1>2. CASE Prefetch \/ PrefetchSkipped
  BY <1>2 DEF Prefetch, PrefetchSkipped, TypeOK
<1>3. CASE SimulateOne \/ SimulateRaises \/ SimulateOver \/ SimulateSkipped
  BY <1>3 DEF SimulateOne, SimulateRaises, SimulateOver, SimulateSkipped, TypeOK
<1>4. CASE StartServer \/ EnterLoop
  BY <1>4 DEF StartServer, EnterLoop, TypeOK
<1>5. CASE BuildOne \/ BuildRaises \/ LoopOver \/ Finally \/ Interrupt
  BY <1>5 DEF BuildOne, Enter, BuildRaises, LoopOver, Finally, Interrupt, Caught, TypeOK
<1> QED
  BY <1>1, <1>2, <1>3, <1>4, <1>5 DEF Next

LEMMA PhasesStep == MainInv /\ Next => PhasesOK'
<1> SUFFICES ASSUME MainInv, Next PROVE PhasesOK'
  OBVIOUS
<1> USE DEF MainInv, PhasesOK, Sound, Prefetched, Vetted, DryRun, AllPassed, Building, NoBuild,
            Goto, Exit, Enter
<1>1. CASE ParseArgs
  <2>1. ~BadArgs(args) => PlanOf(args) # <<>>
    BY DEF BadArgs
  <2> QED
    BY <1>1, <2>1 DEF ParseArgs, BadArgs
<1>2. CASE Gate \/ GatesOver
  BY <1>2 DEF Gate, GatesOver
<1>3. CASE PreflightSkipped \/ Preflight
  BY <1>3 DEF PreflightSkipped, Preflight, NoPreflight
<1>4. CASE Prefetch \/ PrefetchSkipped
  BY <1>4 DEF Prefetch, PrefetchSkipped
<1>5. CASE SimulateOne \/ SimulateRaises
  BY <1>5 DEF SimulateOne, SimulateRaises
<1>6. CASE SimulateOver \/ SimulateSkipped
  BY <1>6 DEF SimulateOver, SimulateSkipped
<1>7. CASE StartServer \/ EnterLoop \/ LoopOver \/ Finally
  BY <1>7 DEF StartServer, EnterLoop, LoopOver, Finally
<1>8. CASE BuildOne \/ BuildRaises
  BY <1>8 DEF BuildOne, BuildRaises
<1>9. CASE Interrupt
  BY <1>9 DEF Interrupt, Caught
<1> QED
  BY <1>1, <1>2, <1>3, <1>4, <1>5, <1>6, <1>7, <1>8, <1>9 DEF Next

LEMMA EndStep == MainInv /\ Next => EndOK'
<1> SUFFICES ASSUME MainInv, Next PROVE EndOK'
  OBVIOUS
<1> USE GateStatuses DEF MainInv, EndOK, NoBuild, Goto, Exit, Running, Interrupted, Traceback
<1>1. CASE ParseArgs \/ Gate \/ GatesOver
  BY <1>1 DEF ParseArgs, Gate, GatesOver
<1>2. CASE PreflightSkipped \/ Preflight \/ Prefetch \/ PrefetchSkipped
  BY <1>2 DEF PreflightSkipped, Preflight, Prefetch, PrefetchSkipped
<1>3. CASE SimulateOne \/ SimulateRaises \/ SimulateOver \/ SimulateSkipped
  BY <1>3 DEF SimulateOne, SimulateRaises, SimulateOver, SimulateSkipped
<1>4. CASE StartServer \/ EnterLoop \/ BuildOne \/ BuildRaises \/ LoopOver
  BY <1>4 DEF StartServer, EnterLoop, BuildOne, BuildRaises, LoopOver
<1>5. CASE Finally
  BY <1>5 DEF Finally, TypeOK
<1>6. CASE Interrupt
  BY <1>6 DEF Interrupt, Caught
<1> QED
  BY <1>1, <1>2, <1>3, <1>4, <1>5, <1>6 DEF Next

LEMMA BuiltStep == MainInv /\ Next => BuiltOK'
<1> SUFFICES ASSUME MainInv, Next, failed' = <<>> PROVE BuiltOK'
  BY DEF BuiltOK
<1> USE DEF MainInv, BuiltOK, NoBuild, Goto, Exit
<1>1. CASE ParseArgs \/ Gate \/ GatesOver \/ PreflightSkipped \/ Preflight \/ Prefetch \/ PrefetchSkipped
  BY <1>1 DEF ParseArgs, Gate, GatesOver, PreflightSkipped, Preflight, Prefetch, PrefetchSkipped
<1>2. CASE SimulateOne \/ SimulateRaises \/ SimulateOver \/ SimulateSkipped \/ StartServer
  BY <1>2 DEF SimulateOne, SimulateRaises, SimulateOver, SimulateSkipped, StartServer
<1>3. CASE EnterLoop
  BY <1>3 DEF EnterLoop, PosOK
<1>4. CASE BuildOne
  <2>1. failed = <<>> /\ pos \in 1..Len(plan)
    BY <1>4, AppendProperties DEF BuildOne, FailedAfter, TypeOK
  <2>2. built' = [built EXCEPT ![plan[pos]] = "success"]
    <3>1. Append(failed, plan[pos]) # <<>>
      BY <2>1, AppendProperties DEF TypeOK
    <3> QED
      BY <1>4, <3>1 DEF BuildOne, FailedAfter
  <2>3. \A i \in 1..pos : built'[plan[i]] = "success"
    BY <1>4, <2>1, <2>2 DEF BuildOne, TypeOK
  <2>4. plan' = plan /\ pos' = pos + 1 /\ pc' = "loop"
    BY <1>4 DEF BuildOne
  <2> QED
    BY <2>1, <2>3, <2>4
<1>5. CASE LoopOver
  <2>1. pos = Len(plan) + 1
    BY <1>5 DEF LoopOver, PosOK, TypeOK
  <2> QED
    BY <1>5, <2>1 DEF LoopOver, TypeOK
<1>6. CASE BuildRaises \/ Finally \/ Interrupt
  BY <1>6 DEF BuildRaises, Finally, Interrupt, Caught
<1> QED
  BY <1>1, <1>2, <1>3, <1>4, <1>5, <1>6 DEF Next

LEMMA ServerStep == MainInv /\ Next => ServerOK'
<1> SUFFICES ASSUME MainInv, Next PROVE ServerOK'
  OBVIOUS
<1> USE DEF MainInv, ServerOK, NoBuild, Goto, Exit
<1>1. CASE ParseArgs \/ Gate \/ GatesOver \/ PreflightSkipped \/ Preflight \/ Prefetch \/ PrefetchSkipped
  BY <1>1 DEF ParseArgs, Gate, GatesOver, PreflightSkipped, Preflight, Prefetch, PrefetchSkipped
<1>2. CASE SimulateOne \/ SimulateRaises \/ SimulateOver \/ SimulateSkipped
  BY <1>2 DEF SimulateOne, SimulateRaises, SimulateOver, SimulateSkipped
<1>3. CASE StartServer \/ EnterLoop \/ BuildOne \/ BuildRaises \/ LoopOver \/ Finally
  BY <1>3 DEF StartServer, EnterLoop, BuildOne, BuildRaises, LoopOver, Finally
<1>4. CASE Interrupt
  BY <1>4 DEF Interrupt, ServersAfterInterrupt, Caught
<1> QED
  BY <1>1, <1>2, <1>3, <1>4 DEF Next

LEMMA FailedStep == MainInv /\ Next => FailedOK'
<1> SUFFICES ASSUME MainInv, Next PROVE FailedOK'
  OBVIOUS
<1> USE DEF MainInv, FailedOK, InOrder, NoBuild, Goto, Exit
<1>1. CASE ParseArgs
  BY <1>1 DEF ParseArgs
<1>2. CASE Gate \/ GatesOver \/ PreflightSkipped \/ Preflight \/ Prefetch \/ PrefetchSkipped
  BY <1>2 DEF Gate, GatesOver, PreflightSkipped, Preflight, Prefetch, PrefetchSkipped
<1>3. CASE SimulateOne \/ SimulateRaises \/ SimulateOver \/ SimulateSkipped \/ StartServer \/ EnterLoop
  BY <1>3 DEF SimulateOne, SimulateRaises, SimulateOver, SimulateSkipped, StartServer, EnterLoop
<1>4. CASE BuildOne
  <2>1. pc = "loop" /\ pos \in 1..Len(plan) /\ pos' = pos + 1 /\ pc' = "loop" /\ plan' = plan
    BY <1>4 DEF BuildOne, TypeOK
  <2>2. failed \in Seq(Known) /\ plan[pos] \in Known /\ Len(failed) \in Nat
    BY <2>1 DEF TypeOK
  <2>3. CASE failed' = failed
    BY <2>1, <2>2, <2>3
  <2>4. CASE failed' = Append(failed, plan[pos])
    <3>1. /\ Len(failed') = Len(failed) + 1
          /\ \A i \in 1..Len(failed) : failed'[i] = failed[i]
          /\ failed'[Len(failed) + 1] = plan[pos]
      BY <2>2, <2>4, AppendProperties
    <3>2. \A i \in 1..Len(failed') : \E k \in 1..Len(plan) : failed'[i] = plan[k] /\ k < pos + 1
      <4> TAKE i \in 1..Len(failed')
      <4>1. CASE i \in 1..Len(failed)
        <5>1. PICK k \in 1..Len(plan) : failed[i] = plan[k] /\ k < pos
          BY <2>1, <4>1
        <5>2. k < pos + 1
          BY <2>1, <5>1
        <5> QED
          BY <3>1, <4>1, <5>1, <5>2
      <4>2. CASE i = Len(failed) + 1
        BY <2>1, <3>1, <4>2
      <4> QED
        BY <2>2, <3>1, <4>1, <4>2
    <3>3. ASSUME InOrder PROVE \A i \in 1..Len(failed') : Index(failed'[1]) <= Index(failed'[i])
      <4> TAKE i \in 1..Len(failed')
      <4>0. DOMAIN plan = 1..Len(plan)
        BY DEF TypeOK
      <4>1. CASE i \in 1..Len(failed)
        BY <2>2, <3>1, <3>3, <4>1
      <4>2. CASE i = Len(failed) + 1 /\ failed # <<>>
        <5>1. 1 \in 1..Len(failed)
          BY <2>2, <4>2
        <5>2. PICK k \in 1..Len(plan) : failed[1] = plan[k] /\ k < pos
          BY <2>1, <5>1
        <5>3. Index(plan[k]) <= Index(plan[pos])
          BY <2>1, <3>3, <4>0, <5>2
        <5> QED
          BY <3>1, <4>2, <5>1, <5>2, <5>3
      <4>3. CASE i = Len(failed) + 1 /\ failed = <<>>
        <5>1. i = 1 /\ failed'[1] = plan[pos]
          BY <3>1, <4>3
        <5>2. Index(plan[pos]) \in Int
          BY <2>2, IndexOf
        <5> QED
          BY <5>1, <5>2
      <4> QED
        BY <2>2, <3>1, <4>1, <4>2, <4>3
    <3> QED
      BY <2>1, <3>2, <3>3
  <2> QED
    BY <1>4, <2>3, <2>4 DEF BuildOne, FailedAfter
<1>5. CASE BuildRaises \/ LoopOver \/ Finally \/ Interrupt
  BY <1>5 DEF BuildRaises, LoopOver, Finally, Interrupt, Caught
<1> QED
  BY <1>1, <1>2, <1>3, <1>4, <1>5 DEF Next

\* The program ends with status 0 in three places.
LEMMA ZeroStep == MainInv /\ Next => ZeroMeansDone'
<1> SUFFICES ASSUME MainInv, Next, exit' = 0 PROVE ZeroMeansDone'
  BY DEF ZeroMeansDone
<1> USE GateStatuses DEF MainInv, NoBuild, Goto, Exit, Running, Interrupted, Traceback
<1>0. pc # "over" /\ exit = Running
  BY DEF EndOK, Next, ParseArgs, Gate, GatesOver, PreflightSkipped, Preflight, Prefetch, PrefetchSkipped,
         SimulateOne, SimulateRaises, SimulateOver, SimulateSkipped, StartServer, EnterLoop,
         BuildOne, BuildRaises, LoopOver, Finally, Interrupt
<1>1. CASE ParseArgs \/ Gate \/ GatesOver \/ PreflightSkipped \/ Preflight \/ PrefetchSkipped
  BY <1>0, <1>1 DEF ParseArgs, Gate, GatesOver, PreflightSkipped, Preflight, PrefetchSkipped
<1>2. CASE Prefetch
  <2>1. args.prefetchOnly /\ args' = args /\ "prefetch" \in did'
    BY <1>0, <1>2 DEF Prefetch, Enter
  <2> QED
    BY <2>1 DEF ZeroMeansDone, DryRun
<1>3. CASE SimulateOne \/ SimulateRaises \/ SimulateSkipped
  BY <1>0, <1>3 DEF SimulateOne, SimulateRaises, SimulateSkipped
<1>4. CASE SimulateOver
  <2>1. AllPassed /\ args.simulateOnly /\ ~args.prefetchOnly
    BY <1>0, <1>4 DEF SimulateOver, PhasesOK
  <2> QED
    BY <1>4, <2>1 DEF SimulateOver, AllPassed, ZeroMeansDone, ToSet, DryRun
<1>5. CASE StartServer \/ EnterLoop \/ BuildOne \/ BuildRaises \/ LoopOver \/ Interrupt
  BY <1>0, <1>5 DEF StartServer, EnterLoop, BuildOne, BuildRaises, LoopOver, Interrupt
<1>6. CASE Finally
  <2>1. raised = "none" /\ failed = <<>> /\ pc = "finally"
    BY <1>6 DEF Finally, TypeOK
  <2>2. ~DryRun(args)
    BY <2>1 DEF PhasesOK, Building, Vetted
  <2>3. \A d \in ToSet(plan) : built[d] = "success"
    <3>1. \A i \in 1..Len(plan) : built[plan[i]] = "success"
      BY <2>1 DEF BuiltOK
    <3>2. DOMAIN plan = 1..Len(plan)
      BY DEF TypeOK
    <3> QED
      BY <3>1, <3>2 DEF ToSet
  <2> QED
    BY <1>6, <2>2, <2>3 DEF Finally, ZeroMeansDone, DryRun
<1> QED
  BY <1>1, <1>2, <1>3, <1>4, <1>5, <1>6 DEF Next

-----------------------------------------------------------------------------
(* The theorems. *)

\* The inductive invariant: the phases in their order, each behind the one that guards it,
\* and what the build loop has recorded so far.
THEOREM MainInvariant == Spec => []MainInv
<1>1. MainInv /\ UNCHANGED vars => MainInv'
  <2> SUFFICES ASSUME MainInv, UNCHANGED vars PROVE MainInv'
    OBVIOUS
  <2> USE DEF MainInv, vars
  <2>1. TypeOK' /\ PosOK'
    BY DEF TypeOK, PosOK
  <2>2. PhasesOK' /\ EndOK'
    BY DEF PhasesOK, Sound, Prefetched, Vetted, DryRun, AllPassed, EndOK
  <2>3. BuiltOK' /\ ServerOK'
    BY DEF BuiltOK, ServerOK
  <2>4. FailedOK'
    BY DEF FailedOK, InOrder
  <2>5. ZeroMeansDone'
    BY DEF ZeroMeansDone
  <2> QED
    BY <2>1, <2>2, <2>3, <2>4, <2>5
<1>2. MainInv /\ Next => MainInv'
  BY TypeStep, PosStep, PhasesStep, EndStep, BuiltStep, ServerStep, FailedStep, ZeroStep DEF MainInv
<1> QED
  BY <1>1, <1>2, InitEstablishes, PTL DEF Spec

\* Every variable of the program keeps its type, whatever the command line.
THEOREM MainTypeCorrect == Spec => []TypeOK
<1>1. MainInv => TypeOK
  BY DEF MainInv
<1> QED
  BY <1>1, MainInvariant, PTL

\* With --prefetch-only or --simulate-only, alone or with any other flags, no VM of the
\* operator's is killed and no real build is started.
THEOREM DryRunsDoNoHarm == Spec => []DryRunsAreHarmless
<1>1. MainInv => DryRunsAreHarmless
  BY DEF MainInv, PhasesOK, Vetted, DryRunsAreHarmless
<1> QED
  BY <1>1, MainInvariant, PTL

\* A real build runs only after the prefetch and every simulation of the plan that the
\* flags did not turn off.
THEOREM RealBuildsAreVetted == Spec => []BuildsAreVetted
<1>1. MainInv => BuildsAreVetted
  BY DEF MainInv, PhasesOK, Vetted, Prefetched, AllPassed, BuildsAreVetted, ToSet
<1> QED
  BY <1>1, MainInvariant, PTL

\* Exit status 0 means that what was asked for has happened.
THEOREM ZeroIsDone == Spec => []ZeroMeansDone
<1>1. MainInv => ZeroMeansDone
  BY DEF MainInv
<1> QED
  BY <1>1, MainInvariant, PTL

\* The extension server does not outlive the program, but for a Ctrl-C in its start, in the
\* gap before the try block, or in the finally block.
THEOREM ServerDoesNotOutlive == Spec => []ServerIsStopped
<1>1. MainInv => ServerIsStopped
  BY DEF MainInv, ServerOK, ServerIsStopped
<1> QED
  BY <1>1, MainInvariant, PTL

\* The run that the hint names, --start-from the first failed distro, builds every distro
\* that has failed, when the plan was in the order of DISTROS.
THEOREM HintIsEnough == Spec => []HintCoversFailed
<1>1. MainInv => HintCoversFailed
  <2> SUFFICES ASSUME MainInv, exit = 1, raised = "none", failed # <<>>, InOrder,
                      NEW d \in ToSet(failed)
               PROVE  d \in ToSet(PlanOf([args EXCEPT !.distros = Absent,
                                                      !.startFrom = Head(failed)]))
    BY DEF HintCoversFailed, InOrder
  <2> DEFINE again == [args EXCEPT !.distros = Absent, !.startFrom = Head(failed)]
  <2>1. failed \in Seq(Known) /\ Head(failed) = failed[1] /\ 1 \in 1..Len(failed)
    BY DEF MainInv, TypeOK
  <2>2. again.distros = Absent /\ again.startFrom = failed[1]
    <3>1. {"distros", "startFrom"} \subseteq DOMAIN args
      BY ArgsAssumption DEF MainInv, TypeOK, IsArgs
    <3> QED
      BY <2>1, <3>1
  <2>3. PICK i \in 1..Len(failed) : d = failed[i]
    BY <2>1 DEF ToSet
  <2>4. Index(failed[1]) <= Index(failed[i])
    BY DEF MainInv, FailedOK
  <2>5. d \in Known /\ Index(failed[1]) \in 1..Len(DISTROS) /\ Index(d) \in 1..Len(DISTROS)
    BY <2>1, <2>3, IndexOf
  <2>6. d \in ToSet(SubSeq(DISTROS, Index(failed[1]), Len(DISTROS)))
    BY <2>3, <2>4, <2>5, RestOfDistros
  <2>7. d \in ToSet(DISTROS)
    BY <2>1, <2>3 DEF Known
  <2> HIDE DEF again
  <2> QED
    BY <2>2, <2>6, <2>7 DEF PlanOf, Asked
<1> QED
  BY <1>1, MainInvariant, PTL

\* Once there is a plan, it holds what was asked for, from --start-from on, and nothing
\* else: whether it was made by a slice of DISTROS or by filtering the given list.
PlanIsAsked ==
  plan # <<>> =>
    ToSet(plan) =
      {d \in ToSet(Asked(args)) : args.startFrom = Absent \/ Index(d) >= Index(args.startFrom)}

THEOREM PlanIsWhatWasAsked == Spec => []PlanIsAsked
<1>1. Init => PlanIsAsked
  BY DEF Init, PlanIsAsked
<1>2. MainInv /\ PlanIsAsked /\ [Next]_vars => PlanIsAsked'
  <2> SUFFICES ASSUME MainInv, PlanIsAsked, [Next]_vars PROVE PlanIsAsked'
    OBVIOUS
  <2>1. CASE UNCHANGED <<args, plan>>
    BY <2>1 DEF PlanIsAsked, Asked
  <2>2. CASE ParseArgs
    <3>1. args' = args /\ args \in ArgSets
      BY <2>2 DEF ParseArgs, MainInv, TypeOK
    <3>2. CASE ~BadArgs(args)
      <4>1. plan' = PlanOf(args)
        BY <2>2, <3>2 DEF ParseArgs
      <4> QED
        BY <3>1, <3>2, <4>1, PlanHolds DEF PlanIsAsked, Asked
    <3>3. CASE BadArgs(args)
      BY <2>1, <2>2, <3>3 DEF ParseArgs
    <3> QED
      BY <3>2, <3>3
  <2>3. UNCHANGED <<args, plan>> \/ ParseArgs
    BY DEF vars, Next, Gate, GatesOver, PreflightSkipped, Preflight, Prefetch, PrefetchSkipped,
           SimulateOne, SimulateRaises, SimulateOver, SimulateSkipped, StartServer, EnterLoop,
           BuildOne, BuildRaises, LoopOver, Finally, Interrupt
  <2> QED
    BY <2>1, <2>2, <2>3
<1> QED
  BY <1>1, <1>2, MainInvariant, PTL DEF Spec

-----------------------------------------------------------------------------
(* main implements BuildLoop.                                              *)

\* Where no build has begun, nothing is counted; and what is not counted stays so.
LEMMA LoopStepBefore ==
  ASSUME MainInv, UNCHANGED <<plan, built, failed>>,
         "build" \notin did, "build" \notin did', pc # "finally", pc # "over"
  PROVE  [Loop!Next]_Loop!loopVars
<1> USE DEF DoneBuilds, LoopEnd, Loop!Next, Loop!Ends, Loop!loopVars
<1>1. LoopEnd = "none" /\ LoopEnd' \in {"none", "stopped"}
  OBVIOUS
<1>2. DoneBuilds = 0 /\ DoneBuilds' = 0
  OBVIOUS
<1> QED
  BY <1>1, <1>2

\* Every step is a step of the loop or none.
LEMMA LoopStep == MainInv /\ [Next]_vars => [Loop!Next]_Loop!loopVars
<1> SUFFICES ASSUME MainInv, [Next]_vars PROVE [Loop!Next]_Loop!loopVars
  OBVIOUS
<1>t. TypeOK /\ PosOK /\ PhasesOK /\ EndOK
  BY DEF MainInv
<1>n. Len(plan) \in Nat /\ pos \in Nat /\ DOMAIN plan = 1..Len(plan)
  BY <1>t, GateStatuses DEF TypeOK
<1>1. CASE ParseArgs
  <2>1. pc = "args" /\ plan = <<>> /\ "build" \notin did /\ UNCHANGED <<did, built, failed, pos>>
    BY <1>1, <1>t DEF ParseArgs, NoBuild, PhasesOK
  <2>2. CASE BadArgs(args)
    <3>1. UNCHANGED plan
      BY <1>1, <2>2 DEF ParseArgs
    <3> QED
      BY <2>1, <3>1, LoopStepBefore
  <2>3. CASE ~BadArgs(args)
    <3>1. pc' = "gate"
      BY <1>1, <2>3 DEF ParseArgs, Goto
    <3> QED
      BY <2>1, <3>1 DEF DoneBuilds, LoopEnd, Loop!Next, Loop!MakePlan
  <2> QED
    BY <2>2, <2>3
<1>2. CASE \/ Gate \/ GatesOver \/ PreflightSkipped \/ Preflight \/ Prefetch \/ PrefetchSkipped
           \/ SimulateOne \/ SimulateRaises \/ SimulateOver \/ SimulateSkipped
           \/ StartServer \/ EnterLoop
  <2>1. pc \notin {"loop", "finally", "over"} /\ UNCHANGED <<plan, built, failed>>
    BY <1>2 DEF Gate, GatesOver, PreflightSkipped, Preflight, Prefetch, PrefetchSkipped,
                SimulateOne, SimulateRaises, SimulateOver, SimulateSkipped, StartServer,
                EnterLoop, NoBuild
  <2>2. "build" \notin did
    BY <1>t, <2>1 DEF PhasesOK
  <2>3. "build" \notin did'
    BY <1>2, <2>2 DEF Gate, GatesOver, PreflightSkipped, Preflight, Prefetch, PrefetchSkipped,
                SimulateOne, SimulateRaises, SimulateOver, SimulateSkipped, StartServer,
                EnterLoop, Enter, NoBuild
  <2> QED
    BY <2>1, <2>2, <2>3, LoopStepBefore
<1>3. CASE BuildOne
  <2>1. /\ pc = "loop" /\ pc' = "loop" /\ pos \in 1..Len(plan) /\ pos' = pos + 1
        /\ plan' = plan /\ "build" \in did'
    BY <1>3, <1>n DEF BuildOne, Goto, Enter
  <2>2. DoneBuilds = pos - 1 /\ DoneBuilds' = pos
    BY <1>t, <1>n, <2>1 DEF PosOK, DoneBuilds
  <2>3. LoopEnd = "none" /\ LoopEnd' = "none"
    BY <2>1 DEF LoopEnd
  <2>4. plan[pos] \in Known /\ failed \in Seq(Known)
    BY <1>t, <2>1 DEF TypeOK
  <2>5. PICK outcome \in {"success", "cloud-init", "shutdown"} :
          built' = [built EXCEPT ![plan[pos]] = outcome] /\ failed' = FailedAfter(outcome)
    BY <1>3 DEF BuildOne
  <2>6. \A d \in Known : built'[d] = IF d = plan[pos] THEN outcome ELSE built[d]
    BY <1>t, <2>4, <2>5 DEF TypeOK
  <2>7. Loop!Running /\ Loop!Current = plan[pos] /\ DoneBuilds' = DoneBuilds + 1
    BY <1>n, <2>1, <2>2, <2>3 DEF Loop!Running, Loop!Current
  <2>8. CASE outcome = "success"
    <3>1. {d \in Known : built'[d] = "success"} = {d \in Known : built[d] = "success"} \cup {plan[pos]}
      BY <2>4, <2>6, <2>8
    <3>2. ToSet(failed') = ToSet(failed)
      BY <2>5, <2>8 DEF FailedAfter
    <3> QED
      BY <2>1, <2>3, <2>7, <3>1, <3>2 DEF Loop!Next, Loop!BuildSucceeds
  <2>9. CASE outcome # "success"
    <3>1. {d \in Known : built'[d] = "success"} = {d \in Known : built[d] = "success"} \ {plan[pos]}
      BY <2>4, <2>6, <2>9
    <3>2. ToSet(failed') = ToSet(failed) \cup {plan[pos]}
      BY <2>4, <2>5, <2>9, AppendedSet DEF FailedAfter
    <3> QED
      BY <2>1, <2>3, <2>7, <3>1, <3>2 DEF Loop!Next, Loop!BuildFails
  <2> QED
    BY <2>8, <2>9
<1>4. CASE BuildRaises
  <2>1. /\ pc = "loop" /\ pc' = "finally" /\ raised' = "traceback" /\ "build" \in did'
        /\ UNCHANGED <<plan, pos, built, failed>>
    BY <1>4 DEF BuildRaises, Goto, Enter
  <2>2. DoneBuilds' = DoneBuilds
    BY <1>t, <1>n, <2>1 DEF PosOK, DoneBuilds
  <2>3. LoopEnd = "none" /\ LoopEnd' = "stopped"
    BY <2>1 DEF LoopEnd
  <2> QED
    BY <2>1, <2>2, <2>3 DEF Loop!Next, Loop!Ends
<1>5. CASE LoopOver
  <2>1. /\ pc = "loop" /\ pc' = "finally" /\ pos \notin DOMAIN plan
        /\ UNCHANGED <<plan, pos, did, raised, built, failed>>
    BY <1>5 DEF LoopOver, Goto, NoBuild
  <2>2. pos = Len(plan) + 1 /\ raised = "none" /\ plan # <<>>
    BY <1>t, <1>n, <2>1 DEF PosOK, EndOK, PhasesOK, Sound
  <2>3. Len(plan) # 0
    BY <1>t, <2>2 DEF TypeOK
  <2>4. "build" \in did
    BY <1>t, <1>n, <2>1, <2>2, <2>3 DEF PosOK
  <2>5. DoneBuilds = Len(plan) /\ DoneBuilds' = DoneBuilds
    BY <1>n, <2>1, <2>2, <2>4 DEF DoneBuilds
  <2>6. LoopEnd = "none" /\ LoopEnd' = "complete"
    BY <1>n, <2>1, <2>2, <2>4 DEF LoopEnd
  <2> QED
    BY <2>1, <2>5, <2>6 DEF Loop!Next, Loop!Ends
<1>6. CASE Finally
  BY <1>6 DEF Finally, Exit, DoneBuilds, LoopEnd, Loop!loopVars
<1>7. CASE Interrupt
  <2>1. UNCHANGED <<plan, pos, did, built, failed>>
    BY <1>7 DEF Interrupt
  <2>2. DoneBuilds' = DoneBuilds
    BY <2>1 DEF DoneBuilds
  <2>3. CASE pc = "finally"
    <3>1. pc' = "over" /\ UNCHANGED raised
      BY <1>7, <2>3 DEF Interrupt, Caught, Exit
    <3> QED
      BY <2>1, <2>2, <2>3, <3>1 DEF LoopEnd, Loop!loopVars
  <2>4. CASE pc = "loop"
    <3>1. pc' = "finally" /\ raised' = "interrupt"
      BY <1>7, <2>4 DEF Interrupt, Caught, Goto
    <3>2. LoopEnd = "none" /\ LoopEnd' = "stopped"
      BY <2>4, <3>1 DEF LoopEnd
    <3> QED
      BY <2>1, <2>2, <3>2 DEF Loop!Next, Loop!Ends
  <2>5. CASE pc \notin {"loop", "finally"}
    <3>1. "build" \notin did /\ pc # "over"
      BY <1>7, <1>t, <2>5 DEF Interrupt, PhasesOK
    <3> QED
      BY <2>1, <2>5, <3>1, LoopStepBefore
  <2> QED
    BY <2>3, <2>4, <2>5
<1>8. CASE UNCHANGED vars
  BY <1>8 DEF vars, DoneBuilds, LoopEnd, Loop!loopVars
<1> QED
  BY <1>1, <1>2, <1>3, <1>4, <1>5, <1>6, <1>7, <1>8 DEF Next

\* Whatever phases come before, and wherever a Ctrl-C falls, main does with its plan what
\* BuildLoop promises.
THEOREM MainKeepsLoop == Spec => KeepsLoop
<1>1. Init => Loop!Init
  <2> SUFFICES ASSUME Init PROVE Loop!Init
    OBVIOUS
  <2>1. DoneBuilds = 0 /\ LoopEnd = "none"
    BY DEF Init, DoneBuilds, LoopEnd
  <2>2. {d \in Known : built[d] = "success"} = {} /\ ToSet(failed) = {}
    BY DEF Init, ToSet
  <2> QED
    BY <2>1, <2>2 DEF Loop!Init
<1> QED
  BY <1>1, LoopStep, MainInvariant, PTL DEF Spec, KeepsLoop, Loop!Spec

=============================================================================
