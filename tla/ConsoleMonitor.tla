---------------------------- MODULE ConsoleMonitor ----------------------------
(***************************************************************************)
(* setup_vm.py monitor: the phase bar over a growing console.log, and the  *)
(* wait for SSH of --tail.                                                 *)
(*                                                                         *)
(* A console.log is a number of bytes in which each phase's mark, Width    *)
(* bytes long, ends at a position of its own or does not occur.  QEMU      *)
(* appends to it in pieces of any length, so that a mark may be there in   *)
(* part, and a fresh build removes the file and writes another.  The       *)
(* scanner asks for the size and then opens and reads the file: both the   *)
(* guest and a fresh build may come in between.                            *)
(***************************************************************************)
EXTENDS Naturals

CONSTANTS
  Marks,      \* _CLOUD_INIT_PHASES, and the kernel's banner
  Final,      \* "GNOME setup complete"
  Width,      \* length of a mark
  Overlap,    \* bytes read again before the offset
  MaxSize,    \* bound on the length of a log
  MaxLogs,    \* bound on the logs ever written
  TailTurns   \* the 1200 s of --tail, in units of 10 s

ASSUME MarksAssumption == Final \in Marks
ASSUME SizesAssumption ==
  /\ Width \in Nat \ {0} /\ Overlap \in Nat /\ MaxSize \in Nat
  /\ MaxLogs \in Nat \ {0} /\ TailTurns \in Nat
  /\ Overlap + 1 >= Width

VARIABLES
  nth,      \* number of the current log
  exists,   \* console.log is there
  size,     \* its length
  at,       \* at[m]: where mark m ends, or will end, in it; 0 if nowhere
  mode,     \* "bar", "once" or "tail"
  pc,       \* control point of the monitor
  stat,     \* the size stat() returned
  offset,   \* _offset
  phases,   \* the marks found so far
  exit,     \* exit status; "none" while it runs
  waited,   \* time spent waiting in --tail
  statOf, scanned, fooled  \* history: the log that was stat'ed, the log the offset is
                           \* a position in, whether a replaced log went unnoticed

logVars  == <<nth, exists, size, at>>
scanVars == <<stat, offset, phases, statOf, scanned, fooled>>
monVars  == <<logVars, mode, pc, scanVars, exit, waited>>

Exits     == {"none", "ok", "missing", "gave up", "lost", "raised", "interrupted"}
MonPoints == {"enter", "stat", "read", "report", "probe", "stream", "returned"}

\* Where the marks of a log are: no two in the same place.
Layouts ==
  {l \in [Marks -> {0} \cup Width..MaxSize] :
     \A m, n \in Marks : m # n /\ l[m] # 0 /\ l[n] >= l[m] => l[n] >= l[m] + Width}

InLog(m) == exists /\ at[m] \in 1..size

MonInit ==
  /\ nth = 1 /\ exists \in BOOLEAN /\ size = 0 /\ at \in Layouts
  /\ mode \in {"bar", "once", "tail"}
  /\ pc = "enter" /\ exit = "none" /\ waited = 0
  /\ stat = 0 /\ offset = 0 /\ phases = {}
  /\ statOf = 1 /\ scanned = 1 /\ fooled = FALSE

-----------------------------------------------------------------------------
(* QEMU and the builds. *)

Append ==
  /\ exists
  /\ size' \in size + 1..MaxSize
  /\ UNCHANGED <<nth, exists, at, mode, pc, scanVars, exit, waited>>

\* qemu.launch removes the log of the VM before.
Unlink ==
  /\ exists /\ nth < MaxLogs
  /\ exists' = FALSE
  /\ UNCHANGED <<nth, size, at, mode, pc, scanVars, exit, waited>>

\* QEMU opens its own.
Reopen ==
  /\ nth < MaxLogs
  /\ nth' = nth + 1 /\ exists' = TRUE /\ size' = 0 /\ at' \in Layouts
  /\ UNCHANGED <<mode, pc, scanVars, exit, waited>>

World == Append \/ Unlink \/ Reopen

-----------------------------------------------------------------------------
(* The phase bar. *)

Exit(status) == pc' = "returned" /\ exit' = status

Enter ==
  /\ pc = "enter"
  /\ IF ~exists THEN Exit("missing")
     ELSE pc' = (IF mode = "tail" THEN "probe" ELSE "stat") /\ UNCHANGED exit
  /\ UNCHANGED <<logVars, mode, scanVars, waited>>

\* No file: "(no readable console.log yet)".
StatFails ==
  /\ pc = "stat" /\ ~exists
  /\ pc' = "report"
  /\ UNCHANGED <<logVars, mode, scanVars, exit, waited>>

\* Bug: the reset forgets the offset.
StatKeepsOffset ==
  /\ pc = "stat" /\ exists
  /\ stat' = size /\ statOf' = nth
  /\ IF size < offset
     THEN phases' = {} /\ scanned' = nth /\ fooled' = FALSE /\ UNCHANGED offset
     ELSE /\ fooled' = (fooled \/ (nth # scanned /\ offset # 0))
          /\ UNCHANGED <<offset, phases, scanned>>
  /\ pc' = IF size <= offset' THEN "report" ELSE "read"
  /\ UNCHANGED <<logVars, mode, exit, waited>>

\* A file that shrank is taken for a fresh build's: everything remembered is dropped.
\* Nothing to read if there is nothing after the offset.
Stat ==
  /\ pc = "stat" /\ exists
  /\ stat' = size /\ statOf' = nth
  /\ IF size < offset
     THEN offset' = 0 /\ phases' = {} /\ scanned' = nth /\ fooled' = FALSE
     ELSE /\ fooled' = (fooled \/ (nth # scanned /\ offset # 0))
          /\ UNCHANGED <<offset, phases, scanned>>
  /\ pc' = IF size = offset' THEN "report" ELSE "read"
  /\ UNCHANGED <<logVars, mode, exit, waited>>

ReadFails ==
  /\ pc = "read" /\ ~exists
  /\ pc' = "report"
  /\ UNCHANGED <<logVars, mode, scanVars, exit, waited>>

ChunkStart == IF offset > Overlap THEN offset - Overlap ELSE 0

\* The marks that lie in the chunk, whole.
InChunk == {m \in Marks : InLog(m) /\ at[m] >= ChunkStart + Width}

\* Bug: no overlap.
ReadNoOverlap ==
  /\ pc = "read" /\ exists
  /\ phases' = phases \cup {m \in Marks : InLog(m) /\ at[m] >= offset + Width}
  /\ offset' = stat
  /\ scanned' = nth
  /\ fooled' = (fooled \/ nth # statOf)
  /\ pc' = "report"
  /\ UNCHANGED <<logVars, mode, stat, statOf, exit, waited>>

\* All that is there by now is read; the offset is the size of before.
Read ==
  /\ pc = "read" /\ exists
  /\ phases' = phases \cup InChunk
  /\ offset' = stat
  /\ scanned' = nth
  /\ fooled' = (fooled \/ nth # statOf)
  /\ pc' = "report"
  /\ UNCHANGED <<logVars, mode, stat, statOf, exit, waited>>

\* The look for cloud-init's detail over SSH: an unusable pgrep ends the monitor.
HintRaises ==
  /\ pc = "report"
  /\ Exit("raised")
  /\ UNCHANGED <<logVars, mode, scanVars, waited>>

\* The bar is drawn; complete, or one snapshot only: 0.  Otherwise sleep(5).
Report ==
  /\ pc = "report"
  /\ IF Final \in phases \/ mode = "once" THEN Exit("ok") ELSE pc' = "stat" /\ UNCHANGED exit
  /\ UNCHANGED <<logVars, mode, scanVars, waited>>

-----------------------------------------------------------------------------
(* --tail. *)

\* _try_ssh_with_key: a client, "auth_pending" (30 s) or nothing (20 s).
Connected ==
  /\ pc = "probe" /\ waited < TailTurns
  /\ pc' = "stream"
  /\ UNCHANGED <<logVars, mode, scanVars, exit, waited>>

\* Bug: the deadline is not looked at between the probes.
RetryForEver ==
  /\ pc = "probe"
  /\ waited' \in {waited + 2, waited + 3}
  /\ UNCHANGED <<logVars, mode, pc, scanVars, exit>>

Retry ==
  /\ pc = "probe" /\ waited < TailTurns
  /\ waited' \in {waited + 2, waited + 3}
  /\ UNCHANGED <<logVars, mode, pc, scanVars, exit>>

\* "falling back to phase-bar mode" is what it says; it returns 1.
TailGivesUp ==
  /\ pc = "probe" /\ waited >= TailTurns
  /\ Exit("gave up")
  /\ UNCHANGED <<logVars, mode, scanVars, waited>>

\* The remote tail has ended, or the stream is lost.
StreamEnds ==
  /\ pc = "stream"
  /\ \E status \in {"ok", "lost"} : Exit(status)
  /\ UNCHANGED <<logVars, mode, scanVars, waited>>

\* The same pgrep, in the middle of the wait.
ProbeRaises ==
  /\ pc = "probe"
  /\ Exit("raised")
  /\ UNCHANGED <<logVars, mode, scanVars, waited>>

\* Ctrl-C; the wait of --tail does not catch it, which ends the program all the same.
Interrupt ==
  /\ pc \notin {"enter", "returned"}
  /\ Exit("interrupted")
  /\ UNCHANGED <<logVars, mode, scanVars, waited>>

MonStep ==
  \/ Enter \/ StatFails \/ Stat \/ ReadFails \/ Read \/ Report
  \/ Connected \/ Retry \/ TailGivesUp

MonNext == World \/ MonStep \/ HintRaises \/ ProbeRaises \/ StreamEnds \/ Interrupt

\* The monitor's own steps end, with a sleep or a timeout each; a stream may go on for
\* ever.
MonSpec == MonInit /\ [][MonNext]_monVars /\ WF_monVars(MonStep)

-----------------------------------------------------------------------------
(* Properties. *)

MonTypeOK ==
  /\ nth \in 1..MaxLogs /\ exists \in BOOLEAN /\ size \in 0..MaxSize /\ at \in Layouts
  /\ mode \in {"bar", "once", "tail"}
  /\ pc \in MonPoints
  /\ stat \in 0..MaxSize /\ offset \in 0..MaxSize
  /\ phases \subseteq Marks
  /\ exit \in Exits
  /\ exit # "none" <=> pc = "returned"
  /\ waited \in 0..(TailTurns + 2)

\* "scanning only what arrived since the last tick is equivalent": when the bar is
\* drawn, the marks found are those that a search of the whole log would find, up
\* to what arrived meanwhile; also when the log was replaced in between, unless by
\* one that had grown as long as the old one before the monitor looked.
EquivalentToFullScan ==
  pc = "report" /\ ~fooled /\ exists /\ scanned = nth =>
    /\ \A m \in Marks : at[m] \in 1..offset => m \in phases
    /\ \A m \in phases : InLog(m)

\* Once the setup is complete and its log stays, the monitor ends, with the good news if
\* nothing else has ended it: however the marks fell into the chunks it has read, and
\* however often the log was replaced before, again unless that went unnoticed.  And
\* --tail does not wait for ever for a guest that never lets it in.
Complete == InLog(Final) /\ mode # "tail"
SeesCompletion ==
  /\ (<>[]Complete /\ []~fooled) => <>(pc = "returned")
  /\ (pc = "probe") ~> (pc # "probe")

=============================================================================
