------------------------- MODULE ConsoleMonitor_proofs -------------------------
(***************************************************************************)
(* Proofs about the console monitor, for every set of marks, every length  *)
(* and number of logs, and every overlap that the code's comment asks for: *)
(* at least the length of a mark less one.                                 *)
(***************************************************************************)
EXTENDS ConsoleMonitor, TLAPS

USE MarksAssumption, SizesAssumption

\* Which logs the offset and the last stat() are about.
HistoryOK ==
  /\ scanned \in 1..nth
  /\ statOf \in 1..nth
  /\ fooled \in BOOLEAN

\* A scan that has not begun remembers nothing, and a read is due only for bytes after the
\* offset.
OffsetOK ==
  /\ offset = 0 => phases = {}
  /\ pc = "read" => stat > offset

\* What is remembered is right for the log the offset is a position in.
ScanOK ==
  ~fooled /\ exists /\ scanned = nth =>
    /\ offset <= size
    /\ \A m \in Marks : at[m] \in 1..offset => m \in phases
    /\ \A m \in phases : InLog(m)

\* A read that is due: the size it goes by is one the log has had, and a log the scanner
\* has not read from yet is read from its beginning.
ReadOK ==
  pc = "read" /\ ~fooled /\ exists /\ statOf = nth =>
    /\ stat <= size
    /\ scanned # nth => offset = 0

MonInv ==
  /\ MonTypeOK
  /\ HistoryOK
  /\ OffsetOK
  /\ ScanOK
  /\ ReadOK

\* The initial states satisfy the invariant.
LEMMA MonInitInv == MonInit => MonInv
<1> SUFFICES ASSUME MonInit PROVE MonInv
  OBVIOUS
<1>1. 1 \in 1..MaxLogs /\ 0 \in 0..MaxSize /\ 0 \in 0..(TailTurns + 2)
  OBVIOUS
<1>2. MonTypeOK
  BY <1>1 DEF MonInit, MonTypeOK, MonPoints, Exits
<1>3. HistoryOK
  <2>1. scanned \in 1..nth /\ statOf \in 1..nth
    BY DEF MonInit
  <2> QED
    BY <2>1 DEF MonInit, HistoryOK
<1>4. OffsetOK /\ ReadOK
  BY DEF MonInit, OffsetOK, ReadOK
<1>5. ScanOK
  BY DEF MonInit, ScanOK, InLog
<1> QED
  BY <1>2, <1>3, <1>4, <1>5 DEF MonInv

-----------------------------------------------------------------------------
(* What a step may do. *)

\* The steps of the monitor that neither stat() the log nor read it.
Idle ==
  /\ \/ pc' \in MonPoints \ {"read", "returned"} /\ exit' = exit /\ pc # "returned"
     \/ pc' = "returned" /\ exit' \in Exits \ {"none"}
  /\ waited' = waited
       \/ (waited < TailTurns /\ waited' \in {waited + 2, waited + 3})
  /\ UNCHANGED <<logVars, mode, scanVars>>

\* Every step is the world's, a stat(), a read, or an idle one.
LEMMA MonKinds ==
  ASSUME MonTypeOK, [MonNext]_monVars
  PROVE  World \/ Stat \/ Read \/ Idle \/ UNCHANGED monVars
<1> USE DEF Idle, Exit, Exits, MonPoints, MonTypeOK
<1>1. CASE Enter
  BY <1>1 DEF Enter
<1>2. CASE StatFails \/ ReadFails
  BY <1>2 DEF StatFails, ReadFails
<1>3. CASE Report
  BY <1>3 DEF Report
<1>4. CASE Connected
  BY <1>4 DEF Connected
<1>5. CASE Retry
  BY <1>5 DEF Retry
<1>6. CASE TailGivesUp \/ HintRaises \/ ProbeRaises
  BY <1>6 DEF TailGivesUp, HintRaises, ProbeRaises
<1>7. CASE StreamEnds
  BY <1>7 DEF StreamEnds
<1>8. CASE Interrupt
  BY <1>8 DEF Interrupt
<1> QED
  BY <1>1, <1>2, <1>3, <1>4, <1>5, <1>6, <1>7, <1>8 DEF MonNext, MonStep

\* A log grows, goes, or is followed by another one; the monitor does not take part.
LEMMA WorldEffect ==
  ASSUME MonTypeOK, World
  PROVE  /\ UNCHANGED <<mode, pc, scanVars, exit, waited>>
         /\ \/ nth' = nth /\ exists' = exists /\ at' = at /\ size' >= size /\ size' \in 0..MaxSize
            \/ nth' = nth /\ exists' = FALSE /\ at' = at /\ size' = size
            \/ nth' = nth + 1 /\ nth' \in 1..MaxLogs /\ exists' = TRUE /\ size' = 0 /\ at' \in Layouts
<1>1. CASE Append
  BY <1>1 DEF Append, MonTypeOK
<1>2. CASE Unlink
  BY <1>2 DEF Unlink
<1>3. CASE Reopen
  <2>1. nth' = nth + 1 /\ nth' \in 1..MaxLogs
    BY <1>3 DEF Reopen, MonTypeOK
  <2> QED
    BY <1>3, <2>1 DEF Reopen
<1> QED
  BY <1>1, <1>2, <1>3 DEF World

-----------------------------------------------------------------------------
(* The parts of the invariant. *)

\* The types are preserved.
LEMMA MonTypeStep == MonTypeOK /\ [MonNext]_monVars => MonTypeOK'
<1> SUFFICES ASSUME MonTypeOK, [MonNext]_monVars PROVE MonTypeOK'
  OBVIOUS
<1> USE DEF MonTypeOK
<1>1. CASE World
  <2>1. nth' \in 1..MaxLogs /\ size' \in 0..MaxSize /\ at' \in Layouts
    BY <1>1 DEF World, Append, Unlink, Reopen
  <2>2. exists' \in BOOLEAN
    BY <1>1, WorldEffect
  <2> QED
    BY <1>1, <2>1, <2>2, WorldEffect DEF scanVars
<1>2. CASE Stat
  BY <1>2 DEF Stat, logVars, MonPoints
<1>3. CASE Read
  BY <1>3 DEF Read, InChunk, logVars, MonPoints
<1>4. CASE Idle
  <2>1. waited' \in 0..(TailTurns + 2)
    BY <1>4 DEF Idle
  <2>2. pc' \in MonPoints /\ exit' \in Exits
    BY <1>4 DEF Idle, Exits, MonPoints
  <2>3. (exit' # "none") <=> (pc' = "returned")
    BY <1>4 DEF Idle
  <2> QED
    BY <1>4, <2>1, <2>2, <2>3 DEF Idle, logVars, scanVars
<1>5. CASE UNCHANGED monVars
  BY <1>5 DEF monVars, logVars, scanVars
<1> QED
  BY <1>1, <1>2, <1>3, <1>4, <1>5, MonKinds

\* HistoryOK is preserved: the logs are numbered in their order.
LEMMA HistoryStep == MonTypeOK /\ HistoryOK /\ [MonNext]_monVars => HistoryOK'
<1> SUFFICES ASSUME MonTypeOK, HistoryOK, [MonNext]_monVars PROVE HistoryOK'
  OBVIOUS
<1> USE DEF HistoryOK
<1>a. nth \in Nat \ {0}
  BY DEF MonTypeOK
<1>1. CASE World
  <2>1. nth' \in {nth, nth + 1}
    BY <1>1, WorldEffect
  <2>2. UNCHANGED <<scanned, statOf, fooled>>
    BY <1>1, WorldEffect DEF scanVars
  <2>3. scanned' \in 1..nth' /\ statOf' \in 1..nth'
    BY <2>1, <2>2, <1>a
  <2> QED
    BY <2>2, <2>3
<1>2. CASE Stat
  <2>1. nth' = nth /\ statOf' = nth /\ scanned' \in {scanned, nth}
    BY <1>2 DEF Stat, logVars
  <2>2. fooled' \in BOOLEAN
    BY <1>2 DEF Stat
  <2>3. scanned' \in 1..nth' /\ statOf' \in 1..nth'
    BY <2>1, <1>a
  <2> QED
    BY <2>2, <2>3
<1>3. CASE Read
  <2>1. nth' = nth /\ statOf' = statOf /\ scanned' = nth
    BY <1>3 DEF Read, logVars
  <2>2. fooled' \in BOOLEAN
    BY <1>3 DEF Read
  <2>3. scanned' \in 1..nth' /\ statOf' \in 1..nth'
    BY <2>1, <1>a
  <2> QED
    BY <2>2, <2>3
<1>4. CASE Idle \/ UNCHANGED monVars
  BY <1>4 DEF Idle, monVars, logVars, scanVars
<1> QED
  BY <1>1, <1>2, <1>3, <1>4, MonKinds

\* OffsetOK is preserved.
LEMMA OffsetStep == MonTypeOK /\ OffsetOK /\ [MonNext]_monVars => OffsetOK'
<1> SUFFICES ASSUME MonTypeOK, OffsetOK, [MonNext]_monVars PROVE OffsetOK'
  OBVIOUS
<1> USE DEF OffsetOK
<1>a. size \in Nat /\ offset \in Nat /\ stat \in Nat
  BY DEF MonTypeOK
<1>1. CASE World
  BY <1>1, WorldEffect DEF scanVars
<1>2. CASE Stat
  BY <1>2, <1>a DEF Stat
<1>3. CASE Read
  BY <1>3, <1>a DEF Read
<1>4. CASE Idle \/ UNCHANGED monVars
  BY <1>4 DEF Idle, monVars, scanVars
<1> QED
  BY <1>1, <1>2, <1>3, <1>4, MonKinds

\* A mark that ends after the offset lies in the chunk from its first byte on, because the
\* overlap is not shorter than a mark less one byte.
LEMMA MarkInChunk ==
  ASSUME MonTypeOK, NEW m \in Marks, InLog(m), at[m] > offset
  PROVE  m \in InChunk
<1>1. at[m] \in {0} \cup Width..MaxSize /\ offset \in Nat
  BY DEF MonTypeOK, Layouts
<1>2. at[m] >= ChunkStart + Width
  BY <1>1 DEF ChunkStart
<1> QED
  BY <1>2 DEF InChunk

\* ScanOK and ReadOK are preserved.
LEMMA ScanStep ==
  MonInv /\ [MonNext]_monVars => ScanOK' /\ ReadOK'
<1> SUFFICES ASSUME MonInv, [MonNext]_monVars PROVE ScanOK' /\ ReadOK'
  OBVIOUS
<1>a. /\ MonTypeOK /\ HistoryOK /\ OffsetOK /\ ScanOK /\ ReadOK
      /\ size \in Nat /\ offset \in Nat /\ stat \in Nat /\ nth \in Nat
  BY DEF MonInv, MonTypeOK
<1>b. at \in [Marks -> {0} \cup Width..MaxSize] /\ phases \subseteq Marks
  BY DEF MonInv, MonTypeOK, Layouts
<1>1. CASE World
  <2>1. UNCHANGED <<pc, stat, offset, phases, statOf, scanned, fooled>>
    BY <1>1, <1>a, WorldEffect DEF scanVars
  <2>2. CASE nth' = nth /\ exists' = exists /\ at' = at /\ size' >= size /\ size' \in 0..MaxSize
    <3>1. \A m \in phases : InLog(m) => InLog(m)'
      BY <2>2, <1>a, <1>b DEF InLog
    <3>2. ScanOK'
      BY <2>1, <2>2, <3>1, <1>a DEF ScanOK
    <3>3. ReadOK'
      BY <2>1, <2>2, <1>a DEF ReadOK
    <3> QED
      BY <3>2, <3>3
  <2>3. CASE exists' = FALSE
    BY <2>3 DEF ScanOK, ReadOK
  <2>4. CASE nth' = nth + 1
    BY <2>1, <2>4, <1>a DEF ScanOK, ReadOK, HistoryOK
  <2> QED
    BY <1>1, <1>a, <2>2, <2>3, <2>4, WorldEffect
<1>2. CASE Stat
  <2>1. UNCHANGED <<nth, exists, size, at>> /\ pc = "stat" /\ stat' = size /\ statOf' = nth
    BY <1>2 DEF Stat, logVars
  <2>2. CASE size < offset
    <3>1. offset' = 0 /\ phases' = {} /\ scanned' = nth
      BY <1>2, <2>2 DEF Stat
    <3> QED
      BY <2>1, <3>1, <1>a DEF ScanOK, ReadOK
  <2>3. CASE ~(size < offset)
    <3>1. UNCHANGED <<offset, phases, scanned>> /\ fooled' = (fooled \/ (nth # scanned /\ offset # 0))
      BY <1>2, <2>3 DEF Stat
    <3>2. ScanOK'
      BY <2>1, <3>1, <1>a DEF ScanOK, InLog
    <3>3. ~fooled' /\ scanned' # nth' => offset' = 0
      BY <2>1, <3>1
    <3>4. ReadOK'
      BY <2>1, <3>3, <1>a DEF ReadOK
    <3> QED
      BY <3>2, <3>4
  <2> QED
    BY <2>2, <2>3
<1>3. CASE Read
  <2>1. /\ UNCHANGED <<nth, exists, size, at, stat, statOf>> /\ pc = "read" /\ exists
        /\ pc' = "report" /\ offset' = stat /\ phases' = phases \cup InChunk
        /\ fooled' = (fooled \/ nth # statOf) /\ scanned' = nth
    BY <1>3 DEF Read, logVars
  <2>2. ReadOK'
    BY <2>1 DEF ReadOK
  <2>3. ASSUME ~fooled' PROVE ScanOK'
    <3>1. ~fooled /\ statOf = nth /\ stat <= size
      BY <2>1, <2>3, <1>a DEF ReadOK
    <3>2. /\ \A m \in Marks : at[m] \in 1..offset => m \in phases
          /\ \A m \in phases : InLog(m)
      <4>1. CASE scanned = nth
        BY <4>1, <2>1, <3>1, <1>a DEF ScanOK
      <4>2. CASE scanned # nth
        BY <4>2, <2>1, <3>1, <1>a DEF ReadOK, OffsetOK
      <4> QED
        BY <4>1, <4>2
    <3>3. ASSUME NEW m \in Marks, at[m] \in 1..stat PROVE m \in phases'
      <4>1. CASE at[m] <= offset
        <5>1. at[m] \in 1..offset
          BY <4>1, <3>3, <1>a
        <5> QED
          BY <5>1, <3>2, <2>1
      <4>2. CASE at[m] > offset
        <5>1. InLog(m)
          BY <2>1, <3>1, <3>3, <1>a DEF InLog
        <5> QED
          BY <5>1, <4>2, <2>1, <1>a, MarkInChunk
      <4> QED
        BY <4>1, <4>2, <1>a, <3>3
    <3>4. \A m \in phases' : InLog(m)'
      BY <2>1, <3>2 DEF InChunk, InLog
    <3> QED
      BY <2>1, <3>1, <3>3, <3>4 DEF ScanOK
  <2>4. ScanOK'
    BY <2>3 DEF ScanOK
  <2> QED
    BY <2>2, <2>4
<1>4. CASE Idle
  BY <1>4, <1>a DEF Idle, ScanOK, ReadOK, InLog, logVars, scanVars, MonPoints
<1>5. CASE UNCHANGED monVars
  BY <1>5, <1>a DEF ScanOK, ReadOK, InLog, monVars, logVars, scanVars
<1> QED
  BY <1>1, <1>2, <1>3, <1>4, <1>5, <1>a, MonKinds

-----------------------------------------------------------------------------
(* The theorems. *)

\* The inductive invariant of the monitor.
THEOREM MonInvariant == MonSpec => []MonInv
<1>1. MonInit => MonInv
  BY MonInitInv
<1>2. MonInv /\ [MonNext]_monVars => MonInv'
  BY MonTypeStep, HistoryStep, OffsetStep, ScanStep DEF MonInv
<1> QED
  BY <1>1, <1>2, PTL DEF MonSpec

\* The variables keep their types: the monitor has an exit status exactly when it has
\* returned, and --tail waits no longer than its deadline and one probe.
THEOREM MonTypeCorrect == MonSpec => []MonTypeOK
<1>1. MonInv => MonTypeOK
  BY DEF MonInv
<1> QED
  BY <1>1, MonInvariant, PTL

\* Scanning only what has arrived since the last tick, with the overlap, finds what a scan
\* of the whole log would: however a mark is cut by the ticks, and also over a log that
\* was replaced, unless that went unnoticed (_PhaseScanner.scan).
THEOREM IncrementalScanIsFull == MonSpec => []EquivalentToFullScan
<1>1. MonInv => EquivalentToFullScan
  BY DEF MonInv, ScanOK, EquivalentToFullScan
<1> QED
  BY <1>1, MonInvariant, PTL

=============================================================================
