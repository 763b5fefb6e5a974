SPECIFICATION Spec
CONSTANTS
  ubuntu = ubuntu
  gentoo = gentoo
  typo = typo
  Absent = absent
  DISTROS <- MCDistros
  ArgSets <- MCArgSets
  MaxInterrupts = 1
INVARIANTS
  TypeOK
  DryRunsAreHarmless
  BuildsAreVetted
  ZeroMeansDone
  ServerIsStopped
  HintCoversFailed
PROPERTIES
  KeepsLoop
\* The program ends.
CHECK_DEADLOCK FALSE
