SPECIFICATION ShutdownSpec
CONSTANTS
  Distros = {ubuntu, gentoo}
  Foreign = foreign
  Pids <- MCPids
  PgrepFaults <- MCAllFaults
  PromptLauncher = FALSE
  GracePolls = 2
  KillRounds = 3
  VerifyPolls = 2
INVARIANTS
  ShutdownTypeOK
  OnlyTargetKilled
  OkMeansGone
PROPERTIES
  GraceBeforeKill
  ShutdownReturns
\* The call returns and the host comes to rest.
CHECK_DEADLOCK FALSE
