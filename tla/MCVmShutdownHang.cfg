SPECIFICATION ShutdownSpec
CONSTANTS
  Distros = {ubuntu, gentoo}
  Foreign = foreign
  Pids <- MCPids
  PgrepFaults <- MCHang
  PromptLauncher = FALSE
  GracePolls = 2
  KillRounds = 3
  VerifyPolls = 2
INVARIANTS
  NeverRaises
CHECK_DEADLOCK FALSE
