\* Five commands and two crashes, a buffer that may fill up at any line.
SPECIFICATION FairLogSpec
CONSTANTS
  server = server
  Servers = {server}
  Torn = Torn
  MaxIssued <- MCMaxIssued
  MaxCrashes <- MCMaxCrashes
INVARIANTS
  LogTypeOK
  MemoryIsLogged
PROPERTIES
  RestartLosesOnlyTail
  ReachesFile
\* A server may have nothing left to do.
CHECK_DEADLOCK FALSE
