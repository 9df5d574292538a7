\* Two commands, batches of one line, a crash of each server.
SPECIFICATION FairSpec
CONSTANTS
  master = master
  slave = slave
  a1 = a1
  a2 = a2
  Servers = {master, slave}
  Master = master
  Slave = slave
  Torn = Torn
  Agents = {a1, a2}
  Batch = 1
  Room = 2
  MaxIssued <- MCMaxIssued
  MaxCrashes <- MCMaxCrashes
INVARIANTS
  TypeOK
  StreamIsFileThenCommands
  AppliedOnceInOrder
PROPERTY
  CatchesUp
\* A server may end and never be started again.
CHECK_DEADLOCK FALSE
