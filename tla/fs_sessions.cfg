\* Two clients of one server process.  The program really stops: operators need
\* not type anything, and the server may end.
SPECIFICATION Spec
CONSTANTS
  c1 = c1  c2 = c2
  Clients <- TwoClients
  Free = Free
  Dirs <- SmallTree
  DoneNamed <- DoneInA
  StartDirs <- SomeStarts
  Scripts <- SomeFiles
  MaxCommands = 2
INVARIANTS TypeOK InStep
PROPERTIES ServerStaysUp Answered
CHECK_DEADLOCK FALSE
