SPECIFICATION FairSpec
CONSTANTS
  End = End
  Arch = {"x86_64", "aarch64"}
  Word = 2
  Size = 2
  Instr <- LoopInstr
  Flow <- LoopFlow
  Exit = End
  Entry = 2
  MainReturn = {10}
  Lines = {2, 8}
  Reads = {2}
  Faults = {12}
  LibraryCalls = {4}
  Blocked = {6}
  Breakable = {2, 6}
  StepAfterMain = FALSE
  MaxQueue = 1
  MaxInput = 1
  MaxRequests = 2
INVARIANTS
  TypeOK
  BreakpointsInMemory
  Transparent
  ClosedOnce
PROPERTIES
  BlockedSkipped
  StepEnds
\* The client stops at a finished session.
CHECK_DEADLOCK FALSE
