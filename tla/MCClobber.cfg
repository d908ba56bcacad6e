SPECIFICATION Spec
CONSTANTS
  End = End
  Arch = {"aarch64"}
  Word = 2
  Size = 1
  Instr <- TightInstr
  Flow <- TightFlow
  Exit = End
  Entry = 2
  MainReturn = {5}
  Lines = {2, 4}
  Reads = {}
  Faults = {}
  LibraryCalls = {}
  Blocked = {}
  Breakable = {3}
  StepAfterMain = FALSE
  MaxQueue = 1
  MaxInput = 1
  MaxRequests = 2
INVARIANT NeverStrays
\* The client stops at a finished session.
CHECK_DEADLOCK FALSE
