SPECIFICATION FairSpec
CONSTANTS
  Programs <- TwoPrograms
  MaxSessions = 2
  MaxLost = 1
  MaxPending = 2
  MaxPollTries = 1
  Users <- SomeUsers
INVARIANTS
  TypeOK
  OneHighlight
  GutterAddresses
  
  PopupMirrors
  OneStepAtATime
PROPERTIES
  Settles
\* The user may leave.
CHECK_DEADLOCK FALSE
