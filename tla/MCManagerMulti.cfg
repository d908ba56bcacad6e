SPECIFICATION FairSpec
CONSTANTS
  Session = {s1, s2}
  Server = Server
  Main = Main
  Nobody = Nobody
  SingleSession = FALSE
  PatientClient = FALSE
  MaxQueue = 2
  MayThrow = FALSE
  MayQuit = FALSE
  MayKill = FALSE
INVARIANTS
  TypeOK
  StateReadAlone
  FinishedNeverParses
  LocksNest
  ParseFindsSession
  SettledHasResult
\* A fault ends the program.
CHECK_DEADLOCK FALSE
