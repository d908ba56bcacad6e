SPECIFICATION Spec
CONSTANTS
  Session = {s1, s2}
  Server = Server
  Main = Main
  Nobody = Nobody
  SingleSession = TRUE
  PatientClient = TRUE
  MaxQueue = 1
  MayThrow = TRUE
  MayQuit = TRUE
  MayKill = TRUE
INVARIANTS
  LocksNest
  ParseFindsSession
\* A fault ends the program, and so may q, Ctrl-C or an Exception.
CHECK_DEADLOCK FALSE
