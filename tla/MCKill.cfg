SPECIFICATION Spec
CONSTANTS
  Session = {s1}
  Server = Server
  Main = Main
  Nobody = Nobody
  SingleSession = FALSE
  PatientClient = FALSE
  MaxQueue = 1
  MayThrow = FALSE
  MayQuit = FALSE
  MayKill = TRUE
INVARIANT KillIsSafe
\* A fault ends the program.
CHECK_DEADLOCK FALSE
