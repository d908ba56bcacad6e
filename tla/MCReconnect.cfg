SPECIFICATION Spec
CONSTANTS
  Session = {s1}
  Server = Server
  Main = Main
  Nobody = Nobody
  SingleSession = FALSE
  PatientClient = FALSE
  MaxQueue = 1
  MayThrow = FALSE
  MayQuit = FALSE
  MayKill = FALSE
INVARIANT ReconnectIsSafe
\* A fault ends the program.
CHECK_DEADLOCK FALSE
