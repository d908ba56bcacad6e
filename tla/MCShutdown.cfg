SPECIFICATION FairSpec
CONSTANTS
  Session = {s1}
  Server = Server
  Main = Main
  Nobody = Nobody
  SingleSession = FALSE
  PatientClient = FALSE
  MaxQueue = 1
  MayThrow = FALSE
  MayQuit = TRUE
  MayKill = FALSE
PROPERTY ShutdownCompletes
\* A fault ends the program.
CHECK_DEADLOCK FALSE
