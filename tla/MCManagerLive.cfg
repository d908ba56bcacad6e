SPECIFICATION FairSpec
CONSTANTS
  Session = {s1}
  Server = Server
  Main = Main
  Nobody = Nobody
  SingleSession = FALSE
  PatientClient = FALSE
  MaxQueue = 3
  MayThrow = FALSE
  MayQuit = FALSE
  MayKill = FALSE
PROPERTIES
  RequestsAnswered
  StopRemoves
  CompileSettles
\* A fault ends the program.
CHECK_DEADLOCK FALSE
