SPECIFICATION Spec
CONSTANTS
  Main = main
  Callers = {main, reader}
  Errors = {"kOTPortHasDiedErr", "memFullErr"}
  Types = {"SOCK_STREAM", "other"}
  MayRefuse = TRUE
  MaxSockets = 2
  MaxConnects = 1
  MaxChunks = 0
  MaxFlow = 0
  MaxOther = 1
INVARIANTS FdsIdentifySockets UsableOrStopped AnswerComes
PROPERTY ConnectReturnsSettled
CHECK_DEADLOCK FALSE
