SPECIFICATION Spec
CONSTANTS
  Main = main
  Callers = {main, reader}
  Errors = {}
  Types = {"SOCK_STREAM"}
  MayRefuse = FALSE
  MaxSockets = 2
  MaxConnects = 1
  MaxChunks = 0
  MaxFlow = 1
  MaxOther = 0
PROPERTY SelectWatchesItsSocket
CHECK_DEADLOCK FALSE
