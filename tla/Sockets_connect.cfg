SPECIFICATION Spec
CONSTANTS
  Main = main
  Callers = {main, reader}
  Errors = {}
  Types = {"SOCK_STREAM"}
  MayRefuse = FALSE
  MaxSockets = 2
  MaxConnects = 2
  MaxChunks = 0
  MaxFlow = 0
  MaxOther = 0
PROPERTY ConnectedWhenZero
CHECK_DEADLOCK FALSE
