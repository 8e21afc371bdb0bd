SPECIFICATION FairSpec
CONSTANTS
  Main = main
  Callers = {main, reader}
  Errors = {}
  Types = {"SOCK_STREAM"}
  MayRefuse = FALSE
  MaxSockets = 1
  MaxConnects = 1
  MaxChunks = 0
  MaxFlow = 1
  MaxOther = 0
PROPERTY SendReturns
CHECK_DEADLOCK FALSE
