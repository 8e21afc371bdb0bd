SPECIFICATION FairSpec
CONSTANTS
  Main = main
  Callers = {main, reader}
  Errors = {}
  Types = {"SOCK_STREAM"}
  MayRefuse = TRUE
  MaxSockets = 1
  MaxConnects = 1
  MaxChunks = 2
  MaxFlow = 1
  MaxOther = 0
INVARIANTS TypeOK StreamIntact HaltHasWaiter AnswerComes
PROPERTIES ImplementsStream ConnectReturnsSettled ConnectReturns RecvReturns
CHECK_DEADLOCK FALSE
