SPECIFICATION FairSpec
CONSTANTS
  UI = ui
  Main = main
  Threads = {main, reader}
  Limit = 4
  MaxRows = 3
  MaxWrites = 5
INVARIANTS TypeOK LastLines ScreenConsistent UpdateDue
PROPERTIES ThreadsRun LinesShown
CHECK_DEADLOCK FALSE
