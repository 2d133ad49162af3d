SPECIFICATION MCSpec
CONSTANTS
  max_note_log_index = 4
  Pow2 <- MCPow2
  MaxNotes = 19
  Peers = {p1, p2}
  Tokens = {t1, t2}
  Scenarios <- MCScenarios
  INITIAL_OFFSET = 2
  INITIAL_STEP = 2
INVARIANTS
  BoundaryCorrect
  StepsReserved
  NotesExact
  ChannelsTrue
CHECK_DEADLOCK FALSE
