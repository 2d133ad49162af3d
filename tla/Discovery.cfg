SPECIFICATION FairSpec
CONSTANTS
  Ann = Ann
  Ben = Ben
  T = T
  U = U
  V = V
  NoFilter = NoFilter
  Sender = {Ann, Ben}
  Token = {T, U, V}
  max_note_log_index = 2
  Pow2 <- MCPow2
  Chains <- GrowingChains
  InitChains <- StartingChains
  Sessions <- AllSessions
  server_budget = 33
  max_channels = 2
  max_subchannels = 3
  MaxSessions = 2
INVARIANTS
  BudgetRespected
  CompleteDiscovery
  DeliveredOnce
PROPERTIES
  SessionEnds
CHECK_DEADLOCK FALSE
