SPECIFICATION Spec
CONSTANTS
  Accounts = {Alice, Bob}
  Tokens = {STRK, USDC}
  STRK = STRK
  PoolFee = 1
  DepositAmount = 1
  PROVING_BLOCK_DEPTH = 2
  PageSize = 1
  StartBlock = 4
  PastBlocks <- Past
  Private <- Holdings
  Budgets <- MCBudgets
  Executor = Executor
  Forwarder = Forwarder
  AccountLists <- MCLists
  Inputs = {p1, p2}
  NoInput = NoInput
  Hashes = {h1, h2}
  Pools = {PoolA, PoolB}
  DefaultHash = h1
  DefaultPool = PoolA
  MaxRequests = 3
  MaxChunks = 1
CHECK_DEADLOCK FALSE
INVARIANTS
  ProvesOwnState
  FeePayable
  HistoryTrue
  ChoiceRestored
  ShownFits
PROPERTY
  OlderNeverReplaces
