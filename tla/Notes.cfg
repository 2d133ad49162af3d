SPECIFICATION UsedPoolSpec
CONSTANTS
  Alice = Alice
  Bob = Bob
  Swap = Swap
  Pool = Pool
  NoOne = NoOne
  T = T
  U = U
  Auditor1 = Auditor1
  Auditor2 = Auditor2
  Screener1 = Screener1
  Screener2 = Screener2
  Class1 = Class1
  Class2 = Class2
  ContractAddress <- MCAddresses
  ZeroAddr = NoOne
  PoolAddress = Pool
  Token = {T, U}
  ORDER = 7
  AMOUNT_MODULUS = 3
  TWO_POW_120 = 4
  MaxIndex = 1
  EncAmountHash <- MCHash
  Callers <- AllCallers
  ClientActions <- AllActions
  AdminCalls <- AllCalls
  Attestations <- FreshAttestations
  AuditorKey = {Auditor1, Auditor2}
  ScreenerKey = {Screener1, Screener2}
  ClassHash = {Class1, Class2}
  InitAdmin <- MCAdmin
  BlockTimes = {1}
  DEPOSITOR_VALIDATION_MAX_AGE = 1
  DEPOSITOR_VALIDATION_MAX_FUTURE = 1
  MaxBlock = 3
  MaxProofs = 2
  MaxActions = 6
INVARIANTS
  TypeOK
  NoDoubleSpend
  Solvency
  OpenNotesFunded
  OneScreeningSubject
PROPERTIES
  CommittedIsImmutable
CHECK_DEADLOCK FALSE
