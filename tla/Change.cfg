SPECIFICATION ExecSpec
CONSTANTS
  Me = Me
  Others = {Bob}
  Tokens = {STRK, USDC}
  Account = 5
  Mask = 4
  SnChain = SN_SEPOLIA
  Subs = {1, 2}
  Configs <- MCConfigs
  Programs <- MCPrograms
  Ledgers <- MCOneNote
  FeeToken = STRK
  Paymaster = Paymaster
  FeeAmounts = {1}
  EvmChains = {1, 2}
  MaxRetries = 1
  BaseDelay = 1
  MaxBackoff = 1
  RequestTimeout = 1
  MaxKeys = 2
  MaxNonce = 1
CHECK_DEADLOCK FALSE
INVARIANT CoveredSubmits
