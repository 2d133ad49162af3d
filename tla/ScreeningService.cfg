SPECIFICATION Spec
CONSTANTS
  Good = Good
  Bad = Bad
  Stripped = Stripped
  Padded = Padded
  BadAddr = BadAddr
  Junk = Junk
  Invalid = Invalid
  Wallet = Wallet
  Bridge = Bridge
  c1 = c1
  c2 = c2
  c3 = c3
  Call = {c1, c2, c3}
  Address = {Stripped, Padded, BadAddr, Junk}
  Felt = {Good, Bad}
  feltOf <- MCfeltOf
  Configs <- MCConfigs
  Requests <- MCRequests
  Bodies <- MCBodies
  WINDOW = 2
  MAX_PARTNERS = 2
  MAX_ENTRIES = 2
  MAX_TIMESTAMP_DRIFT = 1
  SECRET_TIMEOUT = 1
  MaxTime = 3
INVARIANTS
  RateLimited
  BlockRemembered
  RevocationTakesEffect
  AllowedIsClean
PROPERTIES
  KeepsPromise
SYMMETRY Calls
CHECK_DEADLOCK FALSE
