SPECIFICATION InterceptorSpec
CONSTANTS
  User = User
  UserPadded = UserPadded
  Helper = Helper
  Shadow = Shadow
  PoolAddr = PoolAddr
  Junk = Junk
  Invalid = Invalid
  t1 = t1
  t2 = t2
  Tx = {t1, t2}
  Call <- MCCall
  Felt <- MCFelt
  Address <- MCAddress
  feltOf <- MCfeltOf
  canonical <- MCcanonical
  shadowOf <- MCshadowOf
  Denied = {Shadow}
  Pool = PoolAddr
  Requests <- MCRequests
  Envs <- MCEnvs
  Policies <- MCPolicies
  MaxChanges = 1
  Arrivals = {0, 1, 3}
  MaxTime = 6
INVARIANTS
  AllowedAccepted
  AnsweredInTime
SYMMETRY Txs
