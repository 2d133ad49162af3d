SPECIFICATION WalletSpec
CONSTANTS
    alice = alice
    bob = bob
    strk = strk
    eth = eth
    Me <- MCMe
    Others <- MCOthers
    Tokens <- MCTokens
    Requests <- MCRequests
    InputOptions <- MCInputOptions
    PaidAmounts = {2}
    MaxCalls = 3
    MaxBlocks = 3
    MaxReorgs = 1
INVARIANTS CompiledAccepted RegistrySound FundsFound
CHECK_DEADLOCK FALSE
