SPECIFICATION WalletSpec
CONSTANTS
    alice = alice
    bob = bob
    strk = strk
    eth = eth
    Me <- MCMe
    Others <- MCOthers
    Tokens <- MCTokens
    Requests <- MCRefreshedRequests
    InputOptions <- MCInputOptions
    PaidAmounts = {2}
    MaxCalls = 3
    MaxBlocks = 3
    MaxReorgs = 0
INVARIANT RefreshedUnspent
CHECK_DEADLOCK FALSE
