SPECIFICATION AllSpec
CONSTANTS
    Address = {a1, a2}
    Key = {k1, k2}
    Value = {v1}
    Missing = Missing
    NoInstance = NoInstance
    MaxScopes = 3
    WritesPerKey = 1
    Account = {alice, bob}
    Denom = {uscrt, atom}
    Amount = {1, 2}
    CoinAmount = {1, 2}
    MaxCoins = 2
    BankScopes = 2
    MaxSupply = 2
    Delegator = {alice}
    Validator = {val1, val2}
    InitialFunds = 2
    Reward = {1}
    MaxReward = 1
    MaxStake = 2
    MaxFunds = 4
    Contract = {c1}
    BankModule = BankModule
    User = User
    ReplyOns = {"never", "always", "success", "error"}
    Data = {d1}
    NoData = NoData
    MaxMsgs = 2
    MaxLevels = 3
    MaxRuns = 4
\* A panic of the assertion in finalize ends everything.
CHECK_DEADLOCK FALSE
SYMMETRY Symmetry
INVARIANTS TypeOK RollbackIsExact SupplyIsJournalled BankRollbackIsExact CanRedelegateBounded NoTokenLost
    CaughtErrorIsUndone IterationFollowsExecution CallerIsEmitter MessagesInOrder ReplyCarriesItsResult
PROPERTIES ImplementsTransactions BankImplementsTransactions RedelegatedStaysLocked MessagesConserveTokens
