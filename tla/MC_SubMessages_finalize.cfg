SPECIFICATION MessagesSpec
CONSTANTS
    Contract = {c1}
    BankModule = BankModule
    User = User
    ReplyOns = {"never", "always", "success", "error"}
    Data = {}
    NoData = NoData
    MaxMsgs = 2
    MaxLevels = 3
    MaxRuns = 4
\* A panic of the assertion in finalize ends everything.
CHECK_DEADLOCK FALSE
INVARIANTS FinalizeHolds
