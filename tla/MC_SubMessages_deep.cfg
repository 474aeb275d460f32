SPECIFICATION MessagesSpec
CONSTANTS
    Contract = {c1}
    BankModule = BankModule
    User = User
    ReplyOns = {"never", "always"}
    Data = {}
    NoData = NoData
    MaxMsgs = 2
    MaxLevels = 4
    MaxRuns = 5
\* A panic of the assertion in finalize ends everything.
CHECK_DEADLOCK FALSE
INVARIANTS CaughtErrorIsUndone
