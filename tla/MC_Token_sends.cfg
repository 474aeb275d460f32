SPECIFICATION AllSpec
CONSTANTS
    Address = {alice, bob}
    None = None
    NewAddress = {}
    Denom = {uscrt, atom}
    Enabled <- AllEnabled
    MaxUint = 2
    Amount = {1}
    Expiration = {1}
    Decoys <- OneDecoy
    MaxTime = 1
    MaxMessages = 3
    Parts = {"sends"}
    Key = {k1}
    Entropy = {e1}
    Name = {n1}
    Token = Token
    Account = {alice, bob}
    Nobody = Nobody
    LastBlock = 1
    Params <- SomeParams
    Other = Other
    MaxChanges = 3
    NoReader = NoReader
    WordSize = 16
    PageSize = {1, 2, 3}
    MaxLength = 5
    Party = {alice, bob}
    Absent = Absent
    CodeOf <- SomeCode
    CodeHash = {h1, h2}
    Code = h1
    BatchHash = {h1}
    MaxSends = 3
INVARIANT SendsAreTold
