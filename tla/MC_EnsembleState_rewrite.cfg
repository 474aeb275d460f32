SPECIFICATION Spec
CONSTANTS
    Address = {a1}
    Key = {k1}
    Value = {v1, v2}
    Missing = Missing
    NoInstance = NoInstance
    MaxScopes = 2
    WritesPerKey = 2
PROPERTIES FailureLeavesNoTrace
