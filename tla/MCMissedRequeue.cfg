SPECIFICATION DeliverySpec
CONSTANTS
    Commands = {c1}
    Legacy = {}
    EmptyObject = EmptyObject
    NoBytes = NoBytes
    Payloads = {EmptyObject}
    ErrorCodes = {}
    NoError = NoError
    NoResult = NoResult
    MaxDispatchAttempts = 2
    Cores = {d1}
    Workers = {w1}
    NoWorker = NoWorker
    NoCommand = NoCommand
    MaxCopies = 1
    ReplayBelow = 0
    Many = 2
    StoreMayFail = FALSE
INVARIANT
    GivenUpIsReclaimable
