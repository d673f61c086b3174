SPECIFICATION RaceSpec
CONSTANTS
    Commands = {c1}
    Legacy = {}
    EmptyObject = EmptyObject
    NoBytes = NoBytes
    Payloads = {EmptyObject}
    ErrorCodes = {}
    NoError = NoError
    NoResult = NoResult
    MaxDispatchAttempts = 2
    Cores = {d1, d2}
    Workers = {w1, w2}
    Processes = 3
    NoWorker = NoWorker
    NoCommand = NoCommand
    MaxCopies = 1
    ReplayBelow = 0
    Many = 2
    StoreMayFail = FALSE
SYMMETRY Symmetry
INVARIANTS
    CompletionFenced
    PublishedIsPending
    DeliveredMeansDownlink
    DuplicateNeedsDisturbance
