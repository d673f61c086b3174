SPECIFICATION MCFairSpec
CONSTANTS
    c1 = c1
    Commands = {c1}
    Legacy = {}
    EmptyObject = EmptyObject
    NoBytes = NoBytes
    Payloads = {EmptyObject}
    ErrorCodes = {}
    NoError = NoError
    NoResult = NoResult
    MaxDispatchAttempts = 1
    MaxEvents = 1
    Callbacks = {h1, h2}
    NoUplink = NoUplink
    AckStoreAttempts = 2
    Uplinks <- MCUplinks
    Together <- MCTogether
INVARIANTS
    AckedIsSettled
    DisconnectedIsDrained
PROPERTIES
    StopTerminates
    
