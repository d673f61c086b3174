SPECIFICATION MCSpec
CONSTANTS
    Commands = {c1, old}
    Legacy = {old}
    EmptyObject = EmptyObject
    NoBytes = NoBytes
    Payloads = {EmptyObject}
    ErrorCodes = {E1}
    NoError = NoError
    NoResult = NoResult
    MaxDispatchAttempts = 2
    MaxEvents = 6
INVARIANTS
    StoreIsSound
PROPERTIES
    TerminalIsFinal
    ImplementsContract
