SPECIFICATION InletStopSpec
CONSTANTS
    d1 = d1
    Devices = {d1}
    Messages = {m1, bad}
    Malformed = {bad}
    NoMessage = NoMessage
    DeviceOf <- MCDeviceOf
    Times = {1}
    Ids = {1}
    Handlers = {h1, h2}
    Slots = 1
INVARIANTS
    AckedIsDurable
    AnsweredIsPublished
PROPERTIES
    BridgeStops
    
