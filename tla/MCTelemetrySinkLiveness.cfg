SPECIFICATION SinkFairSpec
CONSTANTS
    d1 = d1
    Devices = {d1}
    Messages = {m1, bad}
    Rejected = {bad}
    NoMessage = NoMessage
    DeviceOf <- MCDeviceOf
    Stamps = {t1}
    StampOf <- MCStampOf
    Times = {1, 2}
    Ids = {1, 2}
    Workers = {w1}
    BatchSize = 1
    MaxLog = 1
INVARIANTS
    SeenIsLatest
PROPERTIES
    
    RecordIsCommitted
