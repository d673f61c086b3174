SPECIFICATION SinkSpec
CONSTANTS
    d1 = d1
    Devices = {d1}
    Messages = {m1, bad}
    Rejected = {bad}
    NoMessage = NoMessage
    DeviceOf <- MCDeviceOf
    Stamps = {t1}
    StampOf <- MCStampOf
    Times = {1}
    Ids = {1, 2}
    Workers = {w1, w2}
    BatchSize = 2
    MaxLog = 2
SYMMETRY WorkerSymmetry
INVARIANTS
    WrittenHasPoint
    CommittedIsKept
