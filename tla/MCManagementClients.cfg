SPECIFICATION MCSpec
CHECK_DEADLOCK FALSE
CONSTANTS
    t1 = t1
    t2 = t2
    d1 = d1
    c1 = c1
    c2 = c2
    demo = demo
    k1 = k1
    p1 = p1
    p2 = p2
    None = None
    Asked <- MCAsked
    Tenants <- MCTenants
    DeviceNames = {d1}
    Keys = {k1}
    Payloads = {p1, p2}
    Clients <- MCClients
    Callers <- MCCallers
    Demo = demo
    TenantOrder <- MCTenantOrder
    DeviceOrder <- MCDeviceOrder
    Calls = {q1, q2}
    Ids <- MCIds
    Buses <- MCBuses
INVARIANTS
    AgentsAreSound
    OneCommandPerKey
    AnswerIsTrue
PROPERTIES
    RetryEnds
    DemoSettles
