SPECIFICATION MCSpec
CONSTANTS
    s1 = s1
    s2 = s2
    Services <- MCServices
    BusinessTopics <- MCBusinessTopics
    DlqTopic = "iot.dlq"
    Operated <- MCOperated
    BrokerLimit = 1000012
    RaisedLimits <- MCRaisedLimits
    MetadataBytes = 65536
    Missing = Missing
    StageFilters <- MCFilters
    RunLimit = 2
    MaxRecords = 4
    MaxCuts = 1
CHECK_DEADLOCK FALSE
INVARIANTS
    OpenFollowsLife
    ServingIsComplete
    NothingOvertaken
    
    ReceiptTimeKept
PROPERTIES
    
    ServicesComeUp
    StageDrains
