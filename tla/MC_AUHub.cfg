SPECIFICATION Spec
CONSTANTS
    MaxSubs = 2
    MaxAUs = 4
    Capacity = 2
    Unencodable <- NoCounters
    Replacement = 65533
INVARIANTS
    RegisteredChannelsOpen
    EveryUnitAccountedFor
    DeliveredInOrder
    ClosedOnlyByItsUser
PROPERTIES
    CancelledSubscribersClosed
    ChannelsImplemented
CHECK_DEADLOCK FALSE
