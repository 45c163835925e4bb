SPECIFICATION Spec
CONSTANTS
    MaxClock = 2
    QueueCapacity = 2
    SegmentSecs = 1
    MaxFrames = 3
    MaxPauses = 2
    MaxFaults = 1
    RetentionAge = 1
    MaxStorage = 1
    MaxStops = 1
INVARIANTS
    NoLostWakeup
    SegmentsDoNotOverlap
    IndexedStorageBounded
    IndexMatchesFiles
PROPERTIES
    KeyframesOutlastDeltas
    EnforceTerminates
CHECK_DEADLOCK FALSE
