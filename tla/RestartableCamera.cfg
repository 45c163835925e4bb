SPECIFICATION Spec
CONSTANTS
    MaxSources = 3
    FrameBuffer = 2
    OutCapacity = 1
INVARIANTS
    DeviceExclusive
    RunningSourceIsPumped
    StaysStopped
PROPERTY ReplacedPumpEnds
CHECK_DEADLOCK FALSE
