SPECIFICATION Spec
CONSTANTS
    MaxFaults = 3
    MaxSets = 2
INVARIANTS
    StoppedHoldsNoDevice
    ParamsReachSubprocess
PROPERTIES
    SubprocessRestarted
    StopEndsRun
CHECK_DEADLOCK FALSE
