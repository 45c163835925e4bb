SPECIFICATION Spec
CONSTANTS
    MaxRetries = 3
    MaxBackoff = 1
    QueueSize = 2
    FramesPerSegment = 2
    WindowSize = 2
    HlsQueueSize = 2
    MaxUnits = 9
    MaxPushed = 4
    BufferCount = 2
    MaxFrames = 5
    MaxDriverFaults = 5
    TapCapacity = 2
    FramesCapacity = 2
    FailoverBudget = 2
    DecimPeriod = 3
    DecimKeep = 2
    MaxCaptured = 7
    SourceRoom = 2
    OutRoom = 1
    MaxSessions = 3
    MaxSessionUnits = 2
    DefaultChunkSize = 3
    PreferredChunkSize = 8
    TimeField = 5
    PacketRoom = 4
    Tile = 2
    MaxLength = 10
    MaxSide = 5
    MaxCuts = 2
    TimeStamps = {0, 3000, 90000}
    SubjectKinds = {"message", "chunk", "sets", "video", "answer", "pieces", "pictures", "pes", "frame", "scale", "pad"}
    Configurations = {{"rtmp"}, {"hls"}, {"encoder"}, {"substream"}, {"sets"}, {"formats"}}
INVARIANTS
    RunsBeginWithHeader
    FetchedSegmentsPlayable
    EncoderRecovers
    OneEncoderSession
    SetsOfTheirSession
    FormatsReadBack
    FramesTransformed
PROPERTY StopEndsUnlessDialing
CHECK_DEADLOCK FALSE
