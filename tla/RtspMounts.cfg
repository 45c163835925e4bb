SPECIFICATION Spec
CONSTANTS
    Mounts = {main, sub}
    SubMount = sub
    Sessions = {s1, s2, s3}
    Readers = {r1, r2}
    MaxPlays = 2
INVARIANTS
    OneLiveReader
    ReadWhilePlayed
PROPERTY StopCompletes
CHECK_DEADLOCK FALSE
