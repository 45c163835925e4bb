SPECIFICATION Spec
CONSTANTS
    Key = key
    Delta = delta
    Units = {key, delta}
    Capacity = 4
    MaxLost = 2
INVARIANT
    HolesRealigned
PROPERTY StreamResumes
CHECK_DEADLOCK FALSE
