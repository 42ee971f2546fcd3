\* A delete and a restore of one file, on another volume, at the same time.
SPECIFICATION Spec
CONSTANTS
    s1 = s1  s2 = s2  h1 = h1  h2 = h2
    Torn = Torn  Foreign = Foreign  Gone = Gone
    NoPath = NoPath  NoNode = NoNode  Absent = Absent
    Source = {s1}
    CrossVolume = {s1}
    Modes = {"backup"}
    Base <- MCBase
    Batches <- OnlyFirst
    Handlers = {h1, h2}
    MaxCalls = 3
    MaxFaults = 0
    MaxKills = 0
    MaxEdits = 0
    EditDuringCalls = FALSE
CHECK_DEADLOCK FALSE
INVARIANT NothingLostAtRest
