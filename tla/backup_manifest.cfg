\* One delete, in which the first of two files cannot be moved.
SPECIFICATION Spec
CONSTANTS
    s1 = s1  s2 = s2  h1 = h1  h2 = h2
    Torn = Torn  Foreign = Foreign  Gone = Gone
    NoPath = NoPath  NoNode = NoNode  Absent = Absent
    Source = {s1, s2}
    CrossVolume = {s1}
    Modes = {"backup"}
    Base <- MCBase
    Batches <- MCBatches
    Handlers = {h1}
    MaxCalls = 1
    MaxFaults = 1
    MaxKills = 0
    MaxEdits = 0
    EditDuringCalls = FALSE
CHECK_DEADLOCK FALSE
INVARIANT ManifestTruthful
