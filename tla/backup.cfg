\* One call at a time, every failure, one kill and one foreign edit between calls.
SPECIFICATION Spec
CONSTANTS
    s1 = s1  s2 = s2  h1 = h1  h2 = h2
    Torn = Torn  Foreign = Foreign  Gone = Gone
    NoPath = NoPath  NoNode = NoNode  Absent = Absent
    Source = {s1, s2}
    CrossVolume = {s1}
    Modes = {"backup", "trash", "permanent"}
    Base <- MCBase
    Batches <- MCBatches
    Handlers = {h1}
    MaxCalls = 3
    MaxFaults = 2
    MaxKills = 1
    MaxEdits = 1
    EditDuringCalls = FALSE
CHECK_DEADLOCK FALSE
INVARIANTS TypeOK NothingLost Recoverable ReplyTruthful
PROPERTY ImplementsVault
