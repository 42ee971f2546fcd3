\* One delete, one restore, no failure, and another program that writes in between.
SPECIFICATION Spec
CONSTANTS
    s1 = s1  s2 = s2  h1 = h1  h2 = h2
    Torn = Torn  Foreign = Foreign  Gone = Gone
    NoPath = NoPath  NoNode = NoNode  Absent = Absent
    Source = {s1}
    CrossVolume = {}
    Modes = {"backup"}
    Base <- MCBase
    Batches <- OnlyFirst
    Handlers = {h1}
    MaxCalls = 2
    MaxFaults = 0
    MaxKills = 0
    MaxEdits = 1
    EditDuringCalls = TRUE
CHECK_DEADLOCK FALSE
PROPERTY RestoreOverwritesNothing
