\* Two requests at a time, two scans, one change of the rules.
SPECIFICATION Spec
CONSTANTS
    p1 = p1  p2 = p2  p3 = p3  base = base  data = data  sub = sub
    x = x  y = y  asc = asc  desc = desc  mid = mid  q1 = q1  q2 = q2
    Gone = Gone  NoDir = NoDir  Absent = Absent
    Paths = {p1, p2, p3}
    Dirs = {base, data, sub}
    Up <- MCUp
    Above <- MCAbove
    Bare = {}
    Contents = {x}
    Requests = {q1, q2}
    RuleSets = {asc, desc, mid}
    Unset = desc
    Shown = mid
    MaxChanges = 2
    Keep <- MCKeep
    Initial <- MCInitial
    Scans <- MCScans
    CrossVolume = {p1, p2}
    Capacity = {2, 3}
    Bytes <- MCBytes
    Block = 2
    Modes = {"backup", "permanent"}
    MaxScans = 2
    MaxCalls = 2
    MaxTrouble = 1
ACTION_CONSTRAINTS RulesEarly ScanElsewhere
CONSTRAINT OneComplication
SYMMETRY Interchangeable
CHECK_DEADLOCK FALSE
INVARIANTS TypeOK LastCopyKept SpaceSuffices CleanComplete RestoreComplete RulesSettle
PROPERTY CleanWithinBounds
