\* Every group of two or three files, every rule set with up to two rules.
SPECIFICATION Spec
CONSTANTS
    Sep = "/"
    Dot = Dot  Text = Text
    Symbol <- MCSymbol
    Path <- MCPathPlain
    Rank <- MCRankPlain
    Base <- MCBasePlain
    Dirs <- MCDirs
    Priorities <- MCPriorities
    MaxTime = 1
    Half = 16
    MaxFiles = 3
CHECK_DEADLOCK FALSE
INVARIANTS TypeOK KeepsExactlyOne KeepsPreferred KeptForGood
