\* All options, overlapping and missing roots, one and two workers.
SPECIFICATION Spec
CONSTANTS
    r = r  h = h  k = k  m = m  s = s  a = a  b = b  e = e  f = f  g = g  l = l
    x = x  y = y  z = z  NoHash = NoHash
    Names = {r, h, k, m, s, a, b, e, f, g, l}
    Kind <- MCKind
    Children <- MCChildren
    Above <- MCAbove
    Target <- MCTarget
    Length <- MCLength
    Hidden = {h}
    SystemDir = {s}
    SystemFile = {e}
    ReadOnly = {b}
    Locked = {k}
    Hashes = {x, y, z}
    Digests <- MCDigests
    Options <- OptionType
    RootLists <- MCRootLists
    Workers = {1, 2}
CHECK_DEADLOCK FALSE
INVARIANTS TypeOK WalkComplete GroupsComplete SerialPoolSafe
PROPERTY ScanReturns
