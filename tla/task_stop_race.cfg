\* Stop saves the cache while a hashing goroutine puts an entry into it.
SPECIFICATION Spec
CONSTANTS
    f1 = f1  f2 = f2  f3 = f3  f4 = f4  f5 = f5
    a = a  b = b  c = c  empty = empty
    sha = sha  md5 = md5  bogus = bogus
    r1 = r1  r2 = r2
    Gone = Gone  NoInfo = NoInfo  NoMeta = NoMeta
    NoHash = NoHash  NoEntry = NoEntry  Unreadable = Unreadable
    Files = {f2, f3}
    Contents = {a, b}
    Algos = {sha}
    SupportedAlgos = {sha}
    Roots = {r1}
    Hashes <- MCHashes
    Digest <- MCDigest
    Size <- MCSize
    Under <- MCUnder
    MaxWorkers = 2
    EnableHashCache = TRUE
    EditWhileScanning = FALSE
    Recreate = TRUE
    MaxScans = 1
    MaxEdits = 0
    MaxKills = 0
CHECK_DEADLOCK FALSE
INVARIANT NoFatalRace
