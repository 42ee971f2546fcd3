\* The hash cache across two scans, with edits between scans, both algorithms, failing
\* reads, Stop at any moment and one kill of the server; and two large buckets in either
\* order.
SPECIFICATION Spec
CONSTANTS
    f1 = f1  f2 = f2  f3 = f3  f4 = f4  f5 = f5
    a = a  b = b  c = c  empty = empty
    sha = sha  md5 = md5  bogus = bogus
    r1 = r1  r2 = r2
    Gone = Gone  NoInfo = NoInfo  NoMeta = NoMeta
    NoHash = NoHash  NoEntry = NoEntry  Unreadable = Unreadable
    Files = {f2, f3, f4, f5}
    Contents = {a, b, c}
    Algos = {sha, md5}
    SupportedAlgos = {sha, md5}
    Roots = {r1}
    Hashes <- MCHashes
    Digest <- MCDigest
    Size <- MCSize
    Under <- MCUnder
    MaxWorkers = 2
    EnableHashCache = TRUE
    EditWhileScanning = FALSE
    Recreate = TRUE
    MaxScans = 2
    MaxEdits = 1
    MaxKills = 1
CHECK_DEADLOCK FALSE
CONSTRAINT Followed
SYMMETRY Interchangeable
INVARIANTS TypeOK CacheTruthful GroupsTruthful ResultsComplete
