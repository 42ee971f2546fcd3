\* Overlapping roots, two file sizes, an edit at any moment of the scan, no cache;
\* without symmetry, for the liveness property.
SPECIFICATION FairSpec
CONSTANTS
    f1 = f1  f2 = f2  f3 = f3  f4 = f4  f5 = f5
    a = a  b = b  c = c  empty = empty
    sha = sha  md5 = md5  bogus = bogus
    r1 = r1  r2 = r2
    Gone = Gone  NoInfo = NoInfo  NoMeta = NoMeta
    NoHash = NoHash  NoEntry = NoEntry  Unreadable = Unreadable
    Files = {f1, f2, f3}
    Contents = {a, b, c}
    Algos = {sha}
    SupportedAlgos = {sha}
    Roots = {r1, r2}
    Hashes <- MCHashes
    Digest <- MCDigest
    Size <- MCSize
    Under <- MCUnder
    MaxWorkers = 2
    EnableHashCache = FALSE
    EditWhileScanning = TRUE
    Recreate = FALSE
    MaxScans = 1
    MaxEdits = 1
    MaxKills = 0
CHECK_DEADLOCK FALSE
INVARIANTS OncePerFile GroupsTruthful StopsSoon OneHasher ProgressComplete
PROPERTIES ScanEnds ChangesMarked ImplementsJob
