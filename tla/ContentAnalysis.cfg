SPECIFICATION Spec
CONSTANTS
    a = a
    k = k
    l = l
    p = p
    c = c
    d = d
    e = e
    f = f
    m = m
    n = n
    Accounts = {a}
    Posts = {p}
    Assets = {m, n}
    Captions = {k, l}
    Collections = {c, d}
    Analyses = {e, f}
    OwnerOf <- MCOwnerOf
    AssetsOf <- MCAssetsOf
    SnapshotInterval <- MCSnapshotInterval
    MaxSlides = 2
    IndexOf <- MCIndexOf
    FormatsOf <- MCFormatsOf
    Concurrency = 1
    AssetsPerRun = 1
    Workers = 1
    BatchSize = 1
    Horizon = 2
    MaxCollections = 2
    MaxFaults = 1
    MaxChanges = 1
    MaxAnalyses = 2
ACTION_CONSTRAINT QuietWorld
SYMMETRY IngestSymmetry
CHECK_DEADLOCK FALSE
INVARIANTS
    CachedMediaExists
    SnapshotsSpaced
PROPERTIES
    ListedIsAnalysed
    GoodAnalysesStay
