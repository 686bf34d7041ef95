SPECIFICATION MCSpec
CONSTANTS
    mp3 = mp3
    flac = flac
    c1 = c1
    c2 = c2
    c3 = c3
    NoFile = NoFile
    r1 = r1
    r2 = r2
    m1 = m1
    m2 = m2
    m3 = m3
    Exts = {mp3, flac}
    Fold <- CaseKept
    Contents = {c1, c2, c3}
    Requests = {r1}
    Ops = {"stage", "update", "delete"}
    MaxRequests = 3
    MaxFaults = 1
    MaxCrashes = 1
    NoRoot = NoRoot
    Roots = {m1, m2}
    Servers = {s1}
    Probers = {q1, q2}
    Paths <- SomePaths
    ManagedPath <- ManagedDirectory
    FirstRoots <- MusicFirst
    MaxEdits = 4
    MaxScans = 2
    MaxFlips = 2
    MaxClock = 3
    Kinds = {"auto", "local", "nfs", "smb"}
    Filesystems = {"ext4", "nfs4", "cifs", "smbfs"}
    LocalFs = "ext4"
    Errors = {"not_exist", "permission", "stale", "timeout", "other"}
    MaxMoves = 2
SYMMETRY Symmetric
INVARIANTS
    FilesKept
    ListsSound
    ViewsAgree
    RowsUpgraded
    RootsSound
    ProbeSound
PROPERTIES
    OrderKept
    MetadataStable
    HealthMonotone
CHECK_DEADLOCK FALSE
