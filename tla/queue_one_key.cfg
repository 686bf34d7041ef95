SPECIFICATION Spec
CONSTANTS
    m1 = m1
    Keys = {k1}
    AudioKeys = {k1}
    Musics = {m1}
    MusicOf <- OneTrack
    Workers = {w1, w2}
    NoWorker = NoWorker
    NoKey = NoKey
    Admins = {a1}
    Schedulers = {}
    Enqueuers = {}
    MaxAttempts = 2
    QueueLimit = 1
    SkipLocked = FALSE
    MaxForce = 1
    MaxJobs = 2
INVARIANTS
    QueueInv
    FencingTokensUnique
PROPERTIES
    CancellationSticks
    LiveLeaseRespected
    ResultMatchesAttempt
