SPECIFICATION FairSpec
CONSTANTS
    m1 = m1
    Keys = {k1, k2}
    AudioKeys = {k1}
    Musics = {m1}
    MusicOf <- OneTrack
    Workers = {w1}
    NoWorker = NoWorker
    NoKey = NoKey
    Admins = {}
    Schedulers = {s1}
    Enqueuers = {e1}
    MaxAttempts = 2
    QueueLimit = 1
    SkipLocked = TRUE
    MaxForce = 1
    MaxJobs = 2
INVARIANT OverrunBounded
PROPERTIES
    ImplementsAnalysisJob
    JobsSettle
