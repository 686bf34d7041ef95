SPECIFICATION MCSpec
CONSTANTS
    m1 = m1
    B = B
    k1 = k1
    k2 = k2
    c3 = c3
    Musics = {m1, m2}
    Hashes = {A, B}
    Exts = {mp3}
    NoHash = NoHash
    Workers = {w1}
    Requests = {q1}
    Serial = TRUE
    Asked = {"admin", "backfill"}
    MaxUploads = 3
    MaxEdits = 1
    JobKeys = {k1, k2}
    Calls = {c1, c2, c3}
    Nobody = Nobody
    KeyOf <- KeyOfCall
    Forced = {c2}
    QueueLimit = 1
    OneWriter = FALSE
    MaxRuns = 2
    MaxDeletes = 1
    TagSets <- AllTags
    LabelSets <- AllLabels
    FeatureSets <- AllFeatures
    Tempi <- AllTempi
    AutoThreshold = 6500
    ReviewMargin = 1200
    Weight = 10000
    ManualChoices <- Chosen
SYMMETRY Symmetric
INVARIANTS
    PresetsSound
    AnalysisFollowsContent
    RaceResolved
CHECK_DEADLOCK FALSE
