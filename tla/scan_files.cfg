SPECIFICATION Spec
CONSTANTS
    NoContent = NoContent
    NoScanner = NoScanner
    Files = {f1}
    Contents = {c1, c2, c3}
    Unfit = {c3}
    Scanners = {s1}
    Admins = {a1}
    Readers = {}
    MaxAttempts = 2
    MaxScans = 2
    MaxIncidents = 1
PROPERTIES
    PresentFilesKept
    VanishedFilesMarked
    FlaggedScanTouchesNothing
