SPECIFICATION FairSpec
CONSTANTS
    NoContent = NoContent
    NoScanner = NoScanner
    Files = {}
    Contents = {}
    Unfit = {}
    Scanners = {s1, s2}
    Admins = {a1}
    Readers = {}
    MaxAttempts = 2
    MaxScans = 2
    MaxIncidents = 2
INVARIANT ScanInv
PROPERTIES
    LiveScanRespected
    CancellationKept
    ScansSettle
