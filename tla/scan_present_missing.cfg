SPECIFICATION Spec
CONSTANTS
    NoContent = NoContent
    NoScanner = NoScanner
    Files = {f1}
    Contents = {c1}
    Unfit = {}
    Scanners = {s1}
    Admins = {}
    Readers = {r1}
    MaxAttempts = 2
    MaxScans = 2
    MaxIncidents = 0
PROPERTY PresentFilesKept
