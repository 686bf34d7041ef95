SPECIFICATION Spec
CONSTANTS
    NoContent = NoContent
    NoScanner = NoScanner
    Files = {f1}
    Contents = {c1, c2}
    Unfit = {}
    Scanners = {s1, s2}
    Admins = {}
    Readers = {r1}
    MaxAttempts = 1
    MaxScans = 1
    MaxIncidents = 2
INVARIANT FilesInv
PROPERTY IdentityKept
