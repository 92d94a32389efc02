\* Every fault and a restart, uploads that are visible while they grow.
SPECIFICATION WatcherSpec
CONSTANTS
    BatchId = {b1, b2}
    JobId = {j1, j2}
    Name <- MCName
    Tiff <- MCTiff
    Stem <- MCStem
    Dropped <- MCName
    Scans = {"whole", "malformed", "oversized"}
    Scanner = {"slow", "remove"}
    Faults = {"sftp", "blob", "cache", "enqueue"}
    MaxMishaps = 1
    MaxRestarts = 1
INVARIANTS
    WatcherTypeOK
    AtMostOneJobPerRun
    RejectsStayOut
    JobsAreBacked
