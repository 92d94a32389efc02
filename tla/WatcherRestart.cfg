\* A restart after a file was ingested.
SPECIFICATION WatcherSpec
CONSTANTS
    BatchId = {b1, b2, b3}
    JobId = {j1, j2}
    Name <- MCName
    Tiff <- MCTiff
    Stem <- MCStem
    Dropped = {"a.tif"}
    Scans = {"whole"}
    Scanner = {}
    Faults = {}
    MaxMishaps = 0
    MaxRestarts = 1
INVARIANT
    NoDuplicateJobsAfterRestart
