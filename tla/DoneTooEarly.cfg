\* Two files, one worker, no error: what done says about the second job.
SPECIFICATION Spec
CONSTANTS
    BatchId = {b1}
    JobId = {j1, j2}
    Name <- MCName
    Tiff <- MCTiff
    Stem <- MCStem
    Dropped = {}
    Scans = {}
    Scanner = {}
    MaxRestarts = 0
    Request = {r1}
    Role = {"admin"}
    Uploader = {"admin"}
    Payload <- Collisions
    Worker = {w1}
    NoJob = NoJob
    MaxRequeues = 0
    Faults = {}
    MaxMishaps = 0
INVARIANT
    DoneMeansAllFinished
