\* A job that fails after its insert and is requeued.
SPECIFICATION Spec
CONSTANTS
    BatchId = {b1}
    JobId = {j1, j2}
    Name <- MCName
    Tiff <- MCTiff
    Stem <- MCStem
    Dropped = {}
    Scans = {}
    Scanner = {}
    MaxRestarts = 0
    Request = {r1}
    Role = {"admin"}
    Uploader = {"admin"}
    Payload <- OneFile
    Worker = {w1}
    NoJob = NoJob
    MaxRequeues = 1
    Faults = {"job"}
    MaxMishaps = 1
INVARIANT
    OnePredictionPerDocument
