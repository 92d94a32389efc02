\* All three processes at once, with every kind of error and a restart.
SPECIFICATION Spec
CONSTANTS
    BatchId = {b1, b2}
    JobId = {j1, j2, j3}
    Name <- MCName
    Tiff <- MCTiff
    Stem <- MCStem
    Dropped = {"doc.tif"}
    Scans = {"whole"}
    Scanner = {}
    MaxRestarts = 1
    Request = {r1}
    Role = {"admin", "auditor"}
    Uploader = {"admin"}
    Payload <- Uploads
    Worker = {w1, w2}
    NoJob = NoJob
    MaxRequeues = 1
    Faults = {"sftp", "blob", "cache", "enqueue", "api", "job", "crash"}
    MaxMishaps = 1
SYMMETRY Fungible
INVARIANTS
    TypeOK
    IInv
    AnsweredMeansEnqueued
    RowsAreAccounted
    PredictionsReferenceStoredBlobs
    DoneHasPrediction
    FinishedJobHasPrediction
