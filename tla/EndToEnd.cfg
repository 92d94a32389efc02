\* From the drop directory through one worker: calls fail, jobs raise, the worker
\* dies and a failed job is requeued.
SPECIFICATION Spec
CONSTANTS
    BatchId = {b1, b2, b3, b4}
    JobId = {j1, j2}
    Name <- MCName
    Tiff <- MCTiff
    Stem <- MCStem
    Dropped = {"doc.tif", "doc.tiff"}
    Scans = {"whole", "empty", "malformed"}
    Scanner = {}
    MaxRestarts = 0
    Request = {}
    Role = {"reviewer"}
    Uploader = {"reviewer"}
    Payload <- OneFile
    Worker = {w1}
    NoJob = NoJob
    MaxRequeues = 2
    Faults = {"job", "crash", "sftp", "blob", "cache"}
    MaxMishaps = 2
INVARIANTS
    SeenScansAreStored
    FinishedJobBatchIsDone
    AuditTrailIsAPath
PROPERTIES
    GoodScansAreEnqueued
    RejectsSettle
    ImplementsLifecycle
    JobsSettle
    BatchesSettle
    ScansAreClassified
