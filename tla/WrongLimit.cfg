\* A client and the dashboard ask for different limits.
SPECIFICATION Spec
CONSTANTS
    s = s
    r = r
    c = c
    w = w
    Session = {s, r}
    Client = {c}
    Worker = {w}
    Overlaps <- MCReaders
    RoleOf <- MCRoleOf
    MaxBatches = 1
    MaxRows = 2
    BatchOf <- MCBatchOf
    Doubtful = {1}
    Class = {"letter", "form"}
    Window <- MCWindow
    MaxPatches = 0
    MaxFailures = 0
    Nothing = Nothing
    Predicted <- MCPredicted
    ShowsAll = {s}
PROPERTY
    LimitIsServed
