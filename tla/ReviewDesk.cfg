SPECIFICATION Spec
CONSTANTS
    s = s
    r = r
    c = c
    w = w
    Session = {s, r}
    Client = {c}
    Worker = {w}
    Overlaps <- MCOverlaps
    RoleOf <- MCRoleOf
    MaxBatches = 1
    MaxRows = 2
    BatchOf <- MCBatchOf
    Doubtful = {1}
    Class = {"letter", "form"}
    Window <- MCWindow
    MaxPatches = 2
    MaxFailures = 1
    Nothing = Nothing
    Predicted <- MCPredicted
    ShowsAll = {s}
INVARIANTS
    DeskTypeOK
    StaleHasAReason
PROPERTIES
    OwnCorrectionIsServed
    ClicksAreAnswered
