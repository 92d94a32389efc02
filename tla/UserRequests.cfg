\* Two requests and a run of seed_admin.py at a time, three accounts.
SPECIFICATION Spec
CONSTANTS
    Role = {"admin", "auditor"}
    UserId = {u1, u2, u3}
    NoUser = NoUser
    Email = {seed, e1, e2}
    SeedEmail = seed
    Request = {r1, r2}
    Seeder = {s1}
    MaxLog = 3
SYMMETRY Fungible
INVARIANTS
    UsersTypeOK
    UsersInv
    OnlyDemotionsCostTheLastAdmin
    LogTellsTheTable
    OverlapsAloneMisstate
PROPERTY
    AuditIsAppendOnly
