SPECIFICATION Spec
CONSTANTS
    None = None
    Params <- MCParams
    Uuids = {u1, u2}
    Pids = {p1, p2}
    Tasks = {t1}
    QuitsOnStop = TRUE
    SecretsCalls = FALSE
    DiskFaults = FALSE
    NftFaults = FALSE
    Crashes = FALSE
SYMMETRY MCSymmetry
INVARIANTS
    TypeOK
    FlagMatchesTable
    StoppedIsIdle
    ProfileMatchesConnection
    CacheMatchesParams
PROPERTIES
    KillSwitchKept
    StaleOnlyWhileStarting
