SPECIFICATION Spec
CONSTANTS
    None = None
    Params <- MCParams
    Uuids = {u1}
    Pids = {p1, p2}
    Tasks = {t1}
    QuitsOnStop = TRUE
    SecretsCalls = FALSE
    DiskFaults = TRUE
    NftFaults = TRUE
    Crashes = TRUE
SYMMETRY MCSymmetry
INVARIANTS
    KillSwitchCoversTunnel
PROPERTIES
    StaleOnlyWhileStarting
