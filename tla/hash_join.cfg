SPECIFICATION Spec
CONSTANTS
    None = None
    Params <- MCAmbiguousParams
    Uuids = {u1}
    Pids = {p1, p2}
    Tasks = {t1, t2}
    QuitsOnStop = TRUE
    SecretsCalls = FALSE
    DiskFaults = FALSE
    NftFaults = FALSE
    Crashes = FALSE
SYMMETRY MCSymmetry
INVARIANTS
    CacheMatchesParams
