SPECIFICATION FairSpec
CONSTANTS
    None = None
    Params <- MCOneParam
    Uuids = {u1, u2}
    Pids = {p1, p2}
    Tasks = {t1, t2}
    QuitsOnStop = FALSE
    SecretsCalls = TRUE
    DiskFaults = FALSE
    NftFaults = FALSE
    Crashes = FALSE
ACTION_CONSTRAINT MCPersistBounds
INVARIANTS
    FetchMatchesAttempt
    AttemptIsWatched
PROPERTIES
    DropStaysBlocked
    AttemptEnds
