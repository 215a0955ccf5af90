SPECIFICATION Spec
CONSTANTS
    None = None
    Texts <- MCTexts
    Fold <- MCFold
    Strtol <- MCStrtol
    Format <- MCFormat
    TypedSeconds <- MCTypedSeconds
    TunesPing <- MCTunesPing
    InitialSettings <- MCSettings
    MaxSeconds = 60
    MaxEdits = 1
INVARIANTS
    TypeOK
    ShownIsApplied
PROPERTIES
    UntouchedSaveKeepsEffect
    UntouchedSaveKeepsProfile
