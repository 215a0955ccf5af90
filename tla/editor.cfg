SPECIFICATION HostFairSpec
CONSTANTS
    None = None
    Tokens <- MCTokens
    Earth = "earth"
    Fold <- MCFold
    Replies <- MCReplies
    Collate <- MCCollate
    MaxPolls = 2
    Versions = {1, 2}
INVARIANTS
    HostTypeOK
    OneModuleLoaded
    CallbacksFindEditor
    ButtonsTellTruth
    
PROPERTIES
    SelectionKept
    ReconnectEnds
    ClosedEditorIsFreed
