SPECIFICATION Spec
CONSTANTS
    Keys <- MCKeys
    None = None
    Devices <- MCDevices
    FoldName <- MCFoldName
    Texts <- MCTexts
    ConnectLimit = 4
    RequestLimit = 12
    Literals <- MCLiterals
    Loadable <- MCLoadable
    Private <- MCPrivate
    TcpProtos <- MCTcpProtos
    V4 <- MCV4
    V6 <- MCV6
    Masks <- MCMasks
    Prefix <- MCPrefix
    HostOf <- MCHostOf
    Numbers <- MCNumbers
    Lines <- MCLines
    Names <- MCNames
    ConnectTimeout = 9
    NmTimeout = 12
    Scenarios <- BareScenarios
INVARIANT DefaultProtoApplies
CHECK_DEADLOCK FALSE
