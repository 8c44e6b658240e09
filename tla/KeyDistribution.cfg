SPECIFICATION Spec
CONSTANTS
    NUM_OF_AES_KEYS = 4
    NoKey = NoKey
    CHANGE_KEY_INTERVAL = 3
    SEND_KEY_INTERVAL = 1
    FULL_ENCRYPTION = 1
    NumProviders = 1
    AesKeys = {k1, k2, k3, k4, k5, k6, k7, k8, k9}
    UserIds = {0, 5}
    UserId = 5
    NoFile = NoFile
    ErrorPage = ErrorPage
    PageIsArgument = FALSE
    InitialFiles <- MCNobodyRevoked
    ServerReplies <- MCNobodyRevoked
    MaxFetches = 2
    MaxStreams = 1
    USER_SERVER = 1
    Faults = {"stall", "slow server"}
    KeyCap = 4
    VideoCap = 2
    MaxLosses = 0
INVARIANTS TypeOK RightKey SavedUnderItsId
PROPERTIES KeptUntilUsed NoBlackout
