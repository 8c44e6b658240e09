SPECIFICATION Spec
CONSTANTS
    NUM_OF_AES_KEYS = 3
    NoKey = NoKey
    CHANGE_KEY_INTERVAL = 2
    SEND_KEY_INTERVAL = 1
    FULL_ENCRYPTION = 1
    NumProviders = 1
    AesKeys = {k1, k2, k3, k4, k5, k6, k7}
    UserIds = {0, 5}
    UserId = 5
    NoFile = NoFile
    ErrorPage = ErrorPage
    PageIsArgument = FALSE
    InitialFiles <- MCNobodyRevoked
    ServerReplies <- MCNobodyRevoked
    MaxFetches = 1
    MaxStreams = 1
    USER_SERVER = 1
    Faults = {"restart"}
    KeyCap = 2
    VideoCap = 1
    MaxLosses = 0
INVARIANT RightKey
