SPECIFICATION Spec
CONSTANTS
    NUM_OF_AES_KEYS = 3
    NoKey = NoKey
    CHANGE_KEY_INTERVAL = 2
    SEND_KEY_INTERVAL = 1
    FULL_ENCRYPTION = 1
    NumProviders = 1
    AesKeys = {k1, k2, k3}
    UserIds = {0, 5}
    Root = 0
    NoFile = NoFile
    ErrorPage = ErrorPage
    PageIsArgument = FALSE
    InitialFiles <- MCInitialFiles
    ServerReplies <- MCServerReplies
    MaxFetches = 2
PROPERTIES RevocationsReachCiphers CiphersGoOn
