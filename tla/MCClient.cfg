SPECIFICATION Spec
CONSTANTS
    NUM_OF_AES_KEYS = 3
    NoKey = NoKey
    b = b
    c = c
    AesKeys = {b, c}
    UserId = 5
    Ciphers <- MCCiphers
    MaxStreams = 2
INVARIANTS TypeOK HungOnlyIfOverlapped OnlyGrantedKeys
PROPERTIES SavedUnderItsId
CHECK_DEADLOCK FALSE
