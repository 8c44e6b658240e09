SPECIFICATION Spec
CONSTANTS
    ChannelIds = {1, 2}
    ServerIds = {1, 3}
    NumKeys = 2
    Mtu = 22
    Messages <- MCMessages
    Keystreams <- MCKeystreams
    None = None
    MaxDatagrams = 3
INVARIANTS NoPortShared ForwardedIntact PayloadEncrypted
