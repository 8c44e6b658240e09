SPECIFICATION Spec
CONSTANTS
    m13 = m13
    m32 = m32
    Companies = {"HOT", "YES", "COLD"}
    AddressOf <- MCAddressOf
    First = m13
    UserServer = m32
    Provider = "COLD"
    Users = {u1, u2}
    NoFile = NoFile
    ErrorPage = ErrorPage
    Empty = Empty
    MaxSetups = 2
    MaxFetches = 2
    MaxRequests = 3
INVARIANTS PubkeyCurrent FetchedKeyKept NoiseNeedsChange ListAtMostOneBehind
SYMMETRY UserSymmetry
