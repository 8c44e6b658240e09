SPECIFICATION Spec
CONSTANTS
    Root = "0"
    Channels = {c1}
    Ids <- MCIds
    Subscribers = {"5"}
    Number <- MCNumber
    NoFile = NoFile
    ErrorPage = ErrorPage
    NoId = NoId
    MaxSetups = 2
    MaxSends = 2
INVARIANTS TypeOK AnswerCoversRevoked PrivateKeyCurrent
PROPERTIES UnrevokeTakesEffect ImplementsPolicy
