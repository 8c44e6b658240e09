SPECIFICATION Spec
CONSTANTS
    Order = 11
    NoMessage = NoMessage
    Garbage = Garbage
    UserIds = {3, 4}
    Lists <- MCLists
    Texts <- MCTexts
    Capacity = 10
    Leftovers = {55}
    Draws <- MCDraws
PROPERTIES OpensUnlessListed
