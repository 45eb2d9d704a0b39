SPECIFICATION CheckoutSpec
CONSTANTS
    Sessions = {s1, s2}
    Clients = {ann}
    NoClient = NoClient
    NoToken = NoToken
    LeaseTtl = 1
    MaxMoves = 2
    MaxTokens = 2
    MaxItem = 3
    LastDay = 2
    MaxFaults = 1
INVARIANTS NoInvisibleWork
CHECK_DEADLOCK FALSE
