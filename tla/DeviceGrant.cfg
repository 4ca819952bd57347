CONSTANTS
    Browsers = {b1, b2}
    Polls = {p1, p2}
    Devices = {d1}
    Clients = {c1, c2}
    Users = {u1, u2}
    NoUser = NoUser
    NoClient = NoClient
    NoDevice = NoDevice
    PagesRace = FALSE
SPECIFICATION FairSpec
INVARIANTS SingleRedemption TokensAreApproved
PROPERTIES SettledOnce ApprovedIsRedeemed
CHECK_DEADLOCK FALSE
