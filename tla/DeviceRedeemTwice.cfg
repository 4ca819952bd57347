CONSTANTS
    Browsers = {b1, b2}
    Polls = {p1}
    Devices = {d1}
    Clients = {c1}
    Users = {u1}
    NoUser = NoUser
    NoClient = NoClient
    NoDevice = NoDevice
    PagesRace = TRUE
SPECIFICATION Spec
INVARIANTS SingleRedemption
CHECK_DEADLOCK FALSE
