CONSTANTS
    v1 = v1
    v2 = v2
    Flows = {f1, f2}
    Handlers = {h1, h2}
    Clients = {c1, c2}
    Users = {u1}
    Services = {v1, v2}
    NoClient = NoClient
    NoUser = NoUser
    NoFlow = NoFlow
    Scopes <- MCScopes
SPECIFICATION FairSpec
INVARIANTS OnePairPerAuthorization PairIsTheCeremonys DeclinedIsLeftOut
PROPERTIES CeremonyEnds
