CONSTANTS
    Users = {u1, u2}
    None = None
    Loads = {l1, l2}
    Queries = {q1, q2}
    Mutations = {m1}
    Routes = {"/", "stats"}
    Unknown = "unknown"
SPECIFICATION FairSpec
INVARIANTS LoadsNeverStack ThrownOutOnlyIfLapsed
PROPERTIES ExpiredIsFinal CardGivesWay
