CONSTANTS
    Callers = {c1, c2}
    Subs = {s1}
    Keys = {k1, k2, k3}
    NoKey = NoKey
    NoSub = NoSub
    Free = Free
    LockOutlived = TRUE
    AdminRefused = TRUE
SPECIFICATION FairSpec
INVARIANTS NoResurrection RejectedNotReturned LockHasHolder
PROPERTIES RequestsEnd
