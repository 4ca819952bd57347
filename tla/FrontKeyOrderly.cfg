CONSTANTS
    Callers = {c1, c2, c3}
    Subs = {s1, s2}
    Keys = {k1, k2}
    NoKey = NoKey
    NoSub = NoSub
    Free = Free
    LockOutlived = FALSE
    AdminRefused = TRUE
SYMMETRY Symmetry
SPECIFICATION Spec
INVARIANTS OwnKey MintedUnderLock
PROPERTIES NoOverwrite ImplementsRegister
