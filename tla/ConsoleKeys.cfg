CONSTANTS
    Ids = {a, f}
    Foreign = {f}
    Initial = {f}
    NoKey = NoKey
    Toggles = {t1, t2}
    ToastIds = {x1}
    PageSize = 1
    MaxOps = 3
SYMMETRY ToggleSymmetry
SPECIFICATION Spec
INVARIANTS SecretNeverDropped RevokedStaysGone SettledRowsAreTrue
