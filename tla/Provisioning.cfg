CONSTANTS
    Procs = {p1, p2}
    Groups = {base, sso}
    Baseline = {base}
    Sso = {sso}
    Known = {base, sso}
    Keys = {k1}
SYMMETRY Symmetry
SPECIFICATION Spec
INVARIANTS NoFailOpen NeverBare OneCapWriter
PROPERTIES ForeignTeamKept OnlyOursMoves
