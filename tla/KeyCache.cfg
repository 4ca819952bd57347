CONSTANTS
    Subs = {s1}
    Checks = {c1, c2}
    Routines = {g1, g2}
    NoSub = NoSub
    MaxKey = 3
SPECIFICATION CacheFairSpec
INVARIANTS OneRefreshPerUser
PROPERTIES CacheConverges
