CONSTANTS
    k1 = k1
    k2 = k2
    good = good
    bad = bad
    u1 = u1
    InboundHeaders <- MCInboundHeaders
    Keys = {k1, k2}
    Jws = {good, bad}
    Foreign = {foreign}
    Subs = {u1}
    NoSub = NoSub
    SubOf <- MCSubOf
    KeyOf <- MCKeyOf
    Absent = Absent
SPECIFICATION RequestSpec
INVARIANTS KeyStandsForCredential ForeignAuthorizationKept OrderIsTheContract
