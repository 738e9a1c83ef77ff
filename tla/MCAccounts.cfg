CONSTANTS
    Account = {u1, u2}
    Session = {s1, s2, s3}
    Link = {k1, k2}
    Code = {c1, c2}
    Password = {p1, p2}
    Request = {r1, r2}
    MaxRequests = 4
    MaxFaults = 1
    Null = Null
CHECK_DEADLOCK FALSE
SYMMETRY AnyNames
SPECIFICATION Spec
INVARIANTS
    RevokedMeansLoggedOut
    RefreshOnce
    SavesKeepTheAccount
    LinksWorkOnce
PROPERTIES
    LoginRestores
