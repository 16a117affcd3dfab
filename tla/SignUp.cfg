SPECIFICATION Spec
CONSTANTS
    c1 = c1
    acme = acme
    SignUps = {s1}
    Cnpjs = {c1}
    NoCnpj = NoCnpj
    Emails = {e1}
    Tokens = {t1, t2, t3}
    NoToken = NoToken
    IVs = {v1, v2}
    Keys = {k1, k2}
    Workers = {w1, w2}
    Registry <- MCRegistry
    NoName = NoName
    Absent = Absent
SYMMETRY Symmetry
INVARIANTS
    TypeOK
    CompletedIsWhole
    ApprovedLinkMailed
CHECK_DEADLOCK FALSE
