SPECIFICATION Spec
CONSTANTS
    c1 = c1
    acme = acme
    SignUps = {s1}
    Cnpjs = {c1}
    NoCnpj = NoCnpj
    Emails = {e1}
    Tokens = {t1}
    NoToken = NoToken
    IVs = {v1, v2}
    Keys = {k1}
    Workers = {w1}
    Registry <- MCRegistry
    NoName = NoName
    Absent = Absent
INVARIANT MailedLinkIsValid
CHECK_DEADLOCK FALSE
