SPECIFICATION Spec
CONSTANTS
    Requests = {r1, r2}
    Emails = {e1, e2}
    Passwords = {p1, pLong}
    TooLong = {pLong}
    UserIds = {u1, u2}
    Tokens = {t1}
    Unknown = unknown
    None = none
    AccessTokenExpiration = 1
    RefreshTokenExpiration = 1
    ZoneOffset = 0
    MaxTime = 1
SYMMETRY Symmetry
INVARIANTS
    TypeOK
    OneAccountPerEmail
    ConfirmedAccountsLast
    AccessTokensKeepTheirSession
