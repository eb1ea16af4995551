SPECIFICATION Spec
CONSTANTS
    Requests = {r1, r2}
    Emails = {e1}
    Passwords = {p1}
    TooLong = {}
    UserIds = {u1}
    Tokens = {t1, t2}
    Unknown = unknown
    None = none
    AccessTokenExpiration = 1
    RefreshTokenExpiration = 1
    ZoneOffset = 0
    MaxTime = 2
SYMMETRY Symmetry
CONSTRAINT FewAccessTokens
INVARIANTS
    IInv
    LogoutIsFinal
    HeldTokenHonoured
    RefreshLifetime
PROPERTIES
    LogoutEndsAccess
