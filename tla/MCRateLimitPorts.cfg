SPECIFICATION Spec
CONSTANTS
    Requests = {r1, r2}
    Addresses = {a1}
    Ports = {p1, p2}
    Users = {}
    Anonymous = anonymous
    None = none
    Limit = 1
    Window = 3
INVARIANT AddressIsLimited
