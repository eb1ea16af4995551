SPECIFICATION Spec
CONSTANTS
    Requests = {r1, r2}
    Addresses = {a1}
    Ports = {p1}
    Users = {u1}
    Anonymous = anonymous
    None = none
    Limit = 1
    Window = 3
PROPERTY EveryRefusalEnds
