SPECIFICATION Spec
CONSTANTS
    Requests = {r1, r2}
    Addresses = {a1}
    Ports = {p1}
    Users = {u1}
    Anonymous = anonymous
    None = none
    Limit = 2
    Window = 2
INVARIANTS
    WInv
    AInv
    AtMostTwiceTheLimit
PROPERTIES
    WindowKeepsItsEnd
    RefusalEnds
