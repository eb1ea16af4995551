SPECIFICATION Spec
CONSTANTS
    p1 = p1
    p2 = p2
    p3 = p3
    k1 = k1
    k2 = k2
    n1 = n1
    n2 = n2
    Readers = {r}
    ProductIds = {p1, p2}
    CategoryIds = {k1, k2}
    CategoryNames = {n1, n2}
    Texts = {x}
    Prices <- HalfCents
    All = All
    Pages <- OddPages
    Sizes <- SizesBelow
    MaxPage = 2
    ZoneOffset = 0
    MaxTime = 1
SYMMETRY Symmetry
INVARIANTS
    IInv
    DeletedStaysDeleted
    UpdatedNotBeforeCreated
    PageAgreesWithTotal
