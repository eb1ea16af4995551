SPECIFICATION Spec
CONSTANTS
    p1 = p1
    p2 = p2
    p3 = p3
    k1 = k1
    k2 = k2
    n1 = n1
    n2 = n2
    Readers = {r}
    ProductIds = {p1, p2, p3}
    CategoryIds = {k1}
    CategoryNames = {n1}
    Texts = {x}
    Prices <- OnePrice
    All = All
    Pages <- FirstPage
    Sizes <- SizesAbove
    MaxPage = 4
    ZoneOffset = 0
    MaxTime = 2
SYMMETRY ProductSymmetry
CONSTRAINT WalksOfInterest
INVARIANTS
    InsertsNeverSkip
    DeletesNeverRepeat
    PagesInv
