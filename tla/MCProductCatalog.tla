--------------------------- MODULE MCProductCatalog ---------------------------
(* Small instances of ProductCatalog for TLC.                                  *)
EXTENDS ProductCatalog, TLC

CONSTANTS p1, p2, p3, k1, k2, n1, n2

\* A price the database rejects, two it cannot tell apart, and another; or one.
HalfCents == {-1, 1, 2, 3}
OnePrice == {1}

\* First pages: before the first and after it; or the first of a walk.
OddPages == {0, 2}
FirstPage == {1}
SizesBelow == -1..1
SizesAbove == {1, 2}

\* Ids and names are interchangeable: no operator orders or names them.
ProductSymmetry == Permutations(ProductIds)
Symmetry == ProductSymmetry \union Permutations(CategoryIds) \union Permutations(CategoryNames)

\* Bounds of the paging instance.  Walks about which the properties say nothing
\* more are not followed: amid insertions and deletions, or past a SELECT with
\* ties.  Nothing is filtered, and the replies to Deletes arrive.
WalksOfInterest ==
    /\ \A c \in Readers :
         /\ ~({"insert", "delete"} \subseteq walk[c].writes)
         /\ walk[c].distinct
         /\ call[c].query.filter = All
    /\ born = deleted \union {p.id : p \in products}
=============================================================================
