------------------------- MODULE ProductCatalogProofs -------------------------
(***************************************************************************)
(* Theorems about ProductCatalog, for any products, categories, prices,    *)
(* queries and number of readers.                                          *)
(***************************************************************************)
EXTENDS ProductCatalog, FiniteSetTheorems, TLAPS

-----------------------------------------------------------------------------
(* Lemmas about the operators                                               *)

\* A stored price is a whole number of cents.
LEMMA DecimalType == ASSUME NEW p \in Int PROVE Decimal(p) \in Int
BY DEF Decimal

\* The times of a row are numbers.
LEMMA StoredType == ASSUME NEW t \in Int PROVE Stored(t) \in Int
BY CatalogAssumption DEF Stored

\* What matches is finite, and its number a total.
LEMMA CountType ==
    ASSUME TypeOK, NEW q PROVE Count(q) \in Nat
<1>1. Matching(q) \in SUBSET products
  BY DEF Matching
<1>2. IsFiniteSet(Matching(q))
  BY <1>1, FS_Subset DEF TypeOK
<1> QED
  BY <1>2, FS_CardinalityType DEF Count

\* The offset of a query is a number, and its page has no more rows than there are.
LEMMA PageType ==
    ASSUME NEW q \in Query, NEW n \in Nat
    PROVE  /\ Offset(q) \in Int
           /\ Offset(q) >= 0 /\ q.pageSize >= 0 =>
                 /\ PageLength(n, q) \in Nat
                 /\ \A i \in 1..PageLength(n, q) : Offset(q) + i \in 1..n
<1>1. q.page \in Int /\ q.pageSize \in Int
  BY DEF Query
<1>2. Offset(q) \in Int
  BY <1>1 DEF Offset
<1> QED
  BY <1>1, <1>2 DEF PageLength

\* A call that has not begun is consistent.
LEMMA IdleType == Idle \in Call /\ NoWalk \in WalkHistory
<1>1. Idle.query \in Query
  BY DEF Idle, Query, Columns, Orders
<1> QED
  BY <1>1 DEF Idle, Call, NoWalk, WalkHistory

-----------------------------------------------------------------------------
(* Steps of writers                                                         *)

\* A write that changes the products makes every count stale that no SELECT has
\* followed yet.
LEMMA WriteStep ==
    ASSUME IInv, NEW kind \in {"insert", "update", "delete"}, Note(kind)
    PROVE  call' \in [Readers -> Call] /\ walk' \in [Readers -> WalkHistory] /\ CallsConsistent'
<1> USE DEF IInv, TypeOK
<1>1. CASE products' = products
  <2>1. UNCHANGED <<call, walk>>
    BY <1>1 DEF Note
  <2>2. \A q : Count(q)' = Count(q)
    BY <1>1 DEF Count, Matching
  <2> QED
    BY <2>1, <2>2 DEF CallsConsistent, Consistent
<1>2. CASE products' # products
  <2>1. ASSUME NEW c \in Readers
        PROVE  /\ call'[c] = [call[c] EXCEPT !.stale = @ \/ call[c].pc = "select"]
               /\ call'[c] \in Call
               /\ walk'[c] \in WalkHistory
    <3>1. call[c] \in Call /\ walk[c] \in WalkHistory
      BY <2>1
    <3>2. call'[c] = [call[c] EXCEPT !.stale = @ \/ call[c].pc = "select"]
      BY <1>2, <2>1 DEF Note
    <3>3. call'[c] \in Call
      BY <3>1, <3>2 DEF Call
    <3>4. walk'[c] = IF walk[c].active THEN [walk[c] EXCEPT !.writes = @ \union {kind}]
                     ELSE walk[c]
      BY <1>2, <2>1 DEF Note
    <3>5. walk'[c] \in WalkHistory
      BY <3>1, <3>4 DEF WalkHistory
    <3> QED
      BY <3>2, <3>3, <3>5
  <2>2. call' \in [Readers -> Call] /\ walk' \in [Readers -> WalkHistory]
    <3>1. \E f : call' = [c \in Readers |-> f[c]]
      BY <1>2 DEF Note
    <3>2. \E f : walk' = [c \in Readers |-> f[c]]
      BY <1>2 DEF Note
    <3> QED
      BY <2>1, <3>1, <3>2
  <2>3. ASSUME NEW c \in Readers
        PROVE  Consistent(call[c])'
    <3>1. call[c] \in Call /\ Consistent(call[c])
      BY <2>3 DEF CallsConsistent
    <3>2. /\ call'[c].pc = call[c].pc
          /\ call'[c].query = call[c].query
          /\ call'[c].total = call[c].total
          /\ call'[c].rows = call[c].rows
          /\ call'[c].fetched = call[c].fetched
          /\ call'[c].stale = (call[c].stale \/ call[c].pc = "select")
      <4> DEFINE s == call[c].stale \/ call[c].pc = "select"
      <4>1. call'[c] = [call[c] EXCEPT !.stale = s]
        BY <2>1, <2>3
      <4> HIDE DEF s
      <4>2. /\ call'[c].pc = call[c].pc
            /\ call'[c].query = call[c].query
            /\ call'[c].total = call[c].total
            /\ call'[c].rows = call[c].rows
            /\ call'[c].fetched = call[c].fetched
            /\ call'[c].stale = s
        BY <3>1, <4>1 DEF Call
      <4> QED
        BY <4>2, Zenon DEF s
    <3>3. /\ call[c].stale => call'[c].stale
          /\ call[c].pc = "select" => call'[c].stale
      BY <3>2, Zenon
    <3> QED
      BY <3>1, <3>2, <3>3 DEF Consistent
  <2> QED
    BY <2>2, <2>3 DEF CallsConsistent
<1> QED
  BY <1>1, <1>2

\* A new row is well formed.
LEMMA RowType ==
    ASSUME TypeOK, NEW id \in ProductIds, NEW k \in CategoryIds, NEW x \in Texts,
           NEW p \in Prices, Admissible(k, p), NEW t \in Int, NEW u \in Int
    PROVE  [id |-> id, category |-> k, text |-> x, price |-> Decimal(p),
            created_at |-> t, updated_at |-> u] \in Product
<1>1. Decimal(p) \in Nat
  BY DecimalType, CatalogAssumption DEF Admissible
<1> QED
  BY <1>1 DEF Product

LEMMA CreateProductStep ==
    ASSUME IInv, NEW id \in ProductIds, NEW k \in CategoryIds, NEW x \in Texts,
           NEW p \in Prices, NEW t \in 0..now, CreateProduct(id, k, x, p, t)
    PROVE  IInv'
<1> USE DEF IInv
<1> DEFINE row == [id |-> id, category |-> k, text |-> x, price |-> Decimal(p),
                   created_at |-> Stored(t), updated_at |-> Stored(t)]
<1>1. /\ products' = products \union {row}
      /\ id \notin born /\ born' = born \union {id}
      /\ UNCHANGED <<now, categories, deleted>>
      /\ Admissible(k, p) /\ Note("insert")
  BY DEF CreateProduct
<1>2. row \in Product
  <2>1. t \in Int /\ Stored(t) \in Int
    BY StoredType DEF TypeOK
  <2> QED
    BY <1>1, <2>1, RowType
<1>3. call' \in [Readers -> Call] /\ walk' \in [Readers -> WalkHistory] /\ CallsConsistent'
  BY <1>1, WriteStep
<1>4. IsFiniteSet(products')
  BY <1>1, FS_AddElement DEF TypeOK
<1> HIDE DEF row
<1>5. TypeOK'
  BY <1>1, <1>2, <1>3, <1>4 DEF TypeOK
<1>6. row.id = id /\ row.category = k /\ row.created_at = Stored(t)
  BY DEF row
<1>7. TablesConsistent'
  BY <1>1, <1>6 DEF TablesConsistent, Admissible, HasCategory
<1>8. DeletedStaysDeleted'
  BY <1>1, <1>6 DEF DeletedStaysDeleted, RowsWithID, TypeOK
<1>9. \A q \in products' : q.created_at <= Stored(now)'
  BY <1>1, <1>6, CatalogAssumption DEF Stored, TypeOK
<1> QED
  BY <1>3, <1>5, <1>7, <1>8, <1>9

\* An Update keeps id and created_at of every row.
LEMMA OverwrittenRow ==
    ASSUME NEW o \in Product, NEW id \in ProductIds, NEW k \in CategoryIds, NEW x \in Texts,
           NEW p \in Nat, NEW u \in Int
    PROVE  LET q == Overwritten(o, id, k, x, p, u) IN
           /\ q \in Product
           /\ q.id = o.id /\ q.created_at = o.created_at
           /\ o.id = id => q.category = k /\ q.updated_at = u
           /\ o.id # id => q = o
BY DEF Overwritten, Product

\* An Update leaves as many rows as there were.
LEMMA UpdatedFinite ==
    ASSUME IsFiniteSet(products), NEW id, NEW k, NEW x, NEW p, NEW u
    PROVE  IsFiniteSet(Updated(id, k, x, p, u))
<1> DEFINE T == Updated(id, k, x, p, u)
           f == [q \in products |-> Overwritten(q, id, k, x, p, u)]
<1>1. f \in Surjection(products, T)
  <2>1. f \in [products -> T]
    BY DEF Updated
  <2>2. \A t \in T : \E q \in products : f[q] = t
    BY DEF Updated
  <2> QED
    BY <2>1, <2>2 DEF Surjection
<1> HIDE DEF f, T
<1>2. IsFiniteSet(T)
  BY <1>1, FS_Surjection
<1> QED
  BY <1>2 DEF T

LEMMA UpdateProductStep ==
    ASSUME IInv, NEW id \in ProductIds, NEW k \in CategoryIds, NEW x \in Texts,
           NEW p \in Prices, NEW t \in 0..now, UpdateProduct(id, k, x, p, t)
    PROVE  IInv'
<1> USE DEF IInv
<1> DEFINE d == Decimal(p)
           N(o) == Overwritten(o, id, k, x, d, now)
<1>1. /\ products' = Updated(id, k, x, d, now)
      /\ UNCHANGED <<now, categories, born, deleted>>
      /\ Admissible(k, p) /\ Note("update")
  BY DEF UpdateProduct, TriggeredUpdatedAt
<1>2. d \in Nat /\ now \in Int
  BY <1>1, DecimalType, CatalogAssumption DEF Admissible, TypeOK
<1>3. call' \in [Readers -> Call] /\ walk' \in [Readers -> WalkHistory] /\ CallsConsistent'
  BY <1>1, WriteStep
<1>4. IsFiniteSet(products')
  BY <1>1, UpdatedFinite DEF TypeOK
<1>5. products' = {N(o) : o \in products}
  BY <1>1 DEF Updated
<1> HIDE DEF d
<1>6. ASSUME NEW o \in products
      PROVE  /\ N(o) \in Product
             /\ N(o).id = o.id /\ N(o).created_at = o.created_at
             /\ N(o).category \in {k, o.category}
  <2>1. o \in Product
    BY DEF TypeOK
  <2> QED
    BY <1>2, <2>1, OverwrittenRow
<1> HIDE DEF N
<1>7. TypeOK'
  BY <1>1, <1>3, <1>4, <1>5, <1>6 DEF TypeOK
<1>8. TablesConsistent'
  <2>1. ASSUME NEW q \in products' PROVE HasCategory(q.category)' /\ q.id \in born'
    BY <1>1, <1>5, <1>6, <2>1 DEF TablesConsistent, Admissible, HasCategory
  <2>2. ASSUME NEW q \in products', NEW r \in products', q.id = r.id PROVE q = r
    <3>1. PICK o1 \in products : q = N(o1)
      BY <1>5
    <3>2. PICK o2 \in products : r = N(o2)
      BY <1>5
    <3>3. o1 = o2
      BY <1>6, <2>2, <3>1, <3>2 DEF TablesConsistent
    <3> QED
      BY <3>1, <3>2, <3>3
  <2> QED
    BY <1>1, <2>1, <2>2 DEF TablesConsistent
<1>9. DeletedStaysDeleted'
  <2>1. ASSUME NEW e \in deleted, NEW q \in products', q.id = e PROVE FALSE
    BY <1>5, <1>6, <2>1 DEF DeletedStaysDeleted, RowsWithID
  <2> QED
    BY <1>1, <2>1 DEF DeletedStaysDeleted, RowsWithID
<1>10. \A q \in products' : q.created_at <= Stored(now)'
  BY <1>1, <1>5, <1>6 DEF Stored
<1> QED
  BY <1>3, <1>7, <1>8, <1>9, <1>10

LEMMA DeleteProductStep ==
    ASSUME IInv, NEW id \in ProductIds, DeleteProduct(id)
    PROVE  IInv'
<1> USE DEF IInv
<1>1. /\ products' = products \ RowsWithID(id) /\ RowsWithID(id) # {}
      /\ deleted' \in {deleted, deleted \union {id}}
      /\ UNCHANGED <<now, categories, born>>
      /\ Note("delete")
  BY DEF DeleteProduct
<1>2. call' \in [Readers -> Call] /\ walk' \in [Readers -> WalkHistory] /\ CallsConsistent'
  BY <1>1, WriteStep
<1>3. IsFiniteSet(products')
  BY <1>1, FS_Subset DEF TypeOK
<1>4. id \in born
  BY <1>1 DEF RowsWithID, TablesConsistent
<1>5. TypeOK'
  BY <1>1, <1>2, <1>3, <1>4 DEF TypeOK
<1>6. TablesConsistent'
  BY <1>1 DEF TablesConsistent, HasCategory
<1>7. DeletedStaysDeleted'
  BY <1>1 DEF DeletedStaysDeleted, RowsWithID
<1>8. \A q \in products' : q.created_at <= Stored(now)'
  BY <1>1 DEF Stored
<1> QED
  BY <1>2, <1>5, <1>6, <1>7, <1>8

LEMMA CreateCategoryStep ==
    ASSUME IInv, NEW k \in CategoryIds, NEW n \in CategoryNames, CreateCategory(k, n)
    PROVE  IInv'
<1> USE DEF IInv
<1> DEFINE row == [id |-> k, name |-> n]
<1>1. /\ categories' = categories \union {row}
      /\ \A c \in categories : c.id # k /\ c.name # n
      /\ UNCHANGED <<now, products, born, deleted, call, walk>>
  BY DEF CreateCategory
<1>2. row \in Category /\ row.id = k /\ row.name = n
  BY DEF Category
<1> HIDE DEF row
<1>3. TypeOK'
  BY <1>1, <1>2 DEF TypeOK
<1>4. TablesConsistent'
  BY <1>1, <1>2 DEF TablesConsistent, HasCategory
<1>5. CallsConsistent'
  BY <1>1 DEF CallsConsistent, Consistent, Count, Matching
<1>6. DeletedStaysDeleted' /\ \A q \in products' : q.created_at <= Stored(now)'
  BY <1>1 DEF DeletedStaysDeleted, RowsWithID, Stored
<1> QED
  BY <1>3, <1>4, <1>5, <1>6

LEMMA TickStep == ASSUME IInv, Tick PROVE IInv'
<1> USE DEF IInv
<1>1. /\ now < MaxTime /\ now' = now + 1
      /\ UNCHANGED <<categories, products, born, deleted, call, walk>>
  BY DEF Tick
<1>2. TypeOK'
  BY <1>1, CatalogAssumption DEF TypeOK
<1>3. TablesConsistent' /\ DeletedStaysDeleted'
  BY <1>1 DEF TablesConsistent, HasCategory, DeletedStaysDeleted, RowsWithID
<1>4. CallsConsistent'
  BY <1>1 DEF CallsConsistent, Consistent, Count, Matching
<1>5. \A q \in products' : q.created_at <= Stored(now)'
  <2>1. ASSUME NEW q \in products PROVE q.created_at \in Int
    BY DEF TypeOK, Product
  <2> QED
    BY <1>1, <2>1, CatalogAssumption DEF Stored, TypeOK
<1> QED
  BY <1>2, <1>3, <1>4, <1>5

-----------------------------------------------------------------------------
(* Steps of readers                                                         *)

\* A reader changes nothing but its own call and history.
LEMMA ReadStep ==
    ASSUME IInv, NEW c \in Readers, NEW d \in Call, Become(c, d), Consistent(d),
           walk' \in [Readers -> WalkHistory], UnchangedTables
    PROVE  IInv'
<1> USE DEF IInv
<1>1. /\ call' = [call EXCEPT ![c] = d]
      /\ UNCHANGED <<now, categories, products, born, deleted>>
  BY DEF Become, UnchangedTables
<1>2. TypeOK'
  BY <1>1 DEF TypeOK
<1>3. TablesConsistent' /\ DeletedStaysDeleted'
  BY <1>1 DEF TablesConsistent, HasCategory, DeletedStaysDeleted, RowsWithID
<1>4. CallsConsistent'
  <2>1. ASSUME NEW b \in Readers PROVE Consistent(call[b])'
    <3>1. Consistent(call'[b])
      BY <1>1, <2>1 DEF TypeOK, CallsConsistent
    <3>2. products' = products
      BY <1>1
    <3> QED
      BY <3>1, <3>2 DEF Consistent, Count, Matching
  <2> QED
    BY <2>1 DEF CallsConsistent
<1>5. \A q \in products' : q.created_at <= Stored(now)'
  BY <1>1 DEF Stored
<1> QED
  BY <1>2, <1>3, <1>4, <1>5

\* A call that ends without a result, and with it the walk.
LEMMA ResetStep ==
    ASSUME IInv, NEW c \in Readers, Become(c, Idle),
           walk' = [walk EXCEPT ![c] = NoWalk], UnchangedTables
    PROVE  IInv'
<1>1. walk' \in [Readers -> WalkHistory]
  BY IdleType DEF IInv, TypeOK
<1>2. Consistent(Idle)
  BY DEF Consistent, Idle
<1> QED
  BY <1>1, <1>2, IdleType, ReadStep

\* Whatever a caller passes becomes a query.
LEMMA BeginStep ==
    ASSUME IInv, NEW c \in Readers, NEW q \in Query, Begin(c, q) PROVE IInv'
<1> DEFINE d == [Idle EXCEPT !.pc = "count", !.query = q]
<1>1. d \in Call /\ d.pc = "count"
  BY IdleType DEF Call, Idle
<1>2. [NoWalk EXCEPT !.active = q.page = 1] \in WalkHistory
  <2>1. (q.page = 1) \in BOOLEAN
    OBVIOUS
  <2> HIDE DEF d
  <2> QED
    BY <2>1, IdleType DEF WalkHistory, NoWalk
<1>3. Become(c, d) /\ UnchangedTables
  BY DEF Begin
<1>4. walk' \in [Readers -> WalkHistory]
  BY <1>2 DEF Begin, IInv, TypeOK
<1> HIDE DEF d
<1>5. Consistent(d)
  BY <1>1 DEF Consistent
<1> QED
  BY <1>1, <1>3, <1>4, <1>5, ReadStep

LEMMA ListStep ==
    ASSUME IInv, NEW c \in Readers, NEW k \in {All} \union CategoryIds, NEW by, NEW order,
           NEW page \in Pages, NEW size \in Sizes, List(c, k, by, order, page, size)
    PROVE  IInv'
<1> DEFINE q == [filter |-> k, sortBy |-> SortField(by), sortOrder |-> SortOrder(order),
                 page |-> page, pageSize |-> size]
<1>1. q \in Query
  BY CatalogAssumption DEF Query, SortField, SortOrder, Columns, Orders
<1>2. Begin(c, q)
  BY DEF List
<1> HIDE DEF q
<1> QED
  BY <1>1, <1>2, BeginStep

LEMMA SearchStep ==
    ASSUME IInv, NEW c \in Readers, NEW x \in {All} \union Texts,
           NEW page \in Pages, NEW size \in Sizes, Search(c, x, page, size)
    PROVE  IInv'
<1> DEFINE q == [filter |-> x, sortBy |-> "created_at", sortOrder |-> "DESC",
                 page |-> page, pageSize |-> size]
<1>1. q \in Query
  BY CatalogAssumption DEF Query, Columns, Orders
<1>2. Begin(c, q)
  BY DEF Search
<1> HIDE DEF q
<1> QED
  BY <1>1, <1>2, BeginStep

LEMMA SelectCountStep ==
    ASSUME IInv, NEW c \in Readers, SelectCount(c) PROVE IInv'
<1> DEFINE n == Count(call[c].query)
           d == [call[c] EXCEPT !.pc = "select", !.total = n]
<1>1. n \in Nat
  BY CountType DEF IInv
<1>2. Become(c, d) /\ UnchangedTables /\ walk' = walk
  BY DEF SelectCount
<1>3. call[c] \in Call
  BY DEF IInv, TypeOK
<1> HIDE DEF n
<1>4. d \in Call /\ d.pc = "select" /\ d.total = n /\ d.query = call[c].query
  BY <1>1, <1>3 DEF Call
<1> HIDE DEF d
<1>5. Consistent(d)
  BY <1>4 DEF Consistent, n
<1>6. walk' \in [Readers -> WalkHistory]
  BY <1>2 DEF IInv, TypeOK
<1> QED
  BY <1>2, <1>4, <1>5, <1>6, ReadStep

\* The first page of a walk, and those that follow, leave a history.
LEMMA WalkType ==
    ASSUME TypeOK, NEW w \in WalkHistory, NEW q PROVE Walk(w, q) \in WalkHistory
<1> DEFINE base == {p.id : p \in Matching(q)}
           distinct == DistinctKeys(q)
<1>1. base \in SUBSET ProductIds
  BY DEF TypeOK, Matching, Product
<1>2. distinct \in BOOLEAN
  BY DEF DistinctKeys
<1>3. Walk(w, q) = IF ~w.active THEN w
                   ELSE IF q.page = 1
                        THEN [w EXCEPT !.base = base, !.writes = {}, !.distinct = distinct]
                        ELSE [w EXCEPT !.distinct = @ /\ distinct]
  BY DEF Walk
<1> HIDE DEF base, distinct
<1> QED
  BY <1>1, <1>2, <1>3 DEF WalkHistory

LEMMA SelectPageStep ==
    ASSUME IInv, NEW c \in Readers, SelectPage(c) PROVE IInv'
<1> DEFINE q == call[c].query
           m == Count(q)
           n == PageLength(m, q)
<1>1. /\ call[c].pc = "select" /\ Offset(q) >= 0 /\ q.pageSize >= 0
      /\ walk' = [walk EXCEPT ![c] = Walk(walk[c], q)]
      /\ UnchangedTables
  BY DEF SelectPage
<1>2. PICK s \in Sorted(q) :
        Become(c, [call[c] EXCEPT !.pc = "rows", !.rows = [i \in 1..n |-> s[Offset(q) + i].id]])
  BY DEF SelectPage
<1>3. call[c] \in Call /\ q \in Query /\ Consistent(call[c])
  BY DEF IInv, TypeOK, CallsConsistent, Call
<1>4. m \in Nat
  BY CountType DEF IInv
<1>5. n \in Nat /\ \A i \in 1..n : Offset(q) + i \in 1..m
  BY <1>1, <1>3, <1>4, PageType
<1>6. s \in [1..m -> products]
  BY <1>2 DEF Sorted, Count, Matching
<1> DEFINE page == [i \in 1..n |-> s[Offset(q) + i].id]
           d == [call[c] EXCEPT !.pc = "rows", !.rows = page]
<1> HIDE DEF m, n
<1>7. page \in Seq(ProductIds) /\ Len(page) = n
  <2>1. \A i \in 1..n : s[Offset(q) + i].id \in ProductIds
    BY <1>5, <1>6 DEF IInv, TypeOK, Product
  <2> QED
    BY <1>5, <2>1
<1>8. Become(c, d)
  BY <1>2
<1> HIDE DEF page
<1>9. /\ d \in Call /\ d.pc = "rows" /\ d.rows = page
      /\ d.query = q /\ d.total = call[c].total /\ d.stale = call[c].stale
  BY <1>3, <1>7 DEF Call
<1> HIDE DEF d, q
<1>10. Consistent(d)
  <2>1. call[c].stale \/ call[c].total = m
    BY <1>1, <1>3 DEF Consistent, m, q
  <2>2. d.stale \/ Len(d.rows) = PageLength(d.total, d.query)
    BY <1>7, <1>9, <2>1 DEF n
  <2> QED
    BY <1>1, <1>9, <2>2 DEF Consistent
<1>11. walk' \in [Readers -> WalkHistory]
  <2>1. Walk(walk[c], q) \in WalkHistory
    BY WalkType DEF IInv, TypeOK
  <2> QED
    BY <1>1, <2>1 DEF IInv, TypeOK
<1> QED
  BY <1>1, <1>8, <1>9, <1>10, <1>11, ReadStep

LEMMA FetchRowStep ==
    ASSUME IInv, NEW c \in Readers, FetchRow(c) PROVE IInv'
<1> DEFINE d == [call[c] EXCEPT !.fetched = @ + 1]
<1>1. /\ call[c].pc = "rows" /\ Become(c, d) /\ UnchangedTables /\ walk' = walk
  BY DEF FetchRow
<1>2. call[c] \in Call /\ Consistent(call[c])
  BY DEF IInv, TypeOK, CallsConsistent
<1>3. /\ d \in Call /\ d.pc = "rows" /\ d.rows = call[c].rows
      /\ d.query = call[c].query /\ d.total = call[c].total /\ d.stale = call[c].stale
  BY <1>1, <1>2 DEF Call
<1> HIDE DEF d
<1>4. Consistent(d)
  BY <1>1, <1>2, <1>3 DEF Consistent
<1>5. walk' \in [Readers -> WalkHistory]
  BY <1>1 DEF IInv, TypeOK
<1> QED
  BY <1>1, <1>3, <1>4, <1>5, ReadStep

\* Only a page whose rows have all been fetched is returned.
LEMMA RowsEndStep ==
    ASSUME IInv, NEW c \in Readers, RowsEnd(c) PROVE IInv'
<1> DEFINE d == [call[c] EXCEPT !.pc = "done"]
           page == {call[c].rows[i] : i \in 1..call[c].fetched}
<1>1. /\ call[c].pc = "rows" /\ call[c].fetched = Len(call[c].rows)
      /\ Become(c, d) /\ UnchangedTables
      /\ walk' = IF walk[c].active
                 THEN [walk EXCEPT ![c].seen = @ \union page,
                                   ![c].repeated = @ \/ page \intersect walk[c].seen # {}]
                 ELSE walk
  BY DEF RowsEnd, Return
<1>2. call[c] \in Call /\ walk[c] \in WalkHistory /\ Consistent(call[c])
  BY DEF IInv, TypeOK, CallsConsistent
<1>3. /\ d \in Call /\ d.pc = "done" /\ d.rows = call[c].rows /\ d.fetched = call[c].fetched
      /\ d.query = call[c].query /\ d.total = call[c].total /\ d.stale = call[c].stale
  BY <1>2 DEF Call
<1>4. page \in SUBSET ProductIds
  <2>1. \A i \in 1..Len(call[c].rows) : call[c].rows[i] \in ProductIds
    BY <1>2 DEF Call
  <2> QED
    BY <1>1, <2>1
<1> HIDE DEF d, page
<1>5. Consistent(d)
  BY <1>1, <1>2, <1>3 DEF Consistent
<1>6. walk' \in [Readers -> WalkHistory]
  <2> DEFINE again == walk[c].repeated \/ page \intersect walk[c].seen # {}
             w == [walk[c] EXCEPT !.seen = @ \union page, !.repeated = again]
  <2>1. again \in BOOLEAN
    BY <1>2 DEF WalkHistory
  <2>2. walk' = IF walk[c].active THEN [walk EXCEPT ![c] = w] ELSE walk
    BY <1>1 DEF IInv, TypeOK
  <2> HIDE DEF again
  <2>3. w \in WalkHistory
    BY <1>2, <1>4, <2>1 DEF WalkHistory
  <2> QED
    BY <2>2, <2>3 DEF IInv, TypeOK
<1> QED
  BY <1>1, <1>3, <1>5, <1>6, ReadStep

LEMMA NextPageStep ==
    ASSUME IInv, NEW c \in Readers, NextPage(c) PROVE IInv'
<1> DEFINE q == [call[c].query EXCEPT !.page = @ + 1]
           d == [Idle EXCEPT !.pc = "count", !.query = q]
<1>1. UnchangedTables /\ walk' = walk
  BY DEF NextPage
<1>2. call[c].query \in Query
  BY DEF IInv, TypeOK, Call
<1>3. q \in Query
  BY <1>2 DEF Query
<1>4. Become(c, d)
  BY DEF NextPage
<1> HIDE DEF q
<1>5. d \in Call /\ d.pc = "count"
  BY <1>3, IdleType DEF Call, Idle
<1> HIDE DEF d
<1>6. Consistent(d) /\ walk' \in [Readers -> WalkHistory]
  BY <1>1, <1>5 DEF Consistent, IInv, TypeOK
<1> QED
  BY <1>1, <1>4, <1>5, <1>6, ReadStep

-----------------------------------------------------------------------------
(* The inductive invariant                                                  *)

LEMMA InitInvariant == Init => IInv
<1> SUFFICES ASSUME Init PROVE IInv
  OBVIOUS
<1>1. TypeOK
  BY IdleType, FS_EmptySet, CatalogAssumption DEF Init, TypeOK
<1>2. CallsConsistent
  BY DEF Init, CallsConsistent, Consistent, Idle
<1> QED
  BY <1>1, <1>2 DEF Init, IInv, TablesConsistent, DeletedStaysDeleted

\* Every operation of the repositories preserves the invariant.
LEMMA NextInvariant == IInv /\ [Next]_vars => IInv'
<1> SUFFICES ASSUME IInv, [Next]_vars PROVE IInv'
  OBVIOUS
<1>1. CASE Write
  <2>1. ASSUME NEW k \in CategoryIds, NEW n \in CategoryNames, CreateCategory(k, n) PROVE IInv'
    BY <2>1, CreateCategoryStep
  <2>2. ASSUME NEW id \in ProductIds, NEW k \in CategoryIds, NEW x \in Texts,
               NEW p \in Prices, NEW t \in 0..now,
               CreateProduct(id, k, x, p, t) \/ UpdateProduct(id, k, x, p, t)
        PROVE  IInv'
    BY <2>2, CreateProductStep, UpdateProductStep
  <2>3. ASSUME NEW id \in ProductIds, DeleteProduct(id) PROVE IInv'
    BY <2>3, DeleteProductStep
  <2> QED
    BY <1>1, <2>1, <2>2, <2>3 DEF Write
<1>2. ASSUME NEW c \in Readers, Read(c) PROVE IInv'
  <2>1. ASSUME NEW page \in Pages, NEW size \in Sizes, NEW k \in {All} \union CategoryIds,
               NEW by, NEW order, List(c, k, by, order, page, size)
        PROVE  IInv'
    BY <1>2, <2>1, ListStep
  <2>2. ASSUME NEW page \in Pages, NEW size \in Sizes, NEW x \in {All} \union Texts,
               Search(c, x, page, size)
        PROVE  IInv'
    BY <1>2, <2>2, SearchStep
  <2>3. CASE SelectCount(c)
    BY <1>2, <2>3, SelectCountStep
  <2>4. CASE SelectPage(c)
    BY <1>2, <2>4, SelectPageStep
  <2>5. CASE SelectRejected(c) \/ ListFails(c) \/ Leave(c)
    BY <1>2, <2>5, ResetStep DEF SelectRejected, ListFails, Leave
  <2>6. CASE FetchRow(c)
    BY <1>2, <2>6, FetchRowStep
  <2>7. CASE RowsEnd(c)
    BY <1>2, <2>7, RowsEndStep
  <2>8. CASE NextPage(c)
    BY <1>2, <2>8, NextPageStep
  <2> QED
    BY <1>2, <2>1, <2>2, <2>3, <2>4, <2>5, <2>6, <2>7, <2>8 DEF Read
<1>3. CASE Tick
  BY <1>3, TickStep
<1>4. CASE UNCHANGED vars
  <2>1. UNCHANGED <<now, categories, products, born, deleted, call, walk>>
    BY <1>4 DEF vars
  <2>2. TypeOK' /\ TablesConsistent' /\ DeletedStaysDeleted'
    BY <2>1 DEF IInv, TypeOK, TablesConsistent, HasCategory, DeletedStaysDeleted, RowsWithID
  <2>3. CallsConsistent'
    BY <2>1 DEF IInv, CallsConsistent, Consistent, Count, Matching
  <2>4. \A q \in products' : q.created_at <= Stored(now)'
    BY <2>1 DEF IInv, Stored
  <2> QED
    BY <2>2, <2>3, <2>4 DEF IInv
<1> QED
  BY <1>1, <1>2, <1>3, <1>4 DEF Next

\* The tables' constraints, and what a call knows of its result, hold in every
\* reachable state (product_repository.go:47-314).
THEOREM Invariant == Spec => []IInv
BY InitInvariant, NextInvariant, PTL DEF Spec

\* A deleted product stays deleted, whichever Updates were on their way
\* (product_repository.go:75-131).
THEOREM DeleteIsFinal == Spec => []DeletedStaysDeleted
<1>1. IInv => DeletedStaysDeleted
  BY DEF IInv
<1> QED
  BY <1>1, Invariant, PTL

\* A page and the total returned with it agree unless a write came between the
\* two statements (product_repository.go:194-246).
THEOREM PagesAgree == Spec => []PageAgreesWithTotal
<1>1. IInv => PageAgreesWithTotal
  <2> SUFFICES ASSUME IInv, NEW c \in Readers, call[c].pc = "done"
               PROVE  /\ Offset(call[c].query) >= 0
                      /\ ~call[c].stale =>
                            call[c].fetched = PageLength(call[c].total, call[c].query)
    BY DEF PageAgreesWithTotal
  <2> QED
    BY DEF IInv, CallsConsistent, Consistent
<1> QED
  BY <1>1, Invariant, PTL

-----------------------------------------------------------------------------
(* Times                                                                    *)

LEMMA UpdatedAtStep ==
    ASSUME ZoneOffset <= 0, IInv, UpdatedNotBeforeCreated, [Next]_vars
    PROVE  UpdatedNotBeforeCreated'
<1> USE DEF UpdatedNotBeforeCreated
<1>1. CASE UNCHANGED products
  BY <1>1
<1>2. ASSUME NEW id \in ProductIds, NEW k \in CategoryIds, NEW x \in Texts,
             NEW p \in Prices, NEW t \in 0..now, CreateProduct(id, k, x, p, t)
      PROVE  UpdatedNotBeforeCreated'
  <2>1. Stored(t) \in Int
    BY <1>2, StoredType DEF IInv, TypeOK
  <2> QED
    BY <1>2, <2>1 DEF CreateProduct
<1>3. ASSUME NEW id \in ProductIds, NEW k \in CategoryIds, NEW x \in Texts,
             NEW p \in Prices, NEW t \in 0..now, UpdateProduct(id, k, x, p, t)
      PROVE  UpdatedNotBeforeCreated'
  <2>1. Decimal(p) \in Nat /\ now \in Int
    BY <1>3, DecimalType, CatalogAssumption DEF UpdateProduct, Admissible, IInv, TypeOK
  <2>2. ASSUME NEW q \in products' PROVE q.updated_at >= q.created_at
    <3>1. PICK o \in products : q = Overwritten(o, id, k, x, Decimal(p), now)
      BY <1>3 DEF UpdateProduct, Updated, TriggeredUpdatedAt
    <3>2. o \in Product /\ o.created_at \in Int
      BY DEF IInv, TypeOK, Product
    <3>3. /\ q.created_at = o.created_at
          /\ o.id = id => q.updated_at = now
          /\ o.id # id => q = o
      BY <1>3, <2>1, <3>1, <3>2, OverwrittenRow
    <3>4. o.created_at <= now
      BY <2>1, <3>2, CatalogAssumption DEF IInv, Stored
    <3> QED
      BY <3>3, <3>4
  <2> QED
    BY <2>2
<1>4. ASSUME NEW id \in ProductIds, DeleteProduct(id) PROVE UpdatedNotBeforeCreated'
  BY <1>4 DEF DeleteProduct
<1>5. ASSUME NEW c \in Readers, Read(c) PROVE UNCHANGED products
  BY <1>5 DEF Read, List, Search, Begin, SelectCount, SelectPage, SelectRejected, FetchRow,
     RowsEnd, Return, ListFails, NextPage, Leave, UnchangedTables
<1> QED
  BY <1>1, <1>2, <1>3, <1>4, <1>5 DEF Next, Write, Tick, CreateCategory, vars

\* No update is dated before the creation, however old the caller's updated_at,
\* if the server's zone is not east of the database's (00008:4-21).
THEOREM UpdatesAfterCreation ==
    ASSUME ZoneOffset <= 0
    PROVE  Spec => []UpdatedNotBeforeCreated
<1>1. Init => UpdatedNotBeforeCreated
  BY DEF Init, UpdatedNotBeforeCreated
<1>2. IInv /\ UpdatedNotBeforeCreated /\ [Next]_vars => UpdatedNotBeforeCreated'
  BY UpdatedAtStep
<1> QED
  BY <1>1, <1>2, Invariant, PTL DEF Spec
=============================================================================
