-------------------------- MODULE ProductPagesProofs --------------------------
(***************************************************************************)
(* Why turning pages works: a reader that goes from page to page by OFFSET *)
(* misses nothing while others only insert, and meets nothing twice while  *)
(* they only delete.  For any products, queries, page sizes and readers.   *)
(***************************************************************************)
EXTENDS ProductCatalogProofs

-----------------------------------------------------------------------------
(* The order of a listing                                                   *)

\* Keys are numbers, and a row is on a par with itself.
LEMMA Keys ==
    ASSUME TypeOK, NEW q \in Query, NEW x \in products
    PROVE  x[q.sortBy] \in Int /\ Precedes(x, x, q)
<1>1. x \in Product /\ q.sortBy \in {"price", "created_at"}
  BY DEF TypeOK, Query, Columns
<1>2. x["price"] \in Int /\ x["created_at"] \in Int
  BY <1>1 DEF Product
<1>3. x[q.sortBy] \in Int
  BY <1>1, <1>2
<1> QED
  BY <1>3 DEF Precedes

\* What comes up to a row is finite, so that its place is a number.
LEMMA RankType ==
    ASSUME TypeOK, NEW q, NEW y
    PROVE  IsFiniteSet(UpTo(y, q)) /\ Rank(y, q) \in Nat
<1> DEFINE S == {z \in Matching(q) : Precedes(z, y, q)}
           f == [x \in S |-> x.id]
<1>1. S \subseteq products
  BY DEF Matching
<1>2. IsFiniteSet(S)
  BY <1>1, FS_Subset DEF TypeOK
<1>3. f \in Surjection(S, UpTo(y, q))
  BY DEF UpTo, Surjection
<1>4. IsFiniteSet(UpTo(y, q))
  BY <1>2, <1>3, FS_Surjection
<1> QED
  BY <1>4, FS_CardinalityType DEF Rank

\* The same of the row's place after a step.
LEMMA NextRankType ==
    ASSUME TypeOK', NEW q, NEW y
    PROVE  IsFiniteSet(UpTo(y, q)') /\ Rank(y, q)' \in Nat
<1> DEFINE S == {z \in Matching(q)' : Precedes(z, y, q)}
           f == [x \in S |-> x.id]
<1>1. S \subseteq products'
  BY DEF Matching
<1>2. IsFiniteSet(S)
  BY <1>1, FS_Subset DEF TypeOK
<1>3. f \in Surjection(S, UpTo(y, q)')
  BY DEF UpTo, Surjection
<1>4. IsFiniteSet(UpTo(y, q)')
  BY <1>2, <1>3, FS_Surjection
<1> QED
  BY <1>4, FS_CardinalityType DEF Rank

\* When keys differ, the i-th row of a listing is in place i, and every row that
\* matches is listed.
LEMMA RankOfSorted ==
    ASSUME TypeOK, TablesConsistent, NEW q \in Query, DistinctKeys(q), NEW s \in Sorted(q)
    PROVE  /\ \A i \in 1..Count(q) : s[i] \in Matching(q) /\ Rank(s[i], q) = i
           /\ \A y \in Matching(q) : \E i \in 1..Count(q) : s[i] = y
<1> DEFINE M == Matching(q)
           n == Count(q)
<1>1. M \subseteq products /\ IsFiniteSet(M)
  <2>1. M \subseteq products
    BY DEF Matching
  <2> QED
    BY <2>1, FS_Subset DEF TypeOK
<1>2. n \in Nat /\ n = Cardinality(M)
  BY CountType DEF Count
<1>3. /\ s \in [1..n -> M]
      /\ \A i, j \in 1..n : i < j => s[i] # s[j] /\ Precedes(s[i], s[j], q)
  BY DEF Sorted, Count
<1> HIDE DEF n, M
<1>4. s \in Surjection(1..n, M)
  <2>1. \A i, j \in 1..n : s[i] = s[j] => i = j
    BY <1>2, <1>3
  <2>2. s \in Injection(1..n, M)
    BY <1>3, <2>1 DEF Injection, IsInjective
  <2>3. Cardinality(1..n) = n
    BY <1>2, FS_Interval
  <2> QED
    BY <1>1, <1>2, <2>2, <2>3, FS_Injection
<1>5. \A y \in M : \E i \in 1..n : s[i] = y
  BY <1>4 DEF Surjection
<1>6. ASSUME NEW i \in 1..n PROVE Rank(s[i], q) = i
  <2>1. UpTo(s[i], q) = {s[j].id : j \in 1..i}
    <3>1. ASSUME NEW j \in 1..i PROVE s[j] \in M /\ Precedes(s[j], s[i], q)
      <4>1. s[i] \in products /\ s[j] \in M /\ i \in Nat /\ j \in Nat /\ j \in 1..n /\ j <= i
        BY <1>1, <1>2, <1>3
      <4>2. CASE j = i
        BY <4>1, <4>2, Keys
      <4>3. CASE j < i
        BY <1>3, <4>1, <4>3
      <4> QED
        BY <4>1, <4>2, <4>3
    <3>2. ASSUME NEW x \in M, Precedes(x, s[i], q) PROVE \E j \in 1..i : x = s[j]
      <4>1. PICK j \in 1..n : x = s[j]
        BY <1>5
      <4>2. ASSUME j > i PROVE FALSE
        <5>1. Precedes(s[i], x, q) /\ s[i] # x
          BY <1>2, <1>3, <4>1, <4>2
        <5>2. x[q.sortBy] \in Int /\ s[i][q.sortBy] \in Int /\ s[i] \in M
          BY <1>1, <1>3, Keys
        <5>3. x[q.sortBy] = s[i][q.sortBy]
          BY <3>2, <5>1, <5>2 DEF Precedes
        <5> QED
          BY <5>1, <5>2, <5>3 DEF DistinctKeys, M
      <4> QED
        BY <1>2, <4>1, <4>2
    <3> QED
      BY <3>1, <3>2 DEF UpTo, M
  <2> DEFINE f == [j \in 1..i |-> s[j].id]
  <2>2. f \in Bijection(1..i, UpTo(s[i], q))
    <3>1. \A j \in 1..i : j \in 1..n /\ s[j] \in products
      BY <1>1, <1>2, <1>3
    <3>2. ASSUME NEW j \in 1..i, NEW k \in 1..i, s[j].id = s[k].id PROVE j = k
      <4>1. s[j] = s[k]
        BY <3>1, <3>2 DEF TablesConsistent
      <4> QED
        BY <1>2, <1>3, <3>1, <4>1
    <3>3. f \in Injection(1..i, UpTo(s[i], q))
      BY <2>1, <3>2 DEF Injection, IsInjective
    <3>4. f \in Surjection(1..i, UpTo(s[i], q))
      BY <2>1 DEF Surjection
    <3> QED
      BY <3>3, <3>4 DEF Bijection
  <2>3. i \in Nat
    BY <1>2
  <2>4. ExistsBijection(1..i, UpTo(s[i], q))
    BY <2>2 DEF ExistsBijection
  <2> QED
    BY <2>3, <2>4, FS_CountingElements DEF Rank
<1> QED
  BY <1>3, <1>5, <1>6 DEF M, n

-----------------------------------------------------------------------------
(* What writes do to the order                                              *)

\* An insertion moves no row nearer to the front.
LEMMA InsertRanks ==
    ASSUME TypeOK, TypeOK', products \subseteq products', NEW q,
           NEW y \in Matching(q)
    PROVE  y \in Matching(q)' /\ Rank(y, q)' >= Rank(y, q)
<1>1. Matching(q) \subseteq Matching(q)'
  BY DEF Matching
<1>2. UpTo(y, q) \subseteq UpTo(y, q)'
  BY <1>1 DEF UpTo
<1> QED
  BY <1>1, <1>2, NextRankType, FS_Subset DEF Rank

\* A deletion moves no row that stays further from it.
LEMMA DeleteRanks ==
    ASSUME TypeOK, products' \subseteq products, NEW q, NEW y \in Matching(q)'
    PROVE  y \in Matching(q) /\ Rank(y, q)' <= Rank(y, q)
<1>1. Matching(q)' \subseteq Matching(q)
  BY DEF Matching
<1>2. UpTo(y, q)' \subseteq UpTo(y, q)
  BY <1>1 DEF UpTo
<1> QED
  BY <1>1, <1>2, RankType, FS_Subset DEF Rank

\* An update leaves a listing of all products by date of creation as it is.
LEMMA UpdateRanks ==
    ASSUME IInv, NEW id \in ProductIds, NEW k \in CategoryIds, NEW x \in Texts,
           NEW p \in Prices, NEW t \in 0..now, UpdateProduct(id, k, x, p, t),
           NEW q, q.filter = All, q.sortBy = "created_at"
    PROVE  /\ \A y \in Matching(q) : \E z \in Matching(q)' :
                z.id = y.id /\ Rank(z, q)' = Rank(y, q)
           /\ \A z \in Matching(q)' : \E y \in Matching(q) :
                z.id = y.id /\ Rank(z, q)' = Rank(y, q)
<1>0. PICK u : u = now
  OBVIOUS
<1> DEFINE N(o) == Overwritten(o, id, k, x, Decimal(p), u)
<1>1. products' = {N(o) : o \in products}
  BY <1>0 DEF UpdateProduct, TriggeredUpdatedAt, Updated
<1>2. ASSUME NEW o \in products
      PROVE  N(o).id = o.id /\ N(o)["created_at"] = o["created_at"]
  <2>1. Decimal(p) \in Nat /\ u \in Int /\ o \in Product
    BY <1>0, DecimalType, CatalogAssumption DEF UpdateProduct, Admissible, IInv, TypeOK
  <2> QED
    BY <2>1, OverwrittenRow
<1> HIDE DEF N
<1>3. Matching(q) = products /\ Matching(q)' = products'
  BY DEF Matching
<1>4. ASSUME NEW y \in products PROVE Rank(N(y), q)' = Rank(y, q)
  <2>1. ASSUME NEW o \in products PROVE Precedes(N(o), N(y), q) <=> Precedes(o, y, q)
    BY <1>2 DEF Precedes
  <2>2. UpTo(N(y), q)' = {o.id : o \in {z \in products : Precedes(z, y, q)}}
    <3>1. UpTo(N(y), q)' = {o.id : o \in {z \in products' : Precedes(z, N(y), q)}}
      BY <1>3 DEF UpTo
    <3>2. {z \in products' : Precedes(z, N(y), q)}
            = {N(o) : o \in {z \in products : Precedes(z, y, q)}}
      BY <1>1, <2>1
    <3> QED
      BY <1>2, <3>1, <3>2
  <2>3. UpTo(N(y), q)' = UpTo(y, q)
    BY <1>3, <2>2 DEF UpTo
  <2> QED
    BY <2>3 DEF Rank
<1> QED
  BY <1>1, <1>2, <1>3, <1>4

\* A write keeps a walk in order if it keeps the places of the rows in order.
LEMMA WriteKeepsOrder ==
    ASSUME TypeOK, TypeOK', NEW d, NEW w, NEW e, NEW v, NEW kind,
           d.query \in Query, InOrder(d, w),
           e.pc = d.pc, e.query = d.query, e.rows = d.rows,
           v.base = w.base, v.seen = w.seen, v.repeated = w.repeated,
           v.distinct = w.distinct, v.writes = w.writes \union {kind},
           Amid(e, v, "insert") =>
             \A y \in Matching(d.query) : \E z \in Matching(d.query)' :
               z.id = y.id /\ Rank(z, d.query)' >= Rank(y, d.query),
           Amid(e, v, "delete") =>
             \A z \in Matching(d.query)' : \E y \in Matching(d.query) :
               z.id = y.id /\ Rank(z, d.query)' <= Rank(y, d.query)
    PROVE  InOrder(e, v)'
<1> DEFINE q == d.query
<1>1. /\ Shown(e, v) = Shown(d, w) /\ Covered(e) = Covered(d) /\ Page(e) = Page(d)
      /\ Shown(e, v)' = Shown(d, w) /\ Covered(e)' = Covered(d)
  BY DEF Shown, Covered, Page, Offset
<1>2. Covered(d) \in Int
  BY DEF Covered, Offset, Query
<1>3. \A y : Rank(y, q) \in Int
  BY RankType
<1>4. \A y : Rank(y, q)' \in Int
  BY NextRankType
<1>5. ASSUME Amid(e, v, "insert")' PROVE NothingBehind(e, v)'
  <2>1. Amid(e, v, "insert") /\ NothingBehind(d, w)
    BY <1>5 DEF InOrder, Amid
  <2>2. ASSUME NEW id \in v.base \ Shown(d, w)
        PROVE  \E z \in Matching(q)' : z.id = id /\ Rank(z, q)' > Covered(d)
    <3>1. PICK y \in Matching(q) : y.id = id /\ Rank(y, q) > Covered(d)
      BY <2>1, <2>2 DEF NothingBehind
    <3>2. PICK z \in Matching(q)' : z.id = y.id /\ Rank(z, q)' >= Rank(y, q)
      BY <2>1
    <3> QED
      BY <1>2, <1>3, <1>4, <3>1, <3>2
  <2> QED
    BY <1>1, <2>1, <2>2 DEF NothingBehind
<1>6. ASSUME Amid(e, v, "delete")' PROVE NothingAhead(e, v)'
  <2>1. Amid(e, v, "delete") /\ NothingAhead(d, w)
    BY <1>6 DEF InOrder, Amid
  <2>2. ASSUME NEW z \in Matching(q)', z.id \in Shown(d, w)
        PROVE  Rank(z, q)' <= Covered(d)
    <3>1. PICK y \in Matching(q) : z.id = y.id /\ Rank(z, q)' <= Rank(y, q)
      BY <2>1
    <3>2. Rank(y, q) <= Covered(d)
      BY <2>1, <2>2, <3>1 DEF NothingAhead
    <3> QED
      BY <1>2, <1>3, <1>4, <3>1, <3>2
  <2> QED
    BY <1>1, <2>1, <2>2 DEF NothingAhead, Page
<1> QED
  BY <1>5, <1>6 DEF InOrder

\* The order of a walk depends on nothing but the products.
LEMMA OrderKept ==
    ASSUME NEW d, NEW w, InOrder(d, w), UNCHANGED products
    PROVE  InOrder(d, w)'
<1> DEFINE q == d.query
<1>1. Matching(q)' = Matching(q)
  BY DEF Matching
<1>2. ASSUME NEW y PROVE Rank(y, q)' = Rank(y, q)
  BY <1>1 DEF Rank, UpTo
<1>3. NothingBehind(d, w) => NothingBehind(d, w)'
  BY <1>1, <1>2 DEF NothingBehind, Shown, Covered, Page, Offset
<1>4. NothingAhead(d, w) => NothingAhead(d, w)'
  BY <1>1, <1>2 DEF NothingAhead, Shown, Covered, Page, Offset
<1> QED
  BY <1>3, <1>4 DEF InOrder, Amid

\* What a write leaves of the call and of the history of a walk.
LEMMA WalkAfterWrite ==
    ASSUME TypeOK, NEW kind \in {"insert", "update", "delete"}, Note(kind),
           products' # products, NEW c \in Readers, walk'[c].active
    PROVE  /\ walk[c].active
           /\ call'[c].pc = call[c].pc /\ call'[c].query = call[c].query
           /\ call'[c].rows = call[c].rows
           /\ walk'[c].base = walk[c].base /\ walk'[c].seen = walk[c].seen
           /\ walk'[c].repeated = walk[c].repeated /\ walk'[c].distinct = walk[c].distinct
           /\ walk'[c].writes = walk[c].writes \union {kind}
<1> DEFINE s == call[c].stale \/ call[c].pc = "select"
<1>1. call[c] \in Call /\ walk[c] \in WalkHistory
  BY DEF TypeOK
<1>2. call'[c] = [call[c] EXCEPT !.stale = s]
  BY DEF Note
<1>3. walk'[c] = IF walk[c].active THEN [walk[c] EXCEPT !.writes = @ \union {kind}] ELSE walk[c]
  BY DEF Note
<1>4. walk[c].active
  BY <1>3
<1> HIDE DEF s
<1> QED
  BY <1>1, <1>2, <1>3, <1>4 DEF Call, WalkHistory

\* A write keeps every walk in order, given what it does to the places of rows.
LEMMA WritePages ==
    ASSUME TypeOK, TypeOK', PagesInv, NEW kind \in {"insert", "update", "delete"}, Note(kind),
           ASSUME NEW q \in Query,
                  kind = "update" => q.filter = All /\ q.sortBy = "created_at"
           PROVE  /\ kind # "delete" =>
                       \A y \in Matching(q) : \E z \in Matching(q)' :
                         z.id = y.id /\ Rank(z, q)' >= Rank(y, q)
                  /\ kind # "insert" =>
                       \A z \in Matching(q)' : \E y \in Matching(q) :
                         z.id = y.id /\ Rank(z, q)' <= Rank(y, q)
    PROVE  PagesInv'
<1>1. ASSUME NEW c \in Readers, walk'[c].active, products' # products
      PROVE  InOrder(call[c], walk[c])'
  <2>1. PICK d, w, e, v : d = call[c] /\ w = walk[c] /\ e = call'[c] /\ v = walk'[c]
    OBVIOUS
  <2>2. /\ w.active
        /\ e.pc = d.pc /\ e.query = d.query /\ e.rows = d.rows
        /\ v.base = w.base /\ v.seen = w.seen /\ v.repeated = w.repeated
        /\ v.distinct = w.distinct /\ v.writes = w.writes \union {kind}
    BY <1>1, <2>1, WalkAfterWrite
  <2>3. InOrder(d, w)
    BY <2>1, <2>2 DEF PagesInv
  <2>4. d.query \in Query
    BY <2>1 DEF TypeOK, Call
  <2>5. \A k \in {"insert", "delete"} : Amid(e, v, k) =>
           /\ kind = k \/ kind = "update"
           /\ kind = "update" => d.query.filter = All /\ d.query.sortBy = "created_at"
    BY <2>2 DEF Amid
  <2>6. InOrder(e, v)'
    <3>1. Amid(e, v, "insert") =>
             \A y \in Matching(d.query) : \E z \in Matching(d.query)' :
               z.id = y.id /\ Rank(z, d.query)' >= Rank(y, d.query)
      BY <2>4, <2>5
    <3>2. Amid(e, v, "delete") =>
             \A z \in Matching(d.query)' : \E y \in Matching(d.query) :
               z.id = y.id /\ Rank(z, d.query)' <= Rank(y, d.query)
      BY <2>4, <2>5
    <3> QED
      BY <2>2, <2>3, <2>4, <3>1, <3>2, WriteKeepsOrder
  <2> QED
    BY <2>1, <2>6, Zenon
<1>2. ASSUME NEW c \in Readers, walk'[c].active, products' = products
      PROVE  InOrder(call[c], walk[c])'
  <2>1. PICK d, w : d = call[c] /\ w = walk[c]
    OBVIOUS
  <2>2. UNCHANGED <<products, call, walk>>
    BY <1>2 DEF Note
  <2>3. InOrder(d, w)
    BY <1>2, <2>1, <2>2 DEF PagesInv
  <2>4. InOrder(d, w)'
    BY <2>2, <2>3, OrderKept
  <2> QED
    BY <2>1, <2>2, <2>4, Zenon
<1> QED
  BY <1>1, <1>2 DEF PagesInv

\* Whatever is inserted, updated or deleted, walks stay in order.
LEMMA CreatePages ==
    ASSUME IInv, PagesInv, NEW id \in ProductIds, NEW k \in CategoryIds, NEW x \in Texts,
           NEW p \in Prices, NEW t \in 0..now, CreateProduct(id, k, x, p, t)
    PROVE  PagesInv'
<1>1. TypeOK /\ TypeOK'
  BY CreateProductStep DEF IInv
<1>2. products \subseteq products' /\ Note("insert")
  BY DEF CreateProduct
<1>3. ASSUME NEW q \in Query
      PROVE  \A y \in Matching(q) : \E z \in Matching(q)' :
                z.id = y.id /\ Rank(z, q)' >= Rank(y, q)
  BY <1>1, <1>2, InsertRanks
<1> QED
  BY <1>1, <1>2, <1>3, WritePages

LEMMA UpdatePages ==
    ASSUME IInv, PagesInv, NEW id \in ProductIds, NEW k \in CategoryIds, NEW x \in Texts,
           NEW p \in Prices, NEW t \in 0..now, UpdateProduct(id, k, x, p, t)
    PROVE  PagesInv'
<1>1. TypeOK /\ TypeOK'
  BY UpdateProductStep DEF IInv
<1>2. Note("update")
  BY DEF UpdateProduct
<1>3. ASSUME NEW q \in Query, q.filter = All, q.sortBy = "created_at"
      PROVE  /\ \A y \in Matching(q) : \E z \in Matching(q)' :
                   z.id = y.id /\ Rank(z, q)' >= Rank(y, q)
             /\ \A z \in Matching(q)' : \E y \in Matching(q) :
                   z.id = y.id /\ Rank(z, q)' <= Rank(y, q)
  <2>1. \A y : Rank(y, q) \in Int
    BY <1>1, RankType
  <2>2. /\ \A y \in Matching(q) : \E z \in Matching(q)' :
             z.id = y.id /\ Rank(z, q)' = Rank(y, q)
        /\ \A z \in Matching(q)' : \E y \in Matching(q) :
             z.id = y.id /\ Rank(z, q)' = Rank(y, q)
    BY <1>3, UpdateRanks
  <2> QED
    BY <2>1, <2>2
<1> QED
  BY <1>1, <1>2, <1>3, WritePages

LEMMA DeletePages ==
    ASSUME IInv, PagesInv, NEW id \in ProductIds, DeleteProduct(id)
    PROVE  PagesInv'
<1>1. TypeOK /\ TypeOK'
  BY DeleteProductStep DEF IInv
<1>2. products' \subseteq products /\ Note("delete")
  BY DEF DeleteProduct
<1>3. ASSUME NEW q \in Query
      PROVE  \A z \in Matching(q)' : \E y \in Matching(q) :
                z.id = y.id /\ Rank(z, q)' <= Rank(y, q)
  BY <1>1, <1>2, DeleteRanks
<1> QED
  BY <1>1, <1>2, <1>3, WritePages

-----------------------------------------------------------------------------
(* Steps of readers                                                         *)

\* A reader disturbs nobody's walk but its own.
LEMMA ReadPages ==
    ASSUME TypeOK, PagesInv, NEW c \in Readers, NEW d, NEW w,
           Become(c, d), walk' = [walk EXCEPT ![c] = w], UnchangedTables,
           w.active => InOrder(d, w)
    PROVE  PagesInv'
<1>1. UNCHANGED products /\ call' = [call EXCEPT ![c] = d]
  BY DEF UnchangedTables, Become
<1>2. ASSUME NEW b \in Readers, walk'[b].active PROVE InOrder(call[b], walk[b])'
  <2>1. PICK e, v : e = call'[b] /\ v = walk'[b]
    OBVIOUS
  <2>2. InOrder(e, v)
    BY <1>1, <1>2, <2>1 DEF PagesInv, TypeOK
  <2>3. InOrder(e, v)'
    BY <1>1, <2>2, OrderKept
  <2> QED
    BY <2>1, <2>3, Zenon
<1> QED
  BY <1>2 DEF PagesInv

\* A call that is given up takes its walk with it.
LEMMA ResetPages ==
    ASSUME TypeOK, PagesInv, NEW c \in Readers, Become(c, Idle),
           walk' = [walk EXCEPT ![c] = NoWalk], UnchangedTables
    PROVE  PagesInv'
BY ReadPages DEF NoWalk

\* A walk begins with page 1, nothing seen.
LEMMA BeginPages ==
    ASSUME TypeOK, PagesInv, NEW c \in Readers, NEW q, Begin(c, q) PROVE PagesInv'
<1> DEFINE d == [Idle EXCEPT !.pc = "count", !.query = q]
           first == q.page = 1
           w == [NoWalk EXCEPT !.active = first]
<1>1. Become(c, d) /\ walk' = [walk EXCEPT ![c] = w] /\ UnchangedTables
  BY DEF Begin
<1>2. d.pc = "count" /\ d.query = q
  BY DEF Idle
<1> HIDE DEF first
<1>3. /\ w.base = {} /\ w.seen = {} /\ w.repeated = FALSE
      /\ w.active = first
  BY DEF NoWalk
<1> HIDE DEF d, w
<1>4. ASSUME w.active PROVE InOrder(d, w)
  <2>1. q.page = 1
    BY <1>3, <1>4 DEF first
  <2>2. Shown(d, w) = {}
    BY <1>2, <1>3 DEF Shown
  <2>3. NothingBehind(d, w) /\ NothingAhead(d, w)
    BY <1>2, <1>3, <2>2 DEF NothingBehind, NothingAhead
  <2> QED
    BY <1>2, <1>3, <2>1, <2>3 DEF InOrder
<1> QED
  BY <1>1, <1>4, ReadPages

\* Counting, and fetching the rows of a page, moves no boundary.
LEMMA CountPages ==
    ASSUME TypeOK, PagesInv, NEW c \in Readers, SelectCount(c) \/ FetchRow(c)
    PROVE  PagesInv'
<1>1. PICK d, w : d = call'[c] /\ w = walk[c]
  OBVIOUS
<1>2. call[c] \in Call
  BY DEF TypeOK
<1>3. /\ call' = [call EXCEPT ![c] = d] /\ walk' = [walk EXCEPT ![c] = w] /\ UnchangedTables
      /\ d.query = call[c].query /\ d.rows = call[c].rows
      /\ \/ d.pc = "select" /\ call[c].pc = "count"
         \/ d.pc = "rows" /\ call[c].pc = "rows"
  <2>1. CASE SelectCount(c)
    <3> DEFINE n == Count(call[c].query)
    <3>1. call' = [call EXCEPT ![c] = [call[c] EXCEPT !.pc = "select", !.total = n]]
      BY <2>1 DEF SelectCount, Become
    <3>2. call[c].pc = "count" /\ walk' = walk /\ UnchangedTables
      BY <2>1 DEF SelectCount
    <3> HIDE DEF n
    <3>3. d = [call[c] EXCEPT !.pc = "select", !.total = n]
      BY <1>1, <3>1 DEF TypeOK
    <3>4. d.query = call[c].query /\ d.rows = call[c].rows /\ d.pc = "select"
      BY <1>2, <3>3 DEF Call
    <3>5. call' = [call EXCEPT ![c] = d]
      BY <3>1, <3>3
    <3>6. walk' = [walk EXCEPT ![c] = w]
      BY <1>1, <3>2 DEF TypeOK
    <3> QED
      BY <3>2, <3>4, <3>5, <3>6
  <2>2. CASE FetchRow(c)
    BY <1>1, <1>2, <2>2 DEF FetchRow, Become, TypeOK, Call
  <2> QED
    BY <2>1, <2>2
<1>4. ASSUME w.active PROVE InOrder(d, w)
  <2>1. PICK e : e = call[c]
    OBVIOUS
  <2>2. /\ d.query = e.query /\ d.rows = e.rows
        /\ \/ d.pc = "select" /\ e.pc = "count"
           \/ d.pc = "rows" /\ e.pc = "rows"
    BY <1>3, <2>1
  <2>3. InOrder(e, w)
    BY <1>1, <1>4, <2>1 DEF PagesInv
  <2>4. Shown(d, w) = Shown(e, w) /\ Covered(d) = Covered(e) /\ Page(d) = Page(e)
    BY <2>2 DEF Shown, Covered, Page
  <2>5. \A kind : Amid(d, w, kind) <=> Amid(e, w, kind)
    BY <2>2 DEF Amid
  <2>6. NothingBehind(e, w) => NothingBehind(d, w)
    BY <2>2, <2>4 DEF NothingBehind
  <2>7. NothingAhead(e, w) => NothingAhead(d, w)
    BY <2>2, <2>4 DEF NothingAhead
  <2> QED
    BY <2>2, <2>3, <2>5, <2>6, <2>7 DEF InOrder
<1>5. Become(c, d)
  BY <1>3 DEF Become
<1> QED
  BY <1>3, <1>4, <1>5, ReadPages

\* The next page takes up where the one before ended: what is on it has not been
\* shown, and what is left out of it comes after it.
LEMMA PageInOrder ==
    ASSUME TypeOK, TablesConsistent, NEW d \in Call, NEW w \in WalkHistory, NEW e, NEW v,
           d.pc = "select", InOrder(d, w), w.active,
           Offset(d.query) >= 0, d.query.pageSize >= 0,
           NEW s \in Sorted(d.query), NEW n, n = PageLength(Count(d.query), d.query),
           e.pc = "rows", e.query = d.query,
           e.rows = [i \in 1..n |-> s[Offset(d.query) + i].id],
           v = Walk(w, d.query)
    PROVE  InOrder(e, v)
<1>1. PICK q, o, m : q = d.query /\ o = Offset(q) /\ m = Count(q)
  OBVIOUS
<1>2. /\ q \in Query /\ q.page \in Int /\ q.pageSize \in Nat /\ m \in Nat
      /\ o \in Nat /\ o = (q.page - 1) * q.pageSize
  <2>1. q \in Query /\ q.page \in Int /\ q.pageSize \in Int
    BY <1>1 DEF Call, Query
  <2>2. (q.page - 1) * q.pageSize \in Int
    BY <2>1
  <2> QED
    BY <1>1, <2>1, <2>2, CountType DEF Offset
<1>3. /\ n \in 0..q.pageSize
      /\ n < q.pageSize => m <= o + n
      /\ \A i \in 1..n : o + i \in 1..m
  <2>1. n = IF m <= o THEN 0 ELSE IF m - o < q.pageSize THEN m - o ELSE q.pageSize
    BY <1>1 DEF PageLength
  <2>2. PICK z : z = q.pageSize
    OBVIOUS
  <2>3. z \in Nat /\ m \in Nat /\ o \in Nat
    BY <1>2, <2>2
  <2>4. n = IF m <= o THEN 0 ELSE IF m - o < z THEN m - o ELSE z
    BY <2>1, <2>2
  <2>5. /\ n \in 0..z
        /\ n < z => m <= o + n
        /\ \A i \in 1..n : o + i \in 1..m
    BY <2>3, <2>4
  <2> QED
    BY <2>2, <2>5
<1>4. Covered(e) = o + q.pageSize
  <2>1. Covered(e) = q.page * q.pageSize
    BY <1>1 DEF Covered
  <2> QED
    BY <1>2, <2>1
<1>5. Page(e) = {s[o + i].id : i \in 1..n} /\ Len(e.rows) = n
  BY <1>1, <1>3 DEF Page
<1>6. Shown(e, v) = w.seen \union Page(e) /\ v.seen = w.seen /\ v.repeated = w.repeated
  BY <1>1 DEF Shown, Walk, WalkHistory
<1>7. ASSUME v.distinct
      PROVE  /\ \A i \in 1..m : s[i] \in Matching(q) /\ Rank(s[i], q) = i
             /\ \A y \in Matching(q) : \E i \in 1..m : s[i] = y
  <2>1. DistinctKeys(q)
    BY <1>1, <1>7 DEF Walk, WalkHistory
  <2> QED
    BY <1>1, <1>2, <2>1, RankOfSorted
<1>8. q.page # 1 => \A kind : Amid(e, v, kind) => Amid(d, w, kind)
  BY <1>1 DEF Amid, Walk, WalkHistory
<1>9. q.page = 1 =>
         v.base = {p.id : p \in Matching(q)} /\ o = 0 /\ w.seen = {} /\ ~w.repeated
  <2>1. q.page = 1 => v.base = {p.id : p \in Matching(q)}
    BY <1>1 DEF Walk, WalkHistory
  <2>2. q.page = 1 => o = 0
    BY <1>2
  <2>3. q.page = 1 => w.seen = {} /\ ~w.repeated
    BY <1>1 DEF InOrder
  <2> QED
    BY <2>1, <2>2, <2>3
<1>10. q.page # 1 => v.base = w.base
  BY <1>1 DEF Walk, WalkHistory
<1>11. ASSUME Amid(e, v, "insert") PROVE NothingBehind(e, v)
  <2>1. v.distinct
    BY <1>11 DEF Amid
  <2>2. ASSUME NEW id \in v.base \ w.seen
        PROVE  \E i \in 1..m : s[i].id = id /\ i > o
    <3>1. CASE q.page = 1
      BY <1>2, <1>7, <1>9, <2>1, <2>2, <3>1
    <3>2. CASE q.page # 1
      <4>1. NothingBehind(d, w)
        BY <1>8, <1>11, <3>2 DEF InOrder
      <4>2. PICK y \in Matching(q) : y.id = id /\ Rank(y, q) > o
        BY <1>1, <1>10, <2>2, <3>2, <4>1 DEF NothingBehind, Shown, Covered
      <4> QED
        BY <1>7, <2>1, <4>2
    <3> QED
      BY <3>1, <3>2
  <2>3. ASSUME NEW id \in v.base \ Shown(e, v)
        PROVE  n = q.pageSize /\ \E i \in 1..m : s[i].id = id /\ i > o + q.pageSize
    <3>1. PICK i \in 1..m : s[i].id = id /\ i > o
      BY <1>6, <2>2, <2>3
    <3>2. ~(i - o \in 1..n)
      <4>1. ASSUME i - o \in 1..n PROVE FALSE
        <5>1. o + (i - o) = i
          BY <1>2
        <5>2. id \in Page(e)
          BY <1>5, <3>1, <4>1, <5>1
        <5> QED
          BY <1>6, <2>3, <5>2
      <4> QED
        BY <4>1
    <3>3. i > o + n
      BY <1>2, <1>3, <3>1, <3>2
    <3> QED
      BY <1>2, <1>3, <3>1, <3>3
  <2>4. ASSUME NEW id \in v.base \ Shown(e, v)
        PROVE  \E y \in Matching(q) : y.id = id /\ Rank(y, q) > Covered(e)
    <3>1. PICK i \in 1..m : s[i].id = id /\ i > o + q.pageSize
      BY <2>3
    <3> QED
      BY <1>4, <1>7, <2>1, <3>1
  <2> QED
    BY <1>1, <1>5, <1>2, <1>3, <2>3, <2>4 DEF NothingBehind
<1>12. ASSUME Amid(e, v, "delete") PROVE NothingAhead(e, v)
  <2>1. v.distinct
    BY <1>12 DEF Amid
  <2>2. /\ ~w.repeated
        /\ \A y \in Matching(q) : y.id \in w.seen => Rank(y, q) <= o
    <3>1. CASE q.page = 1
      BY <1>9, <3>1
    <3>2. CASE q.page # 1
      <4>1. NothingAhead(d, w)
        BY <1>8, <1>12, <3>2 DEF InOrder
      <4> QED
        BY <1>1, <4>1 DEF NothingAhead, Shown, Covered
    <3> QED
      BY <3>1, <3>2
  <2>3. ASSUME NEW i \in 1..n
        PROVE  /\ s[o + i] \in Matching(q) /\ Rank(s[o + i], q) = o + i
               /\ o + i > o /\ o + i <= o + q.pageSize
    BY <1>2, <1>3, <1>7, <2>1
  <2>4. Page(e) \intersect v.seen = {}
    <3>1. ASSUME NEW i \in 1..n, s[o + i].id \in w.seen PROVE FALSE
      <4>1. o + i > o /\ Rank(s[o + i], q) = o + i
        BY <2>3
      <4>2. Rank(s[o + i], q) <= o
        BY <2>2, <2>3, <3>1
      <4>3. o \in Int /\ o + i \in Int
        BY <1>2, <1>3
      <4> QED
        BY <4>1, <4>2, <4>3
    <3> QED
      BY <1>5, <1>6, <3>1
  <2>5. ASSUME NEW y \in Matching(q), y.id \in Shown(e, v)
        PROVE  Rank(y, q) <= Covered(e)
    <3>1. CASE y.id \in w.seen
      <4>1. Rank(y, q) <= o /\ Rank(y, q) \in Nat
        BY <2>2, <3>1, RankType
      <4> QED
        BY <1>2, <1>4, <4>1
    <3>2. CASE y.id \in Page(e)
      <4>1. PICK i \in 1..n : y.id = s[o + i].id
        BY <1>5, <3>2
      <4>2. y = s[o + i]
        BY <2>3, <4>1 DEF Matching, TablesConsistent
      <4> QED
        BY <1>4, <2>3, <4>2
    <3> QED
      BY <1>6, <2>5, <3>1, <3>2
  <2> QED
    BY <1>1, <1>6, <2>2, <2>4, <2>5 DEF NothingAhead
<1> QED
  BY <1>11, <1>12 DEF InOrder

LEMMA SelectPages ==
    ASSUME IInv, PagesInv, NEW c \in Readers, SelectPage(c) PROVE PagesInv'
<1>1. PICK d, w, q, n : /\ d = call[c] /\ w = walk[c] /\ q = d.query
                        /\ n = PageLength(Count(q), q)
  OBVIOUS
<1>2. /\ d.pc = "select" /\ Offset(q) >= 0 /\ q.pageSize >= 0
      /\ walk' = [walk EXCEPT ![c] = Walk(w, q)]
      /\ UnchangedTables
  BY <1>1 DEF SelectPage
<1>3. PICK s \in Sorted(q) :
        Become(c, [d EXCEPT !.pc = "rows", !.rows = [i \in 1..n |-> s[Offset(q) + i].id]])
  BY <1>1 DEF SelectPage
<1>4. d \in Call /\ w \in WalkHistory
  BY <1>1 DEF IInv, TypeOK
<1> DEFINE page == [i \in 1..n |-> s[Offset(q) + i].id]
           e == [d EXCEPT !.pc = "rows", !.rows = page]
           v == Walk(w, q)
<1>5. Become(c, e)
  BY <1>3
<1> HIDE DEF page
<1>6. e.pc = "rows" /\ e.query = q /\ e.rows = page
  BY <1>1, <1>4 DEF Call
<1> HIDE DEF e
<1>7. ASSUME v.active PROVE InOrder(e, v)
  <2>1. w.active
    BY <1>4, <1>7 DEF Walk, WalkHistory
  <2>2. InOrder(d, w)
    BY <1>1, <2>1 DEF PagesInv
  <2> QED
    BY <1>1, <1>2, <1>4, <1>6, <2>1, <2>2, PageInOrder DEF IInv, page
<1> HIDE DEF v
<1>8. walk' = [walk EXCEPT ![c] = v] /\ TypeOK
  BY <1>2 DEF v, IInv
<1> QED
  BY <1>2, <1>5, <1>7, <1>8, ReadPages

\* A page that is returned becomes part of what was seen.
LEMMA ReturnPages ==
    ASSUME IInv, PagesInv, NEW c \in Readers, RowsEnd(c) PROVE PagesInv'
<1>1. PICK d, w : d = call[c] /\ w = walk[c]
  OBVIOUS
<1>2. d \in Call /\ w \in WalkHistory /\ d.pc = "rows" /\ d.fetched = Len(d.rows)
  BY <1>1 DEF RowsEnd, IInv, TypeOK
<1> DEFINE page == Page(d)
           e == [d EXCEPT !.pc = "done"]
           again == w.repeated \/ page \intersect w.seen # {}
           v == IF w.active THEN [[w EXCEPT !.seen = @ \union page] EXCEPT !.repeated = again]
                ELSE w
<1>3. Become(c, e) /\ UnchangedTables
  BY <1>1 DEF RowsEnd, Return
<1>4. walk' = [walk EXCEPT ![c] = v]
  <2>1. page = {call[c].rows[i] : i \in 1..call[c].fetched}
    BY <1>1, <1>2 DEF Page
  <2>2. walk' = IF walk[c].active
                THEN [walk EXCEPT ![c].seen = @ \union page,
                                  ![c].repeated = @ \/ page \intersect walk[c].seen # {}]
                ELSE walk
    BY <2>1 DEF RowsEnd, Return
  <2> HIDE DEF page
  <2> QED
    BY <1>1, <1>2, <2>2 DEF IInv, TypeOK, WalkHistory
<1>5. e.pc = "done" /\ e.query = d.query /\ e.rows = d.rows
  BY <1>2 DEF Call
<1> HIDE DEF e, again
<1>6. ASSUME v.active PROVE InOrder(e, v)
  <2>1. /\ w.active
        /\ v.seen = w.seen \union page /\ v.repeated = again
        /\ v.base = w.base /\ v.writes = w.writes /\ v.distinct = w.distinct
    BY <1>2, <1>6 DEF WalkHistory
  <2> HIDE DEF v
  <2>2. InOrder(d, w)
    BY <1>1, <2>1 DEF PagesInv
  <2>3. Shown(e, v) = Shown(d, w) /\ Covered(e) = Covered(d)
    BY <1>2, <1>5, <2>1 DEF Shown, Covered
  <2>4. \A kind : Amid(e, v, kind) <=> Amid(d, w, kind)
    BY <1>5, <2>1 DEF Amid
  <2>5. NothingBehind(d, w) => NothingBehind(e, v)
    BY <1>2, <1>5, <2>1, <2>3 DEF NothingBehind
  <2>6. NothingAhead(d, w) => NothingAhead(e, v)
    <3>1. NothingAhead(d, w) => ~again
      BY <1>2, Zenon DEF NothingAhead, again
    <3> QED
      BY <1>2, <1>5, <2>1, <2>3, <3>1 DEF NothingAhead
  <2> QED
    BY <1>5, <2>2, <2>4, <2>5, <2>6 DEF InOrder
<1> HIDE DEF v
<1> QED
  BY <1>3, <1>4, <1>6, ReadPages DEF IInv

\* The next page begins where this one ended.
LEMMA TurnPages ==
    ASSUME IInv, PagesInv, NEW c \in Readers, NextPage(c) PROVE PagesInv'
<1>1. PICK d, w : d = call[c] /\ w = walk[c]
  OBVIOUS
<1> DEFINE q == [d.query EXCEPT !.page = @ + 1]
           e == [Idle EXCEPT !.pc = "count", !.query = q]
<1>2. /\ d.pc = "done" /\ d.query \in Query /\ UnchangedTables
      /\ walk' = [walk EXCEPT ![c] = w]
  BY <1>1 DEF NextPage, IInv, TypeOK, Call
<1>3. Become(c, e)
  BY <1>1 DEF NextPage
<1>4. /\ q.page = d.query.page + 1 /\ q.pageSize = d.query.pageSize
      /\ q.filter = d.query.filter /\ q.sortBy = d.query.sortBy
      /\ q.sortOrder = d.query.sortOrder
      /\ d.query.page \in Int /\ d.query.pageSize \in Int
  BY <1>2 DEF Query
<1> HIDE DEF q
<1>5. e.pc = "count" /\ e.query = q
  BY DEF Idle
<1> HIDE DEF e
<1>6. ASSUME w.active PROVE InOrder(e, w)
  <2>1. InOrder(d, w)
    BY <1>1, <1>6 DEF PagesInv
  <2>2. Matching(q) = Matching(d.query)
    BY <1>4 DEF Matching
  <2>3. ASSUME NEW y PROVE Rank(y, q) = Rank(y, d.query)
    BY <1>4, <2>2 DEF Rank, UpTo, Precedes
  <2>4. Covered(e) = Covered(d)
    <3>1. Covered(e) = (d.query.page + 1 - 1) * d.query.pageSize
      BY <1>4, <1>5 DEF Covered, Offset
    <3>2. Covered(d) = d.query.page * d.query.pageSize
      BY <1>2 DEF Covered
    <3> QED
      BY <1>4, <3>1, <3>2
  <2>5. Shown(e, w) = Shown(d, w)
    BY <1>2, <1>5 DEF Shown
  <2>6. \A kind : Amid(e, w, kind) <=> Amid(d, w, kind)
    BY <1>4, <1>5 DEF Amid
  <2>7. NothingBehind(d, w) => NothingBehind(e, w)
    BY <1>5, <2>2, <2>3, <2>4, <2>5 DEF NothingBehind
  <2>8. NothingAhead(d, w) => NothingAhead(e, w)
    BY <1>5, <2>2, <2>3, <2>4, <2>5 DEF NothingAhead
  <2> QED
    BY <1>4, <1>5, <2>1, <2>6, <2>7, <2>8 DEF InOrder
<1> QED
  BY <1>2, <1>3, <1>6, ReadPages DEF IInv

-----------------------------------------------------------------------------
(* Theorems                                                                 *)

LEMMA PagesStep == IInv /\ PagesInv /\ [Next]_vars => PagesInv'
<1> SUFFICES ASSUME IInv, PagesInv, [Next]_vars PROVE PagesInv'
  OBVIOUS
<1>1. ASSUME UNCHANGED <<products, call, walk>> PROVE PagesInv'
  <2>1. ASSUME NEW c \in Readers, walk'[c].active PROVE InOrder(call[c], walk[c])'
    <3>1. PICK d, w : d = call[c] /\ w = walk[c]
      OBVIOUS
    <3>2. InOrder(d, w)
      BY <1>1, <2>1, <3>1 DEF PagesInv
    <3>3. InOrder(d, w)'
      BY <1>1, <3>2, OrderKept
    <3> QED
      BY <1>1, <3>1, <3>3, Zenon
  <2> QED
    BY <2>1 DEF PagesInv
<1>2. CASE Write
  <2>1. ASSUME NEW k \in CategoryIds, NEW n \in CategoryNames, CreateCategory(k, n)
        PROVE  PagesInv'
    BY <1>1, <2>1 DEF CreateCategory
  <2>2. ASSUME NEW id \in ProductIds, NEW k \in CategoryIds, NEW x \in Texts,
               NEW p \in Prices, NEW t \in 0..now,
               CreateProduct(id, k, x, p, t) \/ UpdateProduct(id, k, x, p, t)
        PROVE  PagesInv'
    BY <2>2, CreatePages, UpdatePages
  <2>3. ASSUME NEW id \in ProductIds, DeleteProduct(id) PROVE PagesInv'
    BY <2>3, DeletePages
  <2> QED
    BY <1>2, <2>1, <2>2, <2>3 DEF Write
<1>3. ASSUME NEW c \in Readers, Read(c) PROVE PagesInv'
  <2>1. TypeOK
    BY DEF IInv
  <2>2. ASSUME NEW k, NEW by, NEW order, NEW page, NEW size, List(c, k, by, order, page, size)
        PROVE  PagesInv'
    BY <1>3, <2>1, <2>2, BeginPages DEF List
  <2>3. ASSUME NEW x, NEW page, NEW size, Search(c, x, page, size) PROVE PagesInv'
    BY <1>3, <2>1, <2>3, BeginPages DEF Search
  <2>4. CASE SelectCount(c) \/ FetchRow(c)
    BY <1>3, <2>1, <2>4, CountPages
  <2>5. CASE SelectPage(c)
    BY <1>3, <2>5, SelectPages
  <2>6. CASE SelectRejected(c) \/ ListFails(c) \/ Leave(c)
    BY <1>3, <2>1, <2>6, ResetPages DEF SelectRejected, ListFails, Leave
  <2>7. CASE RowsEnd(c)
    BY <1>3, <2>7, ReturnPages
  <2>8. CASE NextPage(c)
    BY <1>3, <2>8, TurnPages
  <2> QED
    BY <1>3, <2>2, <2>3, <2>4, <2>5, <2>6, <2>7, <2>8 DEF Read
<1>4. CASE Tick
  BY <1>1, <1>4 DEF Tick
<1>5. CASE UNCHANGED vars
  BY <1>1, <1>5 DEF vars
<1> QED
  BY <1>2, <1>3, <1>4, <1>5 DEF Next

\* Every walk from page to page stays in order: insertions move what is unseen
\* only further ahead of the reader, deletions move what is seen only further
\* behind (product_repository.go:203, 272).
THEOREM PagesInvariance == Spec => []PagesInv
<1>1. Init => PagesInv
  BY DEF Init, PagesInv, NoWalk
<1> QED
  BY <1>1, PagesStep, Invariant, PTL DEF Spec

\* A reader that turns pages until one is not full has seen every product that
\* was there at the start, whatever is inserted meanwhile, if sort keys differ
\* (product_repository.go:194-246).
THEOREM InsertionsHideNothing == Spec => []InsertsNeverSkip
<1>1. IInv /\ PagesInv => InsertsNeverSkip
  <2> SUFFICES ASSUME IInv, PagesInv, NEW c \in Readers, WalkedAmid(c, "insert"),
                      call[c].fetched < call[c].query.pageSize
               PROVE  walk[c].base \subseteq walk[c].seen
    BY DEF InsertsNeverSkip
  <2>1. call[c].pc = "done" /\ NothingBehind(call[c], walk[c])
    BY DEF WalkedAmid, PagesInv, InOrder
  <2>2. call[c].fetched = Len(call[c].rows)
    BY <2>1 DEF IInv, CallsConsistent, Consistent
  <2> QED
    BY <2>1, <2>2 DEF NothingBehind, Shown
<1> QED
  BY <1>1, Invariant, PagesInvariance, PTL

\* Whatever is deleted while a reader turns pages, none shows it a product a
\* second time, if sort keys differ (product_repository.go:194-246).
THEOREM DeletionsRepeatNothing == Spec => []DeletesNeverRepeat
<1>1. PagesInv => DeletesNeverRepeat
  <2> SUFFICES ASSUME PagesInv, NEW c \in Readers, WalkedAmid(c, "delete")
               PROVE  ~walk[c].repeated
    BY DEF DeletesNeverRepeat
  <2> QED
    BY DEF WalkedAmid, PagesInv, InOrder, NothingAhead
<1> QED
  BY <1>1, PagesInvariance, PTL
=============================================================================
