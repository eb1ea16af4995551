--------------------------- MODULE ProductCatalog ---------------------------
(***************************************************************************)
(* Products and categories: the two repositories                           *)
(* (internal/repository/{product,category}_repository.go) over their       *)
(* tables (migrations 00003, 00004) and the trigger of 00008.              *)
(*                                                                         *)
(* The repositories open no transaction.  Every operation is one SQL       *)
(* statement, but for List and Search: they count, then select, then fetch *)
(* the rows of that snapshot one by one, while others write.  A            *)
(* single-statement operation is one action; when it fails, or only reads  *)
(* (FindByID, List of categories), it leaves no trace here.                *)
(***************************************************************************)
EXTENDS Integers, Sequences, FiniteSets

CONSTANTS
    Readers,         \* goroutines that list or search
    ProductIds,      \* what uuid.New() may return
    CategoryIds, CategoryNames,
    Texts,           \* the words that names and descriptions consist of
    Prices,          \* what callers set, in half cents
    All,             \* no filter
    Pages, Sizes,    \* page and pageSize of a first call
    MaxPage,         \* bound on the pages a reader asks for one after the other
    ZoneOffset,      \* the server's offset from the database's clock, in ticks
    MaxTime          \* bound on the clock

ASSUME CatalogAssumption ==
    /\ All \notin CategoryIds \union Texts
    /\ Prices \subseteq Int
    /\ Pages \subseteq Int
    /\ Sizes \subseteq Int
    /\ MaxPage \in Nat
    /\ ZoneOffset \in Int
    /\ MaxTime \in Nat

VARIABLES
    now,          \* the clock of the server and, but for its zone, of the database
    categories,   \* the rows of table categories
    products,     \* the rows of table products
    born,         \* history: the ids of all products ever inserted
    deleted,      \* history: the ids for which a Delete has returned nil
    call,         \* the List or Search each reader is in
    walk          \* history: what a reader that turns page after page has met

vars == <<now, categories, products, born, deleted, call, walk>>

-----------------------------------------------------------------------------
(* Rows                                                                     *)

Category == [id: CategoryIds, name: CategoryNames]

\* price stands for all the columns an Update may change and List may sort by
\* (name, stock), text for name and description as Search sees them.
Product == [id: ProductIds, category: CategoryIds, text: Texts, price: Nat,
            created_at: Int, updated_at: Int]

\* A price becomes a DECIMAL(10, 2): whole cents, halves away from zero.
Decimal(p) == IF p < 0 THEN -((1 - p) \div 2) ELSE (p + 1) \div 2

\* A TIMESTAMP column keeps the server's wall clock and forgets its zone.
Stored(instant) == instant + ZoneOffset

RowsWithID(id) == {p \in products : p.id = id}
HasCategory(k) == \E c \in categories : c.id = k

\* CHECK (price >= 0), CHECK (stock >= 0), the foreign key to categories.
Admissible(k, p) == HasCategory(k) /\ Decimal(p) >= 0

-----------------------------------------------------------------------------
(* Queries                                                                  *)

Columns == {"price", "created_at"}
Orders == {"ASC", "DESC"}
Query == [filter: {All} \union CategoryIds \union Texts, sortBy: Columns,
          sortOrder: Orders, page: Int, pageSize: Int]

SortField(by) == IF by \in Columns THEN by ELSE "created_at"
SortOrder(order) == IF order \in Orders THEN order ELSE "DESC"

\* The WHERE clause of both statements.
Matching(q) ==
    {p \in products : q.filter \in {All, p.category, p.text}}

Count(q) == Cardinality(Matching(q))

\* Mutants: pages counted from 0; each page starts with the last row of the one
\* before.
PagesFromZero(q) == q.page * q.pageSize
PagesOverlap(q) == (q.page - 1) * (q.pageSize - 1)
Offset(q) == (q.page - 1) * q.pageSize

Precedes(x, y, q) ==
    IF q.sortOrder = "ASC" THEN x[q.sortBy] <= y[q.sortBy] ELSE x[q.sortBy] >= y[q.sortBy]

\* Mutant: no ORDER BY.
Unsorted(q) ==
    {s \in [1..Cardinality(Matching(q)) -> Matching(q)] :
        \A i, j \in DOMAIN s : i < j => s[i] # s[j]}
\* ORDER BY leaves open how rows with the same key come.
Sorted(q) ==
    {s \in [1..Cardinality(Matching(q)) -> Matching(q)] :
        \A i, j \in DOMAIN s : i < j => s[i] # s[j] /\ Precedes(s[i], s[j], q)}

\* How many rows LIMIT and OFFSET leave of n.
PageLength(n, q) ==
    IF n <= Offset(q) THEN 0
    ELSE IF n - Offset(q) < q.pageSize THEN n - Offset(q) ELSE q.pageSize

-----------------------------------------------------------------------------
(* Calls of List and Search, and walks from page to page                    *)

Idle == [pc |-> "idle", query |-> [filter |-> All, sortBy |-> "created_at",
            sortOrder |-> "DESC", page |-> 1, pageSize |-> 0],
         total |-> 0, stale |-> FALSE, rows |-> <<>>, fetched |-> 0]

\* base: the products that matched at the first SELECT; seen, repeated: what
\* was on the pages; distinct: no SELECT has met two rows with the same key;
\* writes: what others have done to the table since the first SELECT.
NoWalk == [active |-> FALSE, base |-> {}, seen |-> {}, repeated |-> FALSE,
           distinct |-> TRUE, writes |-> {}]

\* A write commits: history notes it.
Note(kind) ==
    IF products' = products THEN UNCHANGED <<call, walk>>
    ELSE /\ call' = [c \in Readers |->
                       [call[c] EXCEPT !.stale = @ \/ call[c].pc = "select"]]
         /\ walk' = [c \in Readers |->
                       IF walk[c].active THEN [walk[c] EXCEPT !.writes = @ \union {kind}]
                       ELSE walk[c]]

-----------------------------------------------------------------------------
(* Writers                                                                  *)

\* UNIQUE (name): a second category of the name is ErrCategoryAlreadyExists.
CreateCategory(k, n) ==
    /\ \A c \in categories : c.id # k /\ c.name # n
    /\ categories' = categories \union {[id |-> k, name |-> n]}
    /\ UNCHANGED <<now, products, born, deleted, call, walk>>

\* The caller has taken its time.Now() at the instant t.
CreateProduct(id, k, x, p, t) ==
    /\ id \notin born
    /\ Admissible(k, p)
    /\ products' = products \union
          {[id |-> id, category |-> k, text |-> x, price |-> Decimal(p),
            created_at |-> Stored(t), updated_at |-> Stored(t)]}
    /\ born' = born \union {id}
    /\ Note("insert")
    /\ UNCHANGED <<now, categories, deleted>>

\* Mutant: the trigger is missing.
CallersUpdatedAt(t) == Stored(t)
\* The trigger puts the database's clock in place of the caller's updated_at.
TriggeredUpdatedAt(t) == now

\* Mutant: an UPDATE that finds no row inserts one.
Upserted(id, k, x, p, u) ==
    {q \in products : q.id # id} \union
        {[id |-> id, category |-> k, text |-> x, price |-> p, created_at |-> u,
          updated_at |-> u]}
\* Every column but id and created_at is overwritten, whatever it was.
Overwritten(q, id, k, x, p, u) ==
    IF q.id = id THEN [q EXCEPT !.category = k, !.text = x, !.price = p, !.updated_at = u]
    ELSE q
Updated(id, k, x, p, u) == {Overwritten(q, id, k, x, p, u) : q \in products}

\* Callers may hold a copy of the product as old as they like.  No row with
\* the id: ErrProductNotFound.
UpdateProduct(id, k, x, p, t) ==
    /\ id \in born
    /\ Admissible(k, p)
    /\ products' = Updated(id, k, x, Decimal(p), TriggeredUpdatedAt(t))
    /\ Note("update")
    /\ UNCHANGED <<now, categories, born, deleted>>

\* One of several Deletes finds the row; its reply may still be lost.
DeleteProduct(id) ==
    /\ RowsWithID(id) # {}
    /\ products' = products \ RowsWithID(id)
    /\ deleted' \in {deleted, deleted \union {id}}
    /\ Note("delete")
    /\ UNCHANGED <<now, categories, born>>

-----------------------------------------------------------------------------
(* List and Search                                                          *)

Become(c, changed) == call' = [call EXCEPT ![c] = changed]
UnchangedTables == UNCHANGED <<now, categories, products, born, deleted>>

Begin(c, q) ==
    /\ call[c].pc = "idle"
    /\ Become(c, [Idle EXCEPT !.pc = "count", !.query = q])
    /\ walk' = [walk EXCEPT ![c] = [NoWalk EXCEPT !.active = q.page = 1]]
    /\ UnchangedTables

List(c, k, by, order, page, size) ==
    Begin(c, [filter |-> k, sortBy |-> SortField(by), sortOrder |-> SortOrder(order),
              page |-> page, pageSize |-> size])

\* An empty query lists everything; others match a name or a description.
Search(c, x, page, size) ==
    Begin(c, [filter |-> x, sortBy |-> "created_at", sortOrder |-> "DESC",
              page |-> page, pageSize |-> size])

\* Mutant: the WHERE clause is left out of the COUNT.
SelectCountOfAll(c) ==
    /\ call[c].pc = "count"
    /\ Become(c, [call[c] EXCEPT !.pc = "select", !.total = Cardinality(products)])
    /\ UNCHANGED walk
    /\ UnchangedTables
SelectCount(c) ==
    /\ call[c].pc = "count"
    /\ Become(c, [call[c] EXCEPT !.pc = "select", !.total = Count(call[c].query)])
    /\ UNCHANGED walk
    /\ UnchangedTables

DistinctKeys(q) ==
    \A x, y \in Matching(q) : x[q.sortBy] = y[q.sortBy] => x = y

\* History: the first SELECT of a walk says what there is to see.
Walk(w, q) ==
    IF ~w.active THEN w
    ELSE IF q.page = 1
         THEN [w EXCEPT !.base = {p.id : p \in Matching(q)}, !.writes = {},
                        !.distinct = DistinctKeys(q)]
         ELSE [w EXCEPT !.distinct = @ /\ DistinctKeys(q)]

\* The snapshot of SELECT is the result, however long its rows take to fetch.
SelectPage(c) ==
    LET q == call[c].query
        n == PageLength(Count(q), q)
    IN
    /\ call[c].pc = "select"
    /\ Offset(q) >= 0 /\ q.pageSize >= 0
    /\ \E s \in Sorted(q) :
         Become(c, [call[c] EXCEPT !.pc = "rows",
                                   !.rows = [i \in 1..n |-> s[Offset(q) + i].id]])
    /\ walk' = [walk EXCEPT ![c] = Walk(walk[c], q)]
    /\ UnchangedTables

\* PostgreSQL rejects a negative OFFSET or LIMIT.
SelectRejected(c) ==
    /\ call[c].pc = "select"
    /\ Offset(call[c].query) < 0 \/ call[c].query.pageSize < 0
    /\ Become(c, Idle)
    /\ walk' = [walk EXCEPT ![c] = NoWalk]
    /\ UnchangedTables

\* rows.Next, rows.Scan
FetchRow(c) ==
    /\ call[c].pc = "rows"
    /\ call[c].fetched < Len(call[c].rows)
    /\ Become(c, [call[c] EXCEPT !.fetched = @ + 1])
    /\ UNCHANGED walk
    /\ UnchangedTables

\* The page is returned: what the reader then has seen.
Return(c) ==
    LET page == {call[c].rows[i] : i \in 1..call[c].fetched} IN
    /\ Become(c, [call[c] EXCEPT !.pc = "done"])
    /\ walk' = IF walk[c].active
               THEN [walk EXCEPT ![c].seen = @ \union page,
                                 ![c].repeated = @ \/ page \intersect walk[c].seen # {}]
               ELSE walk
    /\ UnchangedTables

\* Mutant: rows.Err() is not looked at.
RowsCutShort(c) == call[c].pc = "rows" /\ Return(c)
RowsEnd(c) ==
    /\ call[c].pc = "rows"
    /\ call[c].fetched = Len(call[c].rows)
    /\ Return(c)

\* A statement, or the connection between two rows, fails: no page.
ListFails(c) ==
    /\ call[c].pc \in {"count", "select", "rows"}
    /\ Become(c, Idle)
    /\ walk' = [walk EXCEPT ![c] = NoWalk]
    /\ UnchangedTables

\* The reader turns to the next page of the same query, or does not.
NextPage(c) ==
    /\ call[c].pc = "done" /\ call[c].query.page < MaxPage
    /\ Become(c, [Idle EXCEPT !.pc = "count",
                              !.query = [call[c].query EXCEPT !.page = @ + 1]])
    /\ UNCHANGED walk
    /\ UnchangedTables

Leave(c) ==
    /\ call[c].pc = "done"
    /\ Become(c, Idle)
    /\ walk' = [walk EXCEPT ![c] = NoWalk]
    /\ UnchangedTables

Tick ==
    /\ now < MaxTime
    /\ now' = now + 1
    /\ UNCHANGED <<categories, products, born, deleted, call, walk>>

-----------------------------------------------------------------------------
Init ==
    /\ now = 0
    /\ categories = {} /\ products = {}
    /\ born = {} /\ deleted = {}
    /\ call = [c \in Readers |-> Idle]
    /\ walk = [c \in Readers |-> NoWalk]

Write ==
    \/ \E k \in CategoryIds, n \in CategoryNames : CreateCategory(k, n)
    \/ \E id \in ProductIds, k \in CategoryIds, x \in Texts, p \in Prices, t \in 0..now :
         CreateProduct(id, k, x, p, t) \/ UpdateProduct(id, k, x, p, t)
    \/ \E id \in ProductIds : DeleteProduct(id)

Read(c) ==
    \/ \E page \in Pages, size \in Sizes :
         \/ \E k \in {All} \union CategoryIds, by \in Columns \union {"other"},
               order \in Orders \union {"other"} : List(c, k, by, order, page, size)
         \/ \E x \in {All} \union Texts : Search(c, x, page, size)
    \/ SelectCount(c) \/ SelectPage(c) \/ SelectRejected(c)
    \/ FetchRow(c) \/ RowsEnd(c) \/ ListFails(c)
    \/ NextPage(c) \/ Leave(c)

Next == Write \/ (\E c \in Readers : Read(c)) \/ Tick

Spec == Init /\ [][Next]_vars

-----------------------------------------------------------------------------
(* Correctness                                                              *)

Call == [pc: {"idle", "count", "select", "rows", "done"}, query: Query, total: Nat,
         stale: BOOLEAN, rows: Seq(ProductIds), fetched: Nat]

WalkHistory == [active: BOOLEAN, base: SUBSET ProductIds, seen: SUBSET ProductIds,
                repeated: BOOLEAN, distinct: BOOLEAN,
                writes: SUBSET {"insert", "update", "delete"}]

TypeOK ==
    /\ now \in 0..MaxTime
    /\ categories \subseteq Category
    /\ products \subseteq Product /\ IsFiniteSet(products)
    /\ born \subseteq ProductIds
    /\ deleted \subseteq born
    /\ call \in [Readers -> Call]
    /\ walk \in [Readers -> WalkHistory]

\* The category of a product exists, and no id and no category name occurs twice.
TablesConsistent ==
    /\ \A p \in products : HasCategory(p.category) /\ p.id \in born
    /\ \A p, q \in products : p.id = q.id => p = q
    /\ \A c, d \in categories : c.id = d.id \/ c.name = d.name => c = d

\* What the step a call d is at says of its result.
Consistent(d) ==
    LET agrees == d.stale \/ Len(d.rows) = PageLength(d.total, d.query) IN
    /\ d.pc = "select" => d.stale \/ d.total = Count(d.query)
    /\ d.pc = "rows" => Offset(d.query) >= 0 /\ agrees
    /\ d.pc = "done" => Offset(d.query) >= 0 /\ agrees /\ d.fetched = Len(d.rows)

CallsConsistent == \A c \in Readers : Consistent(call[c])

\* After a Delete has returned nil no Update that was on its way, with a copy of
\* the product read before, brings the product back (product_repository.go:75).
DeletedStaysDeleted == \A id \in deleted : RowsWithID(id) = {}

\* No product was updated before it was created, although callers may write an
\* updated_at taken long before: the trigger of 00008 replaces it.  The server's
\* zone must not be east of the database's.
UpdatedNotBeforeCreated == \A p \in products : p.updated_at >= p.created_at

\* A page that List or Search returns has as many rows as the total it returns
\* calls for, unless a write came between COUNT and SELECT: neither a bad page
\* number nor an error while the rows are fetched leads to a short page
\* (product_repository.go:194-246, 260-313).
PageAgreesWithTotal ==
    \A c \in Readers :
        call[c].pc = "done" =>
            /\ Offset(call[c].query) >= 0
            /\ ~call[c].stale =>
                  call[c].fetched = PageLength(call[c].total, call[c].query)

\* Nothing else has happened since the walk w of the call d began than writes of
\* one kind, and updates, which leave a listing of all products by date of
\* creation as it is.
Amid(d, w, kind) ==
    LET updates == IF d.query.filter = All /\ d.query.sortBy = "created_at"
                   THEN {"update"} ELSE {}
    IN  w.distinct /\ w.writes \subseteq {kind} \union updates

WalkedAmid(c, kind) ==
    call[c].pc = "done" /\ walk[c].active /\ Amid(call[c], walk[c], kind)

\* A reader that starts at page 1 and turns pages until one is not full has
\* seen every product that was there at the start, however many are inserted
\* meanwhile, as long as the sort keys differ (product_repository.go:203, 272).
InsertsNeverSkip ==
    \A c \in Readers :
        WalkedAmid(c, "insert") /\ call[c].fetched < call[c].query.pageSize
            => walk[c].base \subseteq walk[c].seen

\* Deletions between two pages may hide a product from the reader, but show
\* none twice, as long as the sort keys differ (product_repository.go:203, 272).
DeletesNeverRepeat ==
    \A c \in Readers : WalkedAmid(c, "delete") => ~walk[c].repeated

\* The inductive invariant: the tables' constraints, whatever Creates, Updates
\* and Deletes do in whatever order (00003:5, 00004:7-16), and the rest that
\* the properties above rest on.
IInv ==
    /\ TypeOK
    /\ TablesConsistent
    /\ CallsConsistent
    /\ DeletedStaysDeleted
    /\ \A p \in products : p.created_at <= Stored(now)

\* The place of a row in the order of a listing, once keys differ.
UpTo(y, q) == {x.id : x \in {z \in Matching(q) : Precedes(z, y, q)}}
Rank(y, q) == Cardinality(UpTo(y, q))

\* What a reader has been shown, the page under its eyes included, and how many
\* places of the order its pages have covered.
Page(d) == {d.rows[i] : i \in 1..Len(d.rows)}
Shown(d, w) == IF d.pc = "rows" THEN w.seen \union Page(d) ELSE w.seen
Covered(d) == IF d.pc \in {"rows", "done"} THEN d.query.page * d.query.pageSize
              ELSE Offset(d.query)

\* What there was at the start and has not been shown is still ahead.
NothingBehind(d, w) ==
    /\ \A id \in w.base \ Shown(d, w) :
         \E y \in Matching(d.query) : y.id = id /\ Rank(y, d.query) > Covered(d)
    /\ d.pc \in {"rows", "done"} /\ Len(d.rows) < d.query.pageSize =>
         w.base \subseteq Shown(d, w)

\* What has been shown, and is still there, is behind.
NothingAhead(d, w) ==
    /\ ~w.repeated
    /\ d.pc = "rows" => Page(d) \intersect w.seen = {}
    /\ \A y \in Matching(d.query) : y.id \in Shown(d, w) => Rank(y, d.query) <= Covered(d)

InOrder(d, w) ==
    /\ d.query.page >= 1
    /\ d.query.page = 1 /\ d.pc \in {"count", "select"} => w.seen = {} /\ ~w.repeated
    /\ Amid(d, w, "insert") => NothingBehind(d, w)
    /\ Amid(d, w, "delete") => NothingAhead(d, w)

\* Inductive together with IInv: insertions only move what a walk has not met
\* further ahead, deletions only move what it has met further behind
\* (product_repository.go:203, 272).
PagesInv == \A c \in Readers : walk[c].active => InOrder(call[c], walk[c])
=============================================================================
