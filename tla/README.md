# Verification of pizza-must

TLA+ specifications of the ordering platform's API (Go, PostgreSQL, Redis), TLC
configurations that check them on small instances, and proofs that TLAPS checks for every
instance. Paths are relative to the repository; the line numbers of each definition are in
`PROJECT.json` under `map`.

    tlc -workers 2 -config MCSessions.cfg MCUserAuth     # one run
    tlapm UserAuthProofs.tla                             # one module of proofs

## 1. Inventory

| Component | State | Operations | Hard behaviour | What makes it correct |
|---|---|---|---|---|
| Accounts and sessions: `transport/user_handler.go`, `service/user_service.go`, `repository/user_repository.go`, `repository/refresh_token_repository.go` | tables `users`, `refresh_tokens`; tokens in clients' hands | Register, Login, RefreshToken, Logout, GetProfile | no transactions: requests interleave between statements; lost replies; crashes; clock boundaries; zone-less timestamps | one account per email; a confirmed account stays; logout is final; tokens live exactly as long as announced; each call is atomic to its caller |
| JWT middleware: `middleware/auth.go` | none | guard of `/logout`, `/profile` | stale: asks no table | a token speaks for the session it came from |
| Validation, error replies: `middleware/validation.go`, `error.go` | none | decode, validate, reply | recognising wrapped errors | the status tells what happened |
| Rate limiter: `middleware/ratelimit.go` (not mounted by `server.go`) | Redis counters with TTLs | the middleware: INCR, EXPIRE, TTL | two commands that nothing ties together; crash or failure between them; either sent twice | a limit per window; windows end |
| Server lifecycle: `cmd/api/main.go`, `server/server.go` | goroutines, `done`, the pool, `http.Server` | start, listen, signal, shutdown, close | four parties waiting for each other under a deadline | requests finish before the pool closes; the process ends |
| Start-up and migrations: `database/*.go`, `migrations/` | schema, goose's version table | ping, goose.Up | concurrent instances, crash between files | files run once, in order; serve on the full schema only |
| Catalogue: `repository/product_repository.go`, `category_repository.go`, migrations 3, 4, 8 | tables `products`, `categories`, the trigger on `updated_at` | Create, Update, Delete, List, Search | COUNT and SELECT as two statements; writers between two pages; rows cut short; bad page numbers; zone-less timestamps; ties | pages agree with totals; a deleted product stays away; insertions hide nothing from a reader of pages, deletions show nothing twice |
| Cart and orders: migrations 5 to 7 | tables | none in Go | | |
| Authorization, CORS, logging, config, logger, domain types | none after start-up | pure | | |
| Frontend | none | untouched Vite template | | |

Interaction: net/http calls a handler on a goroutine per request; the handler calls the
service, the service its two repositories, they send one SQL statement each to a pool shared
by all requests. The protected routes go through the JWT middleware first. `main` starts the
server and a goroutine that waits for a signal; both share the server and the pool. Instances
share the database, and would share Redis.

The hazards that follow from this, each at its line and with the properties that would catch
it, are in `PROJECT.json` under `hazards`.

## 2. Modules

| Module | Models | Composes |
|---|---|---|
| `UserAuth` | the five endpoints down to their SQL statements, the JWT middleware, the two tables, clients, clock, crashes | handlers, service, repositories, middleware |
| `AuthService` | what `UserService` promises: every call takes effect at one instant | |
| `UserAuthRefinement` | the mapping under which `UserAuth` implements `AuthService` | both |
| `RateLimit` | the middleware and the Redis keys | |
| `ServerLifecycle` | `main`, `gracefulShutdown`, connections, handlers, pool | main and server |
| `GracefulStop` | what `gracefulShutdown` promises clients, without goroutines and timers | |
| `Migrations` | instances that come up on one database | main and database |
| `SchemaUpgrade` | what a start promises: the files run one at a time, in order, and then it serves | |
| `ProductCatalog` | products, categories, their repositories and the trigger | both repositories |
| `MC*` | bounds and symmetry for TLC | |
| `*Proofs` | theorems, one module per component, two for `ProductCatalog` | |

### UserAuth

The service opens no transaction, so a step is one SQL statement together with the Go code up
to the next one. `req[r]` is what goroutine `r` is doing: its `pc` names the statement it is
about to send, the other fields are the local variables of service and handler. `users`,
`refreshTokens` and `revoked` are the tables (`revoked` is the column of that name, apart
because it is the only one ever updated). `accounts`, `held` and `jwts` are what clients have
been told; `loggedOut` is history.

- `Receive...` is decoding, validation and the middleware. `ReceiveUnauthenticated` is a request
  without a token the service has signed; `ReceiveProtected` tells an expired one. The client presents any refresh
  token it holds, one that was never issued, or a body that is invalid.
- `RegisterFindByEmail`, then `RegisterCreate` or `RegisterDuplicate`, is
  `user_service.go:69-103`. The lookup decides, the column's UNIQUE decides again.
- `LoginFindByEmail`, `LoginCreateToken` are lines 106-134 and 246-264.
- `RefreshFindByToken`, `RefreshCheckExpiry`, `RefreshFindByID` are lines 149-177. The check
  of the expiry is no statement, but other requests and the clock come in around it.
- `LogoutRevoke`, `GetProfileFindByID` are lines 137-146 and 202-208.
- `StatementFails` is any statement that fails without effect. A statement that commits and
  reports an error is the second disjunct of the three that write.
- `Deliver`, `LoseReply` end a request; `Crash` ends all of them; `Tick` moves the clock.

An error is its root cause and whether it is wrapped. That is all the handlers distinguish:
Register compares the text of the whole chain, Login and RefreshToken compare the value.

Abstractions. Passwords are values that differ within their first 72 bytes, the part bcrypt
looks at; `TooLong` are those bcrypt refuses. `uuid.New()` returns a value no row has. A
refresh token is known to those it was delivered to; guessing is left out. The role, the names
and `iat` are left out. A client may abandon a request (`LoseReply`, `StatementFails`), and a
statement whose context is cancelled either has no effect or commits with an error.

### AuthService, UserAuthRefinement

A call is open, then takes effect, then returns. A registration takes effect at its INSERT or,
refused, at the lookup (or the INSERT, had that been recognised); a login at the INSERT of its
session; a refresh at the SELECT of its row, after which it may still lapse; a logout at its
UPDATE. An error leaves the caller unsure. That is weaker than a clean failure on purpose: the
code gives no more. `Phase` says how a call stands, by where its request stands; `VisibleUser`
hides what only the handler knows.

### RateLimit

`count` and `ttl` are the keys of Redis, `Tick` lets a key with TTL 1 go. INCR and EXPIRE are
steps of their own, with their failures: INCR fails open, and may have counted; EXPIRE is not
looked at. `Crash` loses the goroutines and keeps Redis. `IncrResent` is an INCR that Redis
counted, whose reply was lost and which go-redis sends again: any number of times, and never by
force of fairness, since the number of retries is go-redis'. `ExpireResent` is the same of
EXPIRE. Nothing bounds the time between the two sends (the windows of `ratelimit_test.go` last 1 s,
less than a read timeout of go-redis), so the second EXPIRE may move the end of its window, or reach
a later window whose own EXPIRE is still to come. `resent` is history: the keys for which that can
go on, from the repetition to the end of the last EXPIRE that is under way; `WindowKeepsItsEnd`
speaks of the others. A repeated EXPIRE only makes counters last longer, so `AtMostTwiceTheLimit`
and `RefusalEnds` need no such exception. A command that go-redis gives up on is taken to have run
by then, or never to run. `admitted` is history: what each key let
through since the last tick, since the tick before, and so on up to a whole window. The
middleware is not mounted; the model is of the middleware as its tests use it.

### ServerLifecycle

`main` and `watcher` say where the two goroutines of `main.go` stand. `conn` is what
`http.Server` believes of each connection and `handler` what its goroutine does: the two part
ways when Shutdown closes a connection on which a request has just been read. A signal kills
before `NotifyContext` and after `stop()`. `timer` is the 30 second context, started by
`BeginShutdown`. A handler may run for ever. `log.Fatal` and a kill end everything at once.
net/http and database/sql are modelled from how the code uses them and from their documented
behaviour: Shutdown waits for the accept loop, closes idle connections, returns when none is
left or the context ends; a closed pool lets the statement under way finish and refuses the
next.

`GracefulStop` is the promise: a request that has been taken is answered on its connection, with
the database there, unless its time is over or the process is killed, and the process ends only
after that. Under the mapping at the end of `ServerLifecycle` a client waits (`Waiting`) while its
connection is active, from the start of its handler on. A connection that Shutdown closes under a
request that was read, but whose handler has not started, is a `Cut`: the promise admits it while
stopping, since net/http does it, and of no connection a client waits on. Taking requests while the
pool is closed is admitted only when the time is over.

### Migrations

`schema[m]` counts how often file `m` was run, `versions` is goose's table, `current[i]` what
instance `i` has read of it. A file and its row commit together. A file cannot run on top of
itself: each has a CREATE INDEX or CREATE TRIGGER without IF NOT EXISTS, so the second of two
instances fails and `log.Fatal` ends it. The creation of the version table is counted as file
0. `make migrate-down` is not modelled.

`SchemaUpgrade` knows the files and who serves, and one operator who runs the next file. goose's
table, what each instance has read, collisions and lost commits are hidden by the mapping at the
end of `Migrations`.

### ProductCatalog

`categories` and `products` are the tables. `call[c]` is the List or Search that reader `c` is in:
its query, the total that COUNT gave, the rows of the SELECT and how many of them were fetched;
`stale` is history and says that a write came between the two statements. `walk[c]` is history of
a reader that turns page after page: what matched when it began, what it was shown, what others
did meanwhile. `born` and `deleted` are history too.

- `CreateCategory`, `CreateProduct`, `UpdateProduct`, `DeleteProduct` are one statement each, with
  the constraints of migrations 3 and 4 as guards (`Admissible`) and the trigger of migration 8
  (`TriggeredUpdatedAt`). The instant `t` a caller writes into `updated_at` may be long past, and
  the object it writes may be any old copy: Update compares no version. An operation that violates
  a constraint, finds no row or fails changes nothing and is no step.
- `List` and `Search` normalise the query (`SortField`, `SortOrder`) and then share their code:
  `SelectCount`, `SelectPage` or `SelectRejected` (PostgreSQL refuses a negative OFFSET or LIMIT),
  `FetchRow` for each `rows.Next`, `RowsEnd`; `ListFails` is any statement, or the connection
  between two rows, that fails.
- `NextPage` and `Leave` are the caller's.

Abstractions. `price` stands for every column an Update may set and a List may sort by, as a
DECIMAL(10, 2): callers' prices are half cents and `Decimal` rounds them; the upper end of the
column is left out. One text stands for name and description. A statement takes effect at one
instant and reads the clock at that instant: waiting for a row lock is not modelled. A product is
created once, under a fresh uuid. FindByID and the categories' reads are single SELECTs. No row
has NULLs, as the program writes none. Nothing under `src/` calls the repositories but their
tests: callers are any. How rows with the same sort key come is left open, as ORDER BY does.

## 3. Runs

| Run | Bounds | What it shows |
|---|---|---|
| `accounts` | 2 requests, 2 emails, 2 ids, 1 token, 2 instants | `TypeOK`, `OneAccountPerEmail`, `ConfirmedAccountsLast`, `AccessTokensKeepTheirSession` |
| `sessions` | 2 requests, 1 user, 2 tokens, 3 instants, at most 2 access tokens | `IInv`, `LogoutIsFinal`, `HeldTokenHonoured`, `RefreshLifetime`, `LogoutEndsAccess` |
| `refinement` | 2 requests, 1 email, 1 token, 3 instants | `ImplementsAuthService` |
| `duplicate_email` | as `accounts` | violates `DuplicateEmailIsConflict` |
| `server_ahead_of_utc` | as `sessions`, clock one tick ahead of UTC | violates `RefreshLifetime` |
| `rate_limit` | 2 requests, 1 connection and 1 user, limit 2, window 2 | `WInv`, `AInv`, `AtMostTwiceTheLimit`, `WindowKeepsItsEnd`, `RefusalEnds` |
| `rate_limit_forever` | limit 1, window 3 | violates `EveryRefusalEnds` |
| `rate_limit_ports` | 2 ports of one address, limit 1 | violates `AddressIsLimited` |
| `lifecycle` | 2 connections, 2 ticks of grace | `LInv`, `PoolOutlivesRequests`, `ExitIsGraceful`, `NoDeadlock`, `SignalEndsProcess`, `ImplementsGracefulStop` |
| `migrations` | 3 instances, files 0 to 3 | `MInv`, `SchemaIsPrefix`, `ServesLatest`, `SomeInstanceServes`, `ImplementsSchemaUpgrade` |
| `catalogue` | 2 products, 2 categories, 4 prices, pages 0 and 2, sizes -1 to 1, 2 instants | `IInv`, `DeletedStaysDeleted`, `UpdatedNotBeforeCreated`, `PageAgreesWithTotal` |
| `product_pages` | 3 products, 1 category, 1 price, pages 1 to 4, sizes 1 and 2, 3 instants | `InsertsNeverSkip`, `DeletesNeverRepeat`, `PagesInv` |

Why the bounds are enough. Every race of `UserAuth` is between two requests on one row: two
goroutines reach all of them, and each is reused for any number of requests after another. Two
emails tell "this account" from "some account", two tokens "this session" from "some session".
Lifetimes of one tick within three instants put a step before, at and after every deadline.
`MCSessions` has a state constraint on the number of access tokens in clients' hands: more of
them only repeat the same rights, and the theorems below do without it. Counters of `RateLimit`
saturate at the first refused value (`Bounded`), since the code compares them with 1 and the
limit only; a limit of 2 tells the first request from the last one allowed, and a window of 2
ticks is the shortest that has a middle; with two goroutines a repeated EXPIRE reaches the window
the other has opened. Two connections suffice where one drains and the other
hangs; three instances of `Migrations` let two collide while a third starts. One reader of
`ProductCatalog` is enough, since readers do not affect each other, and writers need no local
state. The prices are one the database rejects, two it rounds to the same and another; pages and
sizes lie below, at and beyond the edge. For `product_pages` three products let one come or go
before, between and after two others, sorted by their dates of creation (one price makes the
other key a tie); the state constraint `WalksOfInterest` leaves out what the two properties say
nothing of: walks amid both insertions and deletions, or past a tie, and, for size only, filters
and Deletes whose reply is lost (`catalogue` has them, the theorems of `ProductPagesProofs` have no constraint, and
the mutants of the properties break them within it). `ServerLifecycle`
is the only model that may stop: the process ends (`CHECK_DEADLOCK FALSE`). That it does not
stop earlier is `NoDeadlock`: it says which of main, `gracefulShutdown` and the clock can move,
whatever handlers do, so a handler that hangs does not hide a deadlock of the other two. Symmetry is used
for safety only, over identifiers no operator orders.

What the violated properties show:

1. **409 becomes 500.** The loser of two concurrent registrations of one email gets the
   repository's error wrapped (`user_service.go:99`), which the comparison of texts at
   `user_handler.go:111` does not recognise.
2. **Sessions of the wrong length off UTC.** `expires_at` is a TIMESTAMP: ahead of UTC by d,
   refresh tokens live 7 days + d, behind UTC less. `RefreshLifetime` holds when
   `ZoneOffset <= 0`, `HeldTokenHonoured` when `ZoneOffset >= 0`; both are theorems.
3. **A counter without an end.** When EXPIRE fails or is never sent, the client is refused for
   ever.
4. **The limit is per connection.** `RemoteAddr` holds the source port.

Also met, and not a property: `auth.go:52` compares with `jwt.ErrTokenExpired`, but golang-jwt
wraps it, so an expired token is reported as "invalid token" (status 401 either way).

## 4. Fairness

- `UserAuth` has none: everything said of it is safety.
- `RateLimit`: time passes, and a goroutine in the middleware goes on. Nobody has to send
  requests; `RefusalEnds` holds although clients may keep asking.
- `ServerLifecycle`: `main`, `gracefulShutdown` and time go on (the Go scheduler, the timer).
  No fairness for handlers: a statement has no timeout of its own. None for signals.
- `ProductCatalog` has none.
- `Migrations`: an instance that was started goes on. `SomeInstanceServes` excuses runs in
  which an instance was killed or a statement lost.

## 5. Proofs

Checked by TLAPS for every value of the constants, from the named assumptions of each module:

| Module | Theorems | Argument |
|---|---|---|
| `UserAuthProofs` | `Invariance` (IInv), `TypeCorrect`, `UniqueEmails`, `AccountsLast`, `LogoutFinal`, `TokensKeepSession`, `AccessEnds` (LogoutEndsAccess), `LifetimeBounded` (assumes `ZoneOffset <= 0`), `TokensHonoured` (assumes `ZoneOffset >= 0`) | `InitIInv`, `NextIInv`, one lemma per group of actions |
| `UserAuthRefinementProofs` | `StepImpl`, `Implements` (Spec implies `ImplementsAuthService`) | one lemma per action: a step of `AuthService` or a stutter |
| `RateLimitProofs` | `RateLimitInvariance` (WInv), `WindowEndStays`, `Accounting` (AInv), `TwiceTheLimit` | one lemma per action, for each invariant |
| `ServerLifecycleProofs` | `LifecycleInvariance` (LInv), `PoolOutlives`, `GracefulExit`, `SomebodyMovesOn` (NoDeadlock), `Implements` (Spec implies `ImplementsGracefulStop`) | one lemma per party for the invariant, one per step of the promise for the refinement |
| `MigrationsProofs` | `MigrationInvariance` (MInv), `SchemaPrefix`, `ServesComplete`, `Implements` (Spec implies `ImplementsSchemaUpgrade`) | |
| `ProductCatalogProofs` | `Invariant` (IInv), `DeleteIsFinal`, `PagesAgree`, `UpdatesAfterCreation` (assumes `ZoneOffset <= 0`) | one lemma per action |
| `ProductPagesProofs` | `PagesInvariance` (PagesInv), `InsertionsHideNothing`, `DeletionsRepeatNothing` | lemmas on ranks, then one per action |

The safety properties are not inductive. `LogoutIsFinal` speaks of answers, and an answer rests
on a row read two statements before: `IInv` therefore says, for each `pc`, what the tables hold
for the request and still will when its next statement runs (`Sound`), and what clients know
(`ClientsSound`: what they hold is issued, what they logged out is revoked). Rows are never
deleted and `revoked` only grows; that is why what was read stays true enough. `WInv` says that
an EXPIRE still to come finds the key of its own INCR, without TTL, and is alone, unless its key is
one of `resent`; and that those keys have an EXPIRE to come, so the exception ends.
`WindowKeepsItsEnd` follows since, of the other keys, only one without TTL gets one. `LInv` orders the two
goroutines of `main.go`, and says that `done` is sent exactly when `gracefulShutdown` has finished:
with a weaker half of that (finished only if sent, or the reverse) a waiting `main` could not be
told from a deadlocked one, nor an exit from one with the pool open. `MInv` says that what an instance has read is not ahead of the table,
so a file that can run is exactly the next one. The `IInv` of `ProductCatalog` says that between
COUNT and SELECT a call's total is the number of rows that match, or the call is stale.

`LogoutEndsAccess` says what is left of a session after its logout, given that the middleware asks
no table. It compares a step with the next, and rests on one fact about every action: a request
goes on with the refresh token it has, or takes up one not issued before, or, when it comes after
the logout was answered, carries the mark `late` (`Continues`), and `LogoutIsFinal` refuses the
late ones. `JInv` bounds every `exp` by that of a token signed now.

`AtMostTwiceTheLimit` needs no sum over windows. `AInv` compares two numbers per key with its
counter: what was let through since the last tick, and since the counter's EXPIRE, is at most what
the counter says; what was let through in a whole window of time exceeds that by at most `Limit`,
the counter before. A counter goes only when a window has passed since its EXPIRE, and by then
everything older has left that window of time.

The pages of a listing are about positions in a sorted result that other requests change between
two pages. `PagesInv` says them without sequences: the rank of a product is the number of matching
products that come no later than it, and a walk has covered so many ranks (`Covered`: page times
size, or the pages before while the next one is not read yet). Amid insertions, what there was at
the start and has not been shown has a rank beyond those covered (`NothingBehind`); amid deletions,
what has been shown and is still there has one within (`NothingAhead`). An insertion can only raise
a rank, a deletion only lower it, an update that leaves the sort key alone keeps it (`InsertRanks`,
`DeleteRanks`, `UpdateRanks`). What a SELECT returns, position by position, are the ranks it covers:
`RankOfSorted` says that in any sorted sequence of distinct keys the i-th row has rank i, by a
bijection between the first i positions and the products that come no later, which needs no
induction. A page that is not full has then reached the last rank.

The refinement of `AuthService` rests on `IInv` too: a login that is about to store its session has found a user
with the email and the password it was asked with, and that user is still there. Failures that
the handlers do not recognise are `GiveUp`; the passing of time is a stutter. That of
`GracefulStop` rests on `LInv`: a handler that starts on an open connection after the pool is closed
would be pending, so the time is over; the sweep comes while stopping and before the pool is closed;
main ends when `done` is sent, hence after that. That of `SchemaUpgrade` rests on `MInv`: a file
that can run is the first that has not.

TLC checks each of these invariants and the refinements too, before they were proved and in the
runs above; `JInv` is small enough to be left to its proof.

Every safety property of a passing run is a theorem, the refinements included. Only
model-checked: liveness (`RefusalEnds`, `SignalEndsProcess`, `SomeInstanceServes`), which needs
ENABLED and fairness and is out of the prover's reach. `NoDeadlock` is the part of
`SignalEndsProcess` that can be proved, with the guards written out in place of ENABLED. The
properties of the violation runs are false of the code; under `ZoneOffset <= 0` the one on
lifetimes is a theorem.

## 6. Not modelled

- Role authorization, CORS, request logging, configuration, logger: no state and no decision that
  a property is about; the first three are not mounted.
- The wording of replies and the rules of validation; the statistics `Health` logs.
- Cart and orders: tables without code, but their files are steps of `Migrations`.
- `make migrate-down`: no Go code calls it, and it undoes on purpose what the properties say.
- Order among rows with the same sort key, merging of concurrent Updates: nothing in the repository
  promises them. They are in `PROJECT.json` as hazards. Nor does it promise that a logout revokes
  access tokens at once; how long they last is `LogoutEndsAccess`.
- The frontend: a template.
- Inside libraries: bcrypt, signatures, goose's own SQL, the accept loop, `database/sql`'s pool
  limits, PostgreSQL's row locks.

## 7. Plan

Done, in this order: `UserAuth` with its invariants and proofs; `AuthService` and the refinement;
`RateLimit`; `ServerLifecycle`; `Migrations`; `ProductCatalog` with its proofs; go-redis' retries;
the refinement and `AtMostTwiceTheLimit` as theorems; pages of listings as theorems;
`SchemaUpgrade` and `GracefulStop` with their refinements.

Next, as the code grows: the handlers of the catalogue and of the cart, once there are any, on top
of `ProductCatalog`; the composition of `ServerLifecycle` with `UserAuth`, whose requests it ends.
