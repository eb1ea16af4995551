------------------------------ MODULE UserAuth ------------------------------
(***************************************************************************)
(* Accounts and sessions: the five user endpoints                          *)
(* (internal/transport/user_handler.go), the service behind them           *)
(* (internal/service/user_service.go), the JWT check in front of the       *)
(* protected ones (internal/middleware/auth.go) and the two tables they    *)
(* share (internal/repository/{user,refresh_token}_repository.go).         *)
(*                                                                         *)
(* net/http runs each request on a goroutine of its own, and the service   *)
(* opens no transaction, so the unit of atomicity is one SQL statement:    *)
(* every action below performs at most one, together with the Go code that *)
(* runs between it and the next one.  Other requests, the clock and a      *)
(* crash of the process may come between any two actions of a request.     *)
(***************************************************************************)
EXTENDS Integers

CONSTANTS
    Requests,                \* goroutines that may serve a request at a time
    Emails,                  \* what clients type in
    Passwords,               \* likewise; they differ in their first 72 bytes
    TooLong,                 \* the passwords of more than 72 bytes
    UserIds, Tokens,         \* what uuid.New() may return
    Unknown,                 \* a refresh token string that was never issued
    None,                    \* no value
    AccessTokenExpiration,   \* 15 minutes, in ticks
    RefreshTokenExpiration,  \* 7 days, in ticks
    ZoneOffset,              \* the server's UTC offset, in ticks
    MaxTime                  \* bound on the clock

ASSUME ConstantsAssumption ==
    /\ TooLong \subseteq Passwords
    /\ Unknown \notin Tokens
    /\ None \notin Emails \union Passwords \union UserIds \union Tokens \union {Unknown}
    /\ AccessTokenExpiration \in Nat \ {0}
    /\ RefreshTokenExpiration \in Nat \ {0}
    /\ ZoneOffset \in Int
    /\ MaxTime \in Nat

VARIABLES
    now,            \* the clock every time.Now() reads
    users,          \* the rows of table users
    refreshTokens,  \* the rows of table refresh_tokens, without the revoked column
    revoked,        \* the tokens whose revoked column is TRUE
    req,            \* what each goroutine is doing
    accounts,       \* clients: the accounts a 201 has confirmed to them
    held,           \* clients: the refresh tokens a 200 has brought them
    jwts,           \* clients: the access tokens a 200 has brought them
    loggedOut       \* history: the tokens whose logout was answered 200

vars == <<now, users, refreshTokens, revoked, req, accounts, held, jwts, loggedOut>>
clients == <<accounts, held, jwts>>
tables == <<users, refreshTokens, revoked>>

-----------------------------------------------------------------------------
(* Rows, errors and requests                                                *)

\* hash: bcrypt hides the password, and verifies that password and no other.
UserRow == [id: UserIds, email: Emails, hash: Passwords]

\* Timestamps go to a TIMESTAMP column, which keeps the wall clock of the
\* server and forgets its zone; they are read back as UTC.
TokenRow == [token: Tokens, user: UserIds, expires: Int, created: Int]
Stored(instant) == instant + ZoneOffset

\* An error is its root cause and whether fmt.Errorf("...: %w") wrapped it.
Causes == {"none", "ErrUserAlreadyExists", "ErrInvalidCredentials", "ErrInvalidToken",
           "ErrTokenExpired", "ErrUserNotFound", "database", "bcrypt", "input"}
Error == [cause: Causes, wrapped: BOOLEAN]
Bare(cause) == [cause |-> cause, wrapped |-> FALSE]
Wrapped(cause) == [cause |-> cause, wrapped |-> TRUE]
NoError == Bare("none")

Ops == {"Register", "Login", "Refresh", "Logout", "GetProfile", "none"}

\* Where a request stands: before the statement of that name, or answered.
Pcs == {"idle", "Register.FindByEmail", "Register.Create", "Login.FindByEmail",
        "Login.CreateToken", "Refresh.FindByToken", "Refresh.CheckExpiry",
        "Refresh.FindByID", "Logout.Revoke", "GetProfile.FindByID", "answered"}

Statuses == {0, 200, 201, 400, 401, 409, 500}   \* 0: none yet

Request ==
    [pc: Pcs, op: Ops,
     email: Emails \union {None}, password: Passwords \union {None},
     token: Tokens \union {Unknown, None},   \* presented, or issued by Login
     user: UserIds \union {None},            \* the user the handler works for
     expires: Int,                           \* expires_at as read from the row
     checked: Nat,                           \* when that was compared to the clock
     jwtExp: Nat,                            \* exp claim of the token it signed
     late: BOOLEAN,                          \* history: came after the logout
     status: Statuses, err: Error]

Idle == [pc |-> "idle", op |-> "none", email |-> None, password |-> None,
         token |-> None, user |-> None, expires |-> 0, checked |-> 0, jwtExp |-> 0,
         late |-> FALSE, status |-> 0, err |-> NoError]

(* The statements of the repositories                                       *)

UsersWithEmail(e) == {u \in users : u.email = e}

\* Mutant: the WHERE clause of FindByID is lost.
AnyUser(id) == users
UsersWithID(id) == {u \in users : u.id = id}

\* Mutant: the column lost its UNIQUE.
NoUniqueEmail(e) == TRUE
\* Column constraint UNIQUE of users.email.
EmailIsFree(e) == UsersWithEmail(e) = {}

RowsWithToken(t) == {row \in refreshTokens : row.token = t}

\* Mutant: the revoked column is read and not looked at.
EvenIfRevoked(t) == RowsWithToken(t)
\* A revoked row is an error to FindByToken, as a missing one is; the
\* service makes the same of both.
FindByToken(t) == {row \in RowsWithToken(t) : row.token \notin revoked}

\* Mutants: a denylist of whatever the client sent; an UPDATE that hits no row.
DenyToken(t) == revoked \union {t}
RevokeNothing(t) == revoked
\* Column revoked after the UPDATE of Revoke.
Revoke(t) == revoked \union {row.token : row \in RowsWithToken(t)}

-----------------------------------------------------------------------------
(* What the handlers decide                                                 *)

\* Mutants: the comparison is off by one; it is gone.
ExpiredAtDeadline(expires) == now >= expires
NeverExpires(expires) == FALSE
\* time.Now().After(refreshToken.ExpiresAt)
Expired(expires) == now > expires

\* What each handler makes of an error of the service: Register compares the
\* text of the whole chain, Login and RefreshToken compare the error value,
\* so all three recognise an error only when nothing has wrapped it.
Recognised(op) ==
    CASE op = "Register" -> {Bare("ErrUserAlreadyExists")}
      [] op = "Login"    -> {Bare("ErrInvalidCredentials")}
      [] op = "Refresh"  -> {Bare("ErrInvalidToken"), Bare("ErrTokenExpired")}
      [] OTHER           -> {}
StatusOf(op, err) ==
    IF err \notin Recognised(op) THEN 500 ELSE IF op = "Register" THEN 409 ELSE 401

Become(r, q) == req' = [req EXCEPT ![r] = q]
Answered(q, status) == [q EXCEPT !.pc = "answered", !.status = status]
Failed(q, err) == [q EXCEPT !.pc = "answered", !.err = err, !.status = StatusOf(q.op, err)]
Reply(r, status) == Become(r, Answered(req[r], status))
Fail(r, err) == Become(r, Failed(req[r], err))

-----------------------------------------------------------------------------
(* Requests arrive                                                          *)

Receive(r, input) ==
    /\ req[r].pc = "idle"
    /\ Become(r, input)
    /\ UNCHANGED <<now, tables, clients, loggedOut>>

ReceiveRegister(r, e, p) ==
    Receive(r, [Idle EXCEPT !.pc = "Register.FindByEmail", !.op = "Register",
                            !.email = e, !.password = p])
ReceiveLogin(r, e, p) ==
    Receive(r, [Idle EXCEPT !.pc = "Login.FindByEmail", !.op = "Login",
                            !.email = e, !.password = p])
ReceiveRefresh(r, t) ==
    Receive(r, [Idle EXCEPT !.pc = "Refresh.FindByToken", !.op = "Refresh",
                            !.token = t, !.late = t \in loggedOut])

\* AuthMiddleware: golang-jwt accepts a token strictly before its exp.
Authenticated(j) == now < j.exp

\* The middleware answers 401: without a header "Bearer <token>", to a token
\* that the service has not signed, and to one that has expired.
ReceiveUnauthenticated(r) == Receive(r, Answered(Idle, 401))
ReceiveProtected(r, j, input) ==
    Receive(r, IF Authenticated(j) THEN input ELSE Answered(input, 401))
ReceiveLogout(r, j, t) ==
    ReceiveProtected(r, j, [Idle EXCEPT !.pc = "Logout.Revoke", !.op = "Logout",
                                        !.token = t])
ReceiveGetProfile(r, j) ==
    ReceiveProtected(r, j, [Idle EXCEPT !.pc = "GetProfile.FindByID",
                                        !.op = "GetProfile", !.user = j.sub])
\* DecodeAndValidate, Decode fail.
ReceiveInvalid(r) ==
    Receive(r, [Answered(Idle, 400) EXCEPT !.err = Bare("input")])

-----------------------------------------------------------------------------
(* Register: look the email up, hash the password, insert the row           *)

RegisterFindByEmail(r) ==
    /\ req[r].pc = "Register.FindByEmail"
    /\ \/ /\ UsersWithEmail(req[r].email) # {}
          /\ Fail(r, Bare("ErrUserAlreadyExists"))
       \/ /\ UsersWithEmail(req[r].email) = {}
          /\ req[r].password \in TooLong
          /\ Fail(r, Wrapped("bcrypt"))
       \/ /\ UsersWithEmail(req[r].email) = {}
          /\ req[r].password \notin TooLong
          /\ Become(r, [req[r] EXCEPT !.pc = "Register.Create"])
    /\ UNCHANGED <<now, tables, clients, loggedOut>>

\* Mutant: the error of Create is dropped.
RegisterDuplicateIgnored(r) ==
    /\ req[r].pc = "Register.Create"
    /\ ~EmailIsFree(req[r].email)
    /\ \E id \in UserIds :
         Become(r, [Answered(req[r], 201) EXCEPT !.user = id])
    /\ UNCHANGED <<now, tables, clients, loggedOut>>

\* UNIQUE (email): the insert of a second row for the email fails, and the
\* service wraps the repository's ErrUserAlreadyExists.
RegisterDuplicate(r) ==
    /\ req[r].pc = "Register.Create"
    /\ ~EmailIsFree(req[r].email)
    /\ Fail(r, Wrapped("ErrUserAlreadyExists"))
    /\ UNCHANGED <<now, tables, clients, loggedOut>>

\* The insert commits; its reply may still be lost on the way back.
RegisterCreate(r) ==
    /\ req[r].pc = "Register.Create"
    /\ EmailIsFree(req[r].email)
    /\ \E id \in UserIds :
         /\ \A u \in users : u.id # id
         /\ users' = users \union
                {[id |-> id, email |-> req[r].email, hash |-> req[r].password]}
         /\ \/ Become(r, [Answered(req[r], 201) EXCEPT !.user = id])
            \/ Fail(r, Wrapped("database"))
    /\ UNCHANGED <<now, refreshTokens, revoked, clients, loggedOut>>

-----------------------------------------------------------------------------
(* Login: look the user up, verify the password, sign, store a session      *)

LoginFindByEmail(r) ==
    /\ req[r].pc = "Login.FindByEmail"
    /\ \/ \E u \in UsersWithEmail(req[r].email) :
            /\ u.hash = req[r].password
            /\ Become(r, [req[r] EXCEPT !.pc = "Login.CreateToken", !.user = u.id,
                                         !.jwtExp = now + AccessTokenExpiration])
       \/ /\ \A u \in UsersWithEmail(req[r].email) : u.hash # req[r].password
          /\ Fail(r, Bare("ErrInvalidCredentials"))
    /\ UNCHANGED <<now, tables, clients, loggedOut>>

LoginCreateToken(r) ==
    /\ req[r].pc = "Login.CreateToken"
    /\ \E t \in Tokens :
         /\ RowsWithToken(t) = {}
         /\ refreshTokens' = refreshTokens \union
                {[token |-> t, user |-> req[r].user,
                  expires |-> Stored(now + RefreshTokenExpiration),
                  created |-> Stored(now)]}
         /\ \/ Become(r, [Answered(req[r], 200) EXCEPT !.token = t])
            \/ Fail(r, Wrapped("database"))
    /\ UNCHANGED <<now, users, revoked, clients, loggedOut>>

-----------------------------------------------------------------------------
(* RefreshToken: read the row, compare its expiry, read the user, sign      *)

RefreshFindByToken(r) ==
    /\ req[r].pc = "Refresh.FindByToken"
    /\ \/ \E row \in FindByToken(req[r].token) :
            Become(r, [req[r] EXCEPT !.pc = "Refresh.CheckExpiry",
                                      !.user = row.user, !.expires = row.expires])
       \/ /\ FindByToken(req[r].token) = {}
          /\ Fail(r, Bare("ErrInvalidToken"))
    /\ UNCHANGED <<now, tables, clients, loggedOut>>

RefreshCheckExpiry(r) ==
    /\ req[r].pc = "Refresh.CheckExpiry"
    /\ \/ /\ Expired(req[r].expires)
          /\ Fail(r, Bare("ErrTokenExpired"))
       \/ /\ ~Expired(req[r].expires)
          /\ Become(r, [req[r] EXCEPT !.pc = "Refresh.FindByID", !.checked = now])
    /\ UNCHANGED <<now, tables, clients, loggedOut>>

RefreshFindByID(r) ==
    /\ req[r].pc = "Refresh.FindByID"
    /\ \/ \E u \in UsersWithID(req[r].user) :
            Become(r, [Answered(req[r], 200) EXCEPT !.user = u.id,
                                                    !.jwtExp = now + AccessTokenExpiration])
       \/ /\ UsersWithID(req[r].user) = {}
          /\ Fail(r, Wrapped("ErrUserNotFound"))
    /\ UNCHANGED <<now, tables, clients, loggedOut>>

-----------------------------------------------------------------------------
(* Logout and GetProfile                                                    *)

\* No row for the token is reported as success.
LogoutRevoke(r) ==
    /\ req[r].pc = "Logout.Revoke"
    /\ revoked' = Revoke(req[r].token)
    /\ \/ /\ Reply(r, 200)
          /\ loggedOut' = loggedOut \union {req[r].token}
       \/ /\ RowsWithToken(req[r].token) # {}
          /\ Fail(r, Wrapped("database"))
          /\ UNCHANGED loggedOut
    /\ UNCHANGED <<now, users, refreshTokens, clients>>

GetProfileFindByID(r) ==
    /\ req[r].pc = "GetProfile.FindByID"
    /\ \/ /\ UsersWithID(req[r].user) # {}
          /\ Reply(r, 200)
       \/ /\ UsersWithID(req[r].user) = {}
          /\ Fail(r, Wrapped("ErrUserNotFound"))
    /\ UNCHANGED <<now, tables, clients, loggedOut>>

-----------------------------------------------------------------------------
(* Failures, replies, time                                                  *)

\* The statement fails without effect: connection lost, database down, or
\* the request's context cancelled because its client went away.
StatementFails(r) ==
    /\ req[r].pc \notin {"idle", "answered", "Refresh.CheckExpiry"}
    /\ Fail(r, Wrapped("database"))
    /\ UNCHANGED <<now, tables, clients, loggedOut>>

Deliver(r) ==
    /\ req[r].pc = "answered"
    /\ Become(r, Idle)
    /\ accounts' = IF req[r].status # 201 THEN accounts
                   ELSE accounts \union {[id |-> req[r].user, email |-> req[r].email,
                                          hash |-> req[r].password]}
    /\ held' = IF req[r].op = "Login" /\ req[r].status = 200
               THEN held \union {req[r].token} ELSE held
    /\ jwts' = IF req[r].op \in {"Login", "Refresh"} /\ req[r].status = 200
               THEN jwts \union {[sub |-> req[r].user, exp |-> req[r].jwtExp,
                                  via |-> req[r].token]}
               ELSE jwts
    /\ UNCHANGED <<now, tables, loggedOut>>

LoseReply(r) ==
    /\ req[r].pc = "answered"
    /\ Become(r, Idle)
    /\ UNCHANGED <<now, tables, clients, loggedOut>>

\* The process dies with every request in it; the database does not.
Crash ==
    /\ \E r \in Requests : req[r].pc # "idle"
    /\ req' = [r \in Requests |-> Idle]
    /\ UNCHANGED <<now, tables, clients, loggedOut>>

Tick ==
    /\ now < MaxTime
    /\ now' = now + 1
    /\ UNCHANGED <<tables, clients, req, loggedOut>>

-----------------------------------------------------------------------------

Init ==
    /\ now = 0
    /\ users = {}
    /\ refreshTokens = {}
    /\ revoked = {}
    /\ req = [r \in Requests |-> Idle]
    /\ accounts = {}
    /\ held = {}
    /\ jwts = {}
    /\ loggedOut = {}

Arrive(r) ==
    \/ \E e \in Emails, p \in Passwords : ReceiveRegister(r, e, p) \/ ReceiveLogin(r, e, p)
    \/ \E t \in held \union {Unknown} : ReceiveRefresh(r, t)
    \/ \E j \in jwts, t \in held \union {Unknown} : ReceiveLogout(r, j, t)
    \/ \E j \in jwts : ReceiveGetProfile(r, j)
    \/ ReceiveUnauthenticated(r) \/ ReceiveInvalid(r)

Handle(r) ==
    \/ RegisterFindByEmail(r) \/ RegisterDuplicate(r) \/ RegisterCreate(r)
    \/ LoginFindByEmail(r) \/ LoginCreateToken(r)
    \/ RefreshFindByToken(r) \/ RefreshCheckExpiry(r) \/ RefreshFindByID(r)
    \/ LogoutRevoke(r) \/ GetProfileFindByID(r)
    \/ StatementFails(r)

Next ==
    \/ \E r \in Requests : Arrive(r) \/ Handle(r) \/ Deliver(r) \/ LoseReply(r)
    \/ Crash
    \/ Tick

Spec == Init /\ [][Next]_vars

-----------------------------------------------------------------------------
(* Properties                                                               *)

\* Every variable has the type its declaration announces.
TypeOK ==
    /\ now \in 0..MaxTime
    /\ users \subseteq UserRow
    /\ refreshTokens \subseteq TokenRow
    /\ revoked \subseteq Tokens
    /\ req \in [Requests -> Request]
    /\ accounts \subseteq UserRow
    /\ held \subseteq Tokens
    /\ jwts \subseteq [sub: UserIds, exp: Nat, via: Tokens]
    /\ loggedOut \subseteq Tokens \union {Unknown}

\* Registrations of one email may race between the lookup and the insert of
\* Register; the table still never holds two rows for it.
OneAccountPerEmail ==
    \A u, v \in users : u.email = v.email => u = v

\* An account that a 201 confirmed to a client is the one, with its id and its
\* password, that every later login for the email finds, whatever other
\* registrations, failures and crashes came in between.
ConfirmedAccountsLast ==
    \A a \in accounts : UsersWithEmail(a.email) = {a}

\* Logout answered 200: no refresh that arrives afterwards is granted, not
\* even one that overlaps other refreshes of the token or follows a crash.
LogoutIsFinal ==
    \A r \in Requests : req[r].late => req[r].status # 200

\* The instant at which 7 days have gone by since the login.
TrueExpiry(row) == row.created - ZoneOffset + RefreshTokenExpiration

\* A refresh of a token a client was handed is refused only if somebody has
\* logged it out or its 7 days are over (user_service.go:150-162).
HeldTokenHonoured ==
    \A r \in Requests :
        /\ req[r].op = "Refresh"
        /\ req[r].token \in held
        /\ req[r].status = 401
        => \/ req[r].token \in revoked
           \/ \E row \in RowsWithToken(req[r].token) : now > TrueExpiry(row)

\* A refresh is granted only on a check made within the 7 days that follow
\* the login (user_service.go:21-23).
RefreshLifetime ==
    \A r \in Requests :
        req[r].op = "Refresh" /\ req[r].status = 200 =>
            \A row \in RowsWithToken(req[r].token) : req[r].checked <= TrueExpiry(row)

\* Access tokens keep to the session they come from: each names the user whose
\* login opened it, and that user is in the table.
AccessTokensKeepTheirSession ==
    \A j \in jwts :
        /\ \E row \in RowsWithToken(j.via) : row.user = j.sub
        /\ UsersWithID(j.sub) # {}

\* The middleware asks no table (auth.go:41), so access tokens outlive a logout.
\* But once no request is under way that had come before its answer, nobody is
\* handed another one of the session, and those out there lapse in 15 minutes.
Over(t) ==
    /\ t \in loggedOut
    /\ \A r \in Requests :
         req[r].op \in {"Login", "Refresh"} /\ req[r].token = t => req[r].late
AccessTo(t) == {j \in jwts : j.via = t}
LogoutEndsAccess ==
    [][\A t \in Tokens : Over(t) =>
          /\ AccessTo(t)' = AccessTo(t) /\ Over(t)'
          /\ \A j \in AccessTo(t) : j.exp <= now + AccessTokenExpiration]_vars

\* What user_handler.go:110-114 intends: a registration the service refused
\* because the email is taken is answered 409 Conflict.
DuplicateEmailIsConflict ==
    \A r \in Requests :
        req[r].op = "Register" /\ req[r].err.cause = "ErrUserAlreadyExists"
            => req[r].status = 409

-----------------------------------------------------------------------------
(* What the safety properties rest on                                       *)

Issued == {row.token : row \in refreshTokens}

\* A request at a statement has what the statement needs, and no status yet.
WellFormed(q) ==
    /\ q.pc # "answered" => q.status = 0
    /\ q.pc \in {"Register.FindByEmail", "Register.Create"} =>
         q.op = "Register" /\ q.email \in Emails /\ q.password \in Passwords
    /\ q.pc = "Login.FindByEmail" => q.op = "Login"
    /\ q.pc = "Login.CreateToken" => q.op = "Login" /\ q.user \in UserIds
    /\ q.pc = "Refresh.FindByToken" => q.op = "Refresh"
    /\ q.pc \in {"Refresh.CheckExpiry", "Refresh.FindByID"} =>
         q.op = "Refresh" /\ q.token \in Tokens
    /\ q.pc = "Logout.Revoke" => q.op = "Logout" /\ q.token \in Tokens \union {Unknown}
    /\ q.pc = "GetProfile.FindByID" => q.op = "GetProfile"
    /\ q.op \in {"Login", "Refresh"} /\ q.status = 200 =>
         q.user \in UserIds /\ q.token \in Tokens

\* What the tables hold for a request, and still will when its next statement
\* runs.
Sound(q) ==
    /\ q.status = 201 => [id |-> q.user, email |-> q.email, hash |-> q.password] \in users
    /\ q.token \in Issued \union {Unknown, None}
    /\ q.op \in {"Refresh", "Logout"} => q.token \in held \union {Unknown}
    /\ q.pc = "Login.CreateToken" =>
         \E u \in UsersWithID(q.user) : u.email = q.email /\ u.hash = q.password
    /\ q.op = "Login" /\ q.status = 200 =>
         \E row \in RowsWithToken(q.token) : row.user = q.user
    /\ \/ q.pc \in {"Refresh.CheckExpiry", "Refresh.FindByID"}
       \/ q.op = "Refresh" /\ q.status = 200
       => \E row \in RowsWithToken(q.token) : row.user = q.user /\ row.expires = q.expires
    /\ \/ q.pc = "Refresh.FindByID"
       \/ q.op = "Refresh" /\ q.status = 200
       => q.checked <= q.expires
    /\ q.op = "Refresh" /\ q.status = 401 =>
         \/ q.token \in revoked \union {Unknown}
         \/ \E row \in RowsWithToken(q.token) : now > row.expires
    /\ q.late => \/ q.pc = "Refresh.FindByToken" /\ q.token \in loggedOut
                 \/ q.pc = "answered" /\ q.status # 200

RequestsSound == \A r \in Requests : WellFormed(req[r]) /\ Sound(req[r])

\* The rows of refresh_tokens: one per token, of an existing user, 7 days long.
SessionsSound ==
    /\ \A x, y \in refreshTokens : x.token = y.token => x = y
    /\ \A row \in refreshTokens : /\ UsersWithID(row.user) # {}
                                 /\ row.expires = row.created + RefreshTokenExpiration

\* What clients know is in the tables; no client guesses a uuid that a later
\* login will draw.
ClientsSound ==
    /\ accounts \subseteq users
    /\ held \subseteq Issued
    /\ loggedOut \subseteq held \union {Unknown}
    /\ loggedOut \subseteq revoked \union {Unknown}

\* Inductive, and stronger than the properties above: it says what the tables
\* hold for each goroutine between its statements (user_service.go:69-177).
IInv ==
    /\ TypeOK
    /\ OneAccountPerEmail
    /\ AccessTokensKeepTheirSession
    /\ SessionsSound
    /\ ClientsSound
    /\ RequestsSound

=============================================================================
