--------------------------- MODULE UserAuthProofs ---------------------------
(***************************************************************************)
(* Theorems about UserAuth, for any number of requests, emails, users and  *)
(* tokens, any token lifetimes and any time zone of the server.            *)
(***************************************************************************)
EXTENDS UserAuth, TLAPS

-----------------------------------------------------------------------------
(* Requests, as records                                                     *)

\* An idle request is a request, and promises nothing.
LEMMA IdleSound == Idle \in Request /\ WellFormed(Idle) /\ Sound(Idle)
<1>1. Idle \in Request
  BY ConstantsAssumption
     DEF Idle, Request, Pcs, Ops, Statuses, Error, Causes, NoError, Bare
<1>2. WellFormed(Idle) /\ Sound(Idle)
  BY DEF Idle, WellFormed, Sound
<1> QED
  BY <1>1, <1>2

\* The steps, operations and codes the actions write are the declared ones.
LEMMA Names ==
    /\ "Register.FindByEmail" \in Pcs /\ "Register.Create" \in Pcs
    /\ "Login.FindByEmail" \in Pcs /\ "Login.CreateToken" \in Pcs
    /\ "Refresh.FindByToken" \in Pcs /\ "Refresh.CheckExpiry" \in Pcs
    /\ "Refresh.FindByID" \in Pcs /\ "Logout.Revoke" \in Pcs
    /\ "GetProfile.FindByID" \in Pcs /\ "answered" \in Pcs
    /\ "Register" \in Ops /\ "Login" \in Ops
    /\ "Refresh" \in Ops /\ "Logout" \in Ops
    /\ "GetProfile" \in Ops
    /\ 200 \in Statuses /\ 201 \in Statuses
    /\ 400 \in Statuses /\ 401 \in Statuses
    /\ "ErrUserAlreadyExists" \in Causes /\ "ErrInvalidCredentials" \in Causes
    /\ "ErrInvalidToken" \in Causes /\ "ErrTokenExpired" \in Causes
    /\ "ErrUserNotFound" \in Causes /\ "database" \in Causes
    /\ "bcrypt" \in Causes /\ "input" \in Causes
BY DEF Pcs, Ops, Statuses, Causes

\* Errors of the service and of the repositories are errors.
LEMMA ErrorType ==
    ASSUME NEW cause \in Causes
    PROVE  Bare(cause) \in Error /\ Wrapped(cause) \in Error
BY DEF Error, Bare, Wrapped

\* An error is never answered with a 2xx, and with 401 only if recognised.
LEMMA StatusOfType ==
    ASSUME NEW op, NEW err
    PROVE  /\ StatusOf(op, err) \in {401, 409, 500}
           /\ StatusOf(op, err) = 401 => err \in Recognised(op)
BY DEF StatusOf

\* An answer keeps the type of the request.
LEMMA AnsweredType ==
    ASSUME NEW q \in Request, NEW status \in Statuses
    PROVE  /\ Answered(q, status) \in Request
           /\ Answered(q, status) = [q EXCEPT !.pc = "answered", !.status = status]
BY Names DEF Answered, Request

\* A request that fails keeps its type, and from then on owes nothing but an
\* honest 401 to a refresh.
LEMMA FailedSound ==
    ASSUME NEW q \in Request, NEW err \in Error, WellFormed(q), Sound(q),
           q.op = "Refresh" /\ err \in Recognised("Refresh") =>
               \/ q.token \in revoked \union {Unknown}
               \/ \E row \in RowsWithToken(q.token) : now > row.expires
    PROVE  /\ Failed(q, err) \in Request
           /\ WellFormed(Failed(q, err))
           /\ Sound(Failed(q, err))
<1> DEFINE f == Failed(q, err)
<1>1. f \in Request
  <2>1. "answered" \in Pcs
    BY DEF Pcs
  <2>2. StatusOf(q.op, err) \in Statuses
    BY StatusOfType DEF Statuses
  <2> QED
    BY <2>1, <2>2 DEF Failed, Request
<1>2. /\ f.pc = "answered" /\ f.status \in {401, 409, 500}
      /\ f.op = q.op /\ f.token = q.token /\ f.late = q.late
      /\ f.status = 401 => err \in Recognised(q.op)
  BY StatusOfType DEF Failed, Request
<1>3. WellFormed(f)
  BY <1>2 DEF WellFormed
<1>4. Sound(f)
  BY <1>2 DEF Sound
<1> QED
  BY <1>1, <1>3, <1>4

\* Tables, clients and the clock only grow, and no promise made to a request
\* depends on their not growing.
LEMMA SoundMonotone ==
    ASSUME NEW q \in Request, Sound(q), TypeOK,
           users \subseteq users', refreshTokens \subseteq refreshTokens',
           revoked \subseteq revoked', held \subseteq held',
           loggedOut \subseteq loggedOut', now' \in Int, now <= now'
    PROVE  Sound(q)'
<1>1. \A t : RowsWithToken(t) \subseteq RowsWithToken(t)'
  BY DEF RowsWithToken
<1>2. \A id : UsersWithID(id) \subseteq UsersWithID(id)'
  BY DEF UsersWithID
<1>3. Issued \subseteq Issued'
  BY DEF Issued
<1>4. \A row \in RowsWithToken(q.token) : now > row.expires => now' > row.expires
  BY DEF RowsWithToken, TypeOK, TokenRow
<1> QED
  BY <1>1, <1>2, <1>3, <1>4 DEF Sound

\* One request moves and the rest of the state only grows: every request is
\* still a sound one.
LEMMA OthersSound ==
    ASSUME IInv, NEW r \in Requests, NEW q \in Request, Become(r, q),
           WellFormed(q), Sound(q)',
           users \subseteq users', refreshTokens \subseteq refreshTokens',
           revoked \subseteq revoked', held \subseteq held',
           loggedOut \subseteq loggedOut', now' \in Int, now <= now'
    PROVE  req' \in [Requests -> Request] /\ RequestsSound'
<1>1. req \in [Requests -> Request] /\ TypeOK
  BY DEF IInv, TypeOK
<1>2. req' \in [Requests -> Request] /\ req'[r] = q
  BY <1>1 DEF Become
<1>3. ASSUME NEW s \in Requests PROVE WellFormed(req'[s]) /\ Sound(req[s])'
  <2>1. CASE s = r
    BY <2>1, <1>2
  <2>2. CASE s # r
    <3>1. req'[s] = req[s]
      BY <2>2, <1>1 DEF Become
    <3>2. WellFormed(req[s]) /\ Sound(req[s])
      BY DEF IInv, RequestsSound
    <3>3. PICK p \in Request : p = req[s]
      BY <1>1
    <3>4. WellFormed(p) /\ Sound(p)
      BY <3>2, <3>3
    <3>5. Sound(p)'
      BY <3>4, <1>1, SoundMonotone
    <3>6. p = req'[s]
      BY <3>1, <3>3
    <3> QED
      BY <3>4, <3>5, <3>6
  <2> QED
    BY <2>1, <2>2
<1> QED
  BY <1>2, <1>3 DEF RequestsSound

-----------------------------------------------------------------------------
(* Steps that leave tables, clients and clock alone                         *)

\* What an answered request, or one with a later statement to run, needs of
\* an unchanged state.
LEMMA QuietStep ==
    ASSUME IInv, NEW r \in Requests, NEW q \in Request, Become(r, q),
           WellFormed(q), Sound(q),
           UNCHANGED <<now, tables, clients, loggedOut>>
    PROVE  IInv'
<1> USE DEF tables, clients
<1>1. Sound(q)'
  BY DEF Sound, Issued, RowsWithToken, UsersWithID
<1>2. req' \in [Requests -> Request] /\ RequestsSound'
  BY <1>1, OthersSound DEF IInv, TypeOK
<1>3. TypeOK'
  BY <1>2 DEF IInv, TypeOK
<1>4. OneAccountPerEmail' /\ AccessTokensKeepTheirSession'
  BY DEF IInv, OneAccountPerEmail, AccessTokensKeepTheirSession, RowsWithToken, UsersWithID
<1>5. SessionsSound' /\ ClientsSound'
  BY DEF IInv, SessionsSound, ClientsSound, Issued, UsersWithID
<1> QED
  BY <1>2, <1>3, <1>4, <1>5 DEF IInv

\* A request fails, for a reason the tables bear out if it is a refused refresh.
LEMMA FailStep ==
    ASSUME IInv, NEW r \in Requests, NEW err \in Error, Fail(r, err),
           UNCHANGED <<now, tables, clients, loggedOut>>,
           req[r].op = "Refresh" /\ err \in Recognised("Refresh") =>
               \/ req[r].token \in revoked \union {Unknown}
               \/ \E row \in RowsWithToken(req[r].token) : now > row.expires
    PROVE  IInv'
<1>1. req[r] \in Request /\ WellFormed(req[r]) /\ Sound(req[r])
  BY DEF IInv, TypeOK, RequestsSound
<1>2. /\ Failed(req[r], err) \in Request
      /\ WellFormed(Failed(req[r], err)) /\ Sound(Failed(req[r], err))
  BY <1>1, FailedSound
<1>3. PICK q \in Request : q = Failed(req[r], err)
  BY <1>2
<1>4. Become(r, q)
  BY <1>3 DEF Fail
<1> QED
  BY <1>2, <1>3, <1>4, QuietStep

\* An error none of the three handlers recognises is answered 500.
LEMMA Unrecognised ==
    ASSUME NEW cause
    PROVE  Wrapped(cause) \notin Recognised("Refresh")
BY DEF Wrapped, Bare, Recognised

\* A request that arrives is sound: its token is one that clients hold, its
\* logout or profile is of a user that some login has found.
LEMMA ArriveStep ==
    ASSUME IInv, NEW r \in Requests, Arrive(r)
    PROVE  IInv'
<1>1. ASSUME NEW e \in Emails, NEW p \in Passwords, ReceiveRegister(r, e, p)
      PROVE  IInv'
  <2> DEFINE q == [Idle EXCEPT !.pc = "Register.FindByEmail", !.op = "Register",
                               !.email = e, !.password = p]
  <2>1. q \in Request
    BY IdleSound, Names DEF Request
  <2>2. WellFormed(q) /\ Sound(q)
    BY DEF Idle, WellFormed, Sound
  <2>3. Become(r, q) /\ UNCHANGED <<now, tables, clients, loggedOut>>
    BY <1>1 DEF ReceiveRegister, Receive
  <2> HIDE DEF q
  <2> QED
    BY <2>1, <2>2, <2>3, QuietStep
<1>2. ASSUME NEW e \in Emails, NEW p \in Passwords, ReceiveLogin(r, e, p)
      PROVE  IInv'
  <2> DEFINE q == [Idle EXCEPT !.pc = "Login.FindByEmail", !.op = "Login",
                               !.email = e, !.password = p]
  <2>1. q \in Request
    BY IdleSound, Names DEF Request
  <2>2. WellFormed(q) /\ Sound(q)
    BY DEF Idle, WellFormed, Sound
  <2>3. Become(r, q) /\ UNCHANGED <<now, tables, clients, loggedOut>>
    BY <1>2 DEF ReceiveLogin, Receive
  <2> HIDE DEF q
  <2> QED
    BY <2>1, <2>2, <2>3, QuietStep
<1>3. ASSUME NEW t \in held \union {Unknown}, ReceiveRefresh(r, t)
      PROVE  IInv'
  <2>1. t \in Tokens \union {Unknown} /\ t \in Issued \union {Unknown}
    BY DEF IInv, TypeOK, ClientsSound
  <2>2. ASSUME NEW late \in BOOLEAN, late => t \in loggedOut,
               Receive(r, [Idle EXCEPT !.pc = "Refresh.FindByToken", !.op = "Refresh",
                                       !.token = t, !.late = late])
        PROVE  IInv'
    <3> DEFINE q == [Idle EXCEPT !.pc = "Refresh.FindByToken", !.op = "Refresh",
                                 !.token = t, !.late = late]
    <3>1. q \in Request
      BY <2>1, IdleSound, Names DEF Request
    <3>2. /\ q.pc = "Refresh.FindByToken" /\ q.op = "Refresh" /\ q.status = 0
          /\ q.token = t /\ q.late = late
      BY DEF Idle
    <3>3. Become(r, q) /\ UNCHANGED <<now, tables, clients, loggedOut>>
      BY <2>2 DEF Receive
    <3> HIDE DEF q
    <3>4. WellFormed(q) /\ Sound(q)
      BY <2>1, <2>2, <3>2 DEF WellFormed, Sound
    <3> QED
      BY <3>1, <3>3, <3>4, QuietStep
  <2>3. PICK late \in BOOLEAN : late = (t \in loggedOut)
    <3>1. (t \in loggedOut) \in BOOLEAN
      BY SMT
    <3> QED
      BY <3>1, Zenon
  <2>4. Receive(r, [Idle EXCEPT !.pc = "Refresh.FindByToken", !.op = "Refresh",
                                !.token = t, !.late = late])
    BY <1>3, <2>3, Zenon DEF ReceiveRefresh
  <2>5. late => t \in loggedOut
    BY <2>3, Zenon
  <2> QED
    BY <2>2, <2>4, <2>5, Zenon
<1>4. ASSUME NEW j \in jwts, NEW t \in held \union {Unknown}, ReceiveLogout(r, j, t)
      PROVE  IInv'
  <2> DEFINE q == [Idle EXCEPT !.pc = "Logout.Revoke", !.op = "Logout", !.token = t]
             d == Answered(q, 401)
  <2>1. t \in Tokens \union {Unknown} /\ t \in Issued \union {Unknown}
    BY DEF IInv, TypeOK, ClientsSound
  <2>2. q \in Request /\ d \in Request
    <3>1. q \in Request
      BY <2>1, IdleSound, Names DEF Request
    <3> HIDE DEF q
    <3> QED
      BY <3>1, AnsweredType, Names
  <2>3. WellFormed(q) /\ Sound(q) /\ WellFormed(d) /\ Sound(d)
    BY <2>1 DEF Idle, Answered, WellFormed, Sound
  <2>4. /\ Become(r, q) \/ Become(r, d)
        /\ UNCHANGED <<now, tables, clients, loggedOut>>
    BY <1>4 DEF ReceiveLogout, ReceiveProtected, Receive
  <2> HIDE DEF q, d
  <2> QED
    BY <2>2, <2>3, <2>4, QuietStep
<1>5. ASSUME NEW j \in jwts, ReceiveGetProfile(r, j)
      PROVE  IInv'
  <2> DEFINE q == [Idle EXCEPT !.pc = "GetProfile.FindByID", !.op = "GetProfile",
                               !.user = j.sub]
             d == Answered(q, 401)
  <2>1. j.sub \in UserIds
    BY DEF IInv, TypeOK
  <2>2. q \in Request /\ d \in Request
    <3>1. q \in Request
      BY <2>1, IdleSound, Names DEF Request
    <3> HIDE DEF q
    <3> QED
      BY <3>1, AnsweredType, Names
  <2>3. WellFormed(q) /\ Sound(q) /\ WellFormed(d) /\ Sound(d)
    BY DEF Idle, Answered, WellFormed, Sound
  <2>4. /\ Become(r, q) \/ Become(r, d)
        /\ UNCHANGED <<now, tables, clients, loggedOut>>
    BY <1>5 DEF ReceiveGetProfile, ReceiveProtected, Receive
  <2> HIDE DEF q, d
  <2> QED
    BY <2>2, <2>3, <2>4, QuietStep
<1>6. ASSUME ReceiveInvalid(r)
      PROVE  IInv'
  <2> DEFINE q == [Answered(Idle, 400) EXCEPT !.err = Bare("input")]
  <2>1. q \in Request
    <3>1. PICK a \in Request : a = Answered(Idle, 400)
      BY IdleSound, AnsweredType, Names
    <3>2. Bare("input") \in Error
      BY ErrorType, Names
    <3> QED
      BY <3>1, <3>2 DEF Request
  <2>2. WellFormed(q) /\ Sound(q)
    <3>1. /\ q.pc = "answered" /\ q.op = "none" /\ q.status = 400
          /\ q.token = None /\ q.late = FALSE
      BY <2>1 DEF Request, Idle, Answered
    <3> HIDE DEF q
    <3> QED
      BY <3>1 DEF WellFormed, Sound
  <2>3. Become(r, q) /\ UNCHANGED <<now, tables, clients, loggedOut>>
    BY <1>6 DEF ReceiveInvalid, Receive
  <2> HIDE DEF q
  <2> QED
    BY <2>1, <2>2, <2>3, QuietStep
<1>7. ASSUME ReceiveUnauthenticated(r)
      PROVE  IInv'
  <2> DEFINE q == Answered(Idle, 401)
  <2>1. q \in Request
    BY IdleSound, AnsweredType, Names
  <2>2. WellFormed(q) /\ Sound(q)
    <3>1. /\ q.pc = "answered" /\ q.op = "none" /\ q.status = 401
          /\ q.token = None /\ q.late = FALSE
      BY <2>1 DEF Request, Idle, Answered
    <3> HIDE DEF q
    <3> QED
      BY <3>1 DEF WellFormed, Sound
  <2>3. Become(r, q) /\ UNCHANGED <<now, tables, clients, loggedOut>>
    BY <1>7 DEF ReceiveUnauthenticated, Receive
  <2> HIDE DEF q
  <2> QED
    BY <2>1, <2>2, <2>3, QuietStep
<1> QED
  BY <1>1, <1>2, <1>3, <1>4, <1>5, <1>6, <1>7 DEF Arrive

\* The request a handler works on, as the invariant finds it.
LEMMA RequestInv ==
    ASSUME IInv, NEW r \in Requests
    PROVE  \E p \in Request : p = req[r] /\ WellFormed(p) /\ Sound(p)
BY DEF IInv, TypeOK, RequestsSound

LEMMA NowType ==
    ASSUME IInv
    PROVE  now \in Nat /\ now + AccessTokenExpiration \in Nat
<1>1. now \in Nat
  BY ConstantsAssumption DEF IInv, TypeOK
<1>2. AccessTokenExpiration \in Nat
  BY ConstantsAssumption
<1> QED
  BY <1>1, <1>2

-----------------------------------------------------------------------------
(* Steps that read the tables                                               *)

LEMMA RegisterFindByEmailStep ==
    ASSUME IInv, NEW r \in Requests, RegisterFindByEmail(r)
    PROVE  IInv'
<1>0. UNCHANGED <<now, tables, clients, loggedOut>>
  BY DEF RegisterFindByEmail
<1>1. PICK p \in Request : p = req[r] /\ WellFormed(p) /\ Sound(p)
  BY RequestInv
<1>2. p.pc = "Register.FindByEmail" /\ p.op = "Register"
  BY <1>1 DEF RegisterFindByEmail, WellFormed
<1>3. CASE \/ Fail(r, Bare("ErrUserAlreadyExists"))
           \/ Fail(r, Wrapped("bcrypt"))
  BY <1>1, <1>2, <1>3, <1>0, FailStep, ErrorType, Names
<1>4. CASE Become(r, [req[r] EXCEPT !.pc = "Register.Create"])
  <2> DEFINE q == [p EXCEPT !.pc = "Register.Create"]
  <2>1. q \in Request
    BY Names DEF Request
  <2>2. WellFormed(q) /\ Sound(q)
    BY <1>1, <1>2 DEF WellFormed, Sound, Request
  <2> QED
    BY <1>1, <1>4, <2>1, <2>2, <1>0, QuietStep
<1> QED
  BY <1>3, <1>4 DEF RegisterFindByEmail

LEMMA RegisterDuplicateStep ==
    ASSUME IInv, NEW r \in Requests, RegisterDuplicate(r)
    PROVE  IInv'
<1>1. req[r].op = "Register"
  BY RequestInv DEF RegisterDuplicate, WellFormed
<1> QED
  BY <1>1, FailStep, ErrorType, Names DEF RegisterDuplicate

LEMMA LoginFindByEmailStep ==
    ASSUME IInv, NEW r \in Requests, LoginFindByEmail(r)
    PROVE  IInv'
<1>0. UNCHANGED <<now, tables, clients, loggedOut>>
  BY DEF LoginFindByEmail
<1>1. PICK p \in Request : p = req[r] /\ WellFormed(p) /\ Sound(p)
  BY RequestInv
<1>2. p.pc = "Login.FindByEmail" /\ p.op = "Login" /\ p.status = 0
  BY <1>1 DEF LoginFindByEmail, WellFormed
<1>3. CASE Fail(r, Bare("ErrInvalidCredentials"))
  BY <1>1, <1>2, <1>3, <1>0, FailStep, ErrorType, Names
<1>4. ASSUME NEW u \in UsersWithEmail(req[r].email), u.hash = req[r].password,
             Become(r, [req[r] EXCEPT !.pc = "Login.CreateToken", !.user = u.id,
                                      !.jwtExp = now + AccessTokenExpiration])
      PROVE  IInv'
  <2>1. /\ u \in UsersWithID(u.id) /\ u.id \in UserIds
        /\ u.email = p.email /\ u.hash = p.password
    BY <1>1, <1>4 DEF UsersWithEmail, UsersWithID, IInv, TypeOK, UserRow
  <2>2. now + AccessTokenExpiration \in Nat
    BY NowType
  <2>3. PICK id \in UserIds, exp \in Nat :
          id = u.id /\ exp = now + AccessTokenExpiration
    BY <2>1, <2>2
  <2> DEFINE q == [p EXCEPT !.pc = "Login.CreateToken", !.user = id, !.jwtExp = exp]
  <2>4. q \in Request
    BY Names DEF Request
  <2>5. WellFormed(q) /\ Sound(q)
    <3>1. /\ q.pc = "Login.CreateToken" /\ q.user = u.id /\ q.op = "Login"
          /\ q.status = 0 /\ q.token = p.token /\ q.late = p.late
          /\ q.email = p.email /\ q.password = p.password
      BY <1>2, <2>3 DEF Request
    <3> HIDE DEF q
    <3>2. /\ q.user \in UserIds /\ u \in UsersWithID(q.user)
          /\ u.email = q.email /\ u.hash = q.password
      BY <2>1, <3>1
    <3>3. ~q.late /\ q.token \in Issued \union {Unknown, None}
      BY <1>1, <1>2, <3>1 DEF Sound
    <3>4. WellFormed(q)
      BY <3>1, <3>2 DEF WellFormed
    <3>5. Sound(q)
      BY <3>1, <3>2, <3>3 DEF Sound
    <3> QED
      BY <3>4, <3>5
  <2>6. Become(r, q)
    BY <1>1, <1>4, <2>3
  <2> QED
    BY <2>4, <2>5, <2>6, <1>0, QuietStep
<1> QED
  BY <1>3, <1>4 DEF LoginFindByEmail

LEMMA RefreshFindByTokenStep ==
    ASSUME IInv, NEW r \in Requests, RefreshFindByToken(r)
    PROVE  IInv'
<1>0. UNCHANGED <<now, tables, clients, loggedOut>>
  BY DEF RefreshFindByToken
<1>1. PICK p \in Request : p = req[r] /\ WellFormed(p) /\ Sound(p)
  BY RequestInv
<1>2. p.pc = "Refresh.FindByToken" /\ p.op = "Refresh" /\ p.status = 0
  BY <1>1 DEF RefreshFindByToken, WellFormed
<1>3. p.token \in held \union {Unknown}
  BY <1>1, <1>2 DEF Sound
<1>4. ASSUME FindByToken(req[r].token) = {}, Fail(r, Bare("ErrInvalidToken"))
      PROVE  IInv'
  <2>1. p.token \in revoked \union {Unknown}
    BY <1>1, <1>3, <1>4 DEF FindByToken, RowsWithToken, IInv, ClientsSound, Issued
  <2> QED
    BY <1>1, <1>4, <2>1, <1>0, FailStep, ErrorType, Names
<1>5. ASSUME NEW row \in FindByToken(req[r].token),
             Become(r, [req[r] EXCEPT !.pc = "Refresh.CheckExpiry",
                                      !.user = row.user, !.expires = row.expires])
      PROVE  IInv'
  <2>1. row \in RowsWithToken(p.token) /\ row.token = p.token /\ p.token \notin revoked
    BY <1>1 DEF FindByToken, RowsWithToken
  <2>2. p.token \in Tokens /\ row.user \in UserIds /\ row.expires \in Int
    BY <2>1 DEF RowsWithToken, IInv, TypeOK, TokenRow
  <2>3. ~p.late
    BY <1>1, <1>2, <2>1, <2>2, ConstantsAssumption DEF Sound, IInv, ClientsSound
  <2>4. PICK id \in UserIds, expires \in Int : id = row.user /\ expires = row.expires
    BY <2>2
  <2> DEFINE q == [p EXCEPT !.pc = "Refresh.CheckExpiry", !.user = id, !.expires = expires]
  <2>5. q \in Request
    BY Names DEF Request
  <2>6. WellFormed(q) /\ Sound(q)
    <3>1. /\ q.pc = "Refresh.CheckExpiry" /\ q.op = "Refresh" /\ q.status = 0
          /\ q.token = p.token /\ q.late = p.late
          /\ q.user = row.user /\ q.expires = row.expires
      BY <1>2, <2>4 DEF Request
    <3> HIDE DEF q
    <3>2. WellFormed(q)
      BY <2>2, <3>1 DEF WellFormed
    <3>3. ~q.late /\ q.token \in Issued \union {Unknown, None}
      BY <1>1, <2>3, <3>1 DEF Sound
    <3>4. q.token \in held \union {Unknown}
      BY <1>3, <3>1
    <3>5. \E x \in RowsWithToken(q.token) : x.user = q.user /\ x.expires = q.expires
      BY <2>1, <3>1
    <3>6. Sound(q)
      BY <3>1, <3>3, <3>4, <3>5 DEF Sound
    <3> QED
      BY <3>2, <3>6
  <2>7. Become(r, q)
    BY <1>1, <1>5, <2>4
  <2> QED
    BY <2>5, <2>6, <2>7, <1>0, QuietStep
<1> QED
  BY <1>4, <1>5 DEF RefreshFindByToken

LEMMA RefreshCheckExpiryStep ==
    ASSUME IInv, NEW r \in Requests, RefreshCheckExpiry(r)
    PROVE  IInv'
<1>0. UNCHANGED <<now, tables, clients, loggedOut>>
  BY DEF RefreshCheckExpiry
<1>1. PICK p \in Request : p = req[r] /\ WellFormed(p) /\ Sound(p)
  BY RequestInv
<1>2. p.pc = "Refresh.CheckExpiry" /\ p.op = "Refresh" /\ p.status = 0
  BY <1>1 DEF RefreshCheckExpiry, WellFormed
<1>3. PICK row \in RowsWithToken(p.token) : row.user = p.user /\ row.expires = p.expires
  BY <1>1, <1>2 DEF Sound
<1>4. CASE Expired(p.expires) /\ Fail(r, Bare("ErrTokenExpired"))
  <2>1. now > row.expires
    BY <1>3, <1>4 DEF Expired
  <2> QED
    BY <1>1, <1>3, <1>4, <2>1, <1>0, FailStep, ErrorType, Names
<1>5. CASE /\ ~Expired(p.expires)
           /\ Become(r, [req[r] EXCEPT !.pc = "Refresh.FindByID", !.checked = now])
  <2>1. PICK checked \in Nat : checked = now
    BY NowType
  <2> DEFINE q == [p EXCEPT !.pc = "Refresh.FindByID", !.checked = checked]
  <2>2. q \in Request
    BY Names DEF Request
  <2>3. checked <= p.expires
    BY <1>5, <2>1 DEF Expired, Request
  <2>4. WellFormed(q) /\ Sound(q)
    <3>1. /\ q.pc = "Refresh.FindByID" /\ q.op = "Refresh" /\ q.status = 0
          /\ q.token = p.token /\ q.late = p.late /\ q.user = p.user
          /\ q.expires = p.expires /\ q.checked = checked
      BY <1>2 DEF Request
    <3> HIDE DEF q
    <3> QED
      BY <1>1, <1>2, <1>3, <2>3, <3>1 DEF WellFormed, Sound
  <2> QED
    BY <1>1, <1>5, <2>1, <2>2, <2>4, <1>0, QuietStep
<1> QED
  BY <1>1, <1>4, <1>5 DEF RefreshCheckExpiry

LEMMA RefreshFindByIDStep ==
    ASSUME IInv, NEW r \in Requests, RefreshFindByID(r)
    PROVE  IInv'
<1>0. UNCHANGED <<now, tables, clients, loggedOut>>
  BY DEF RefreshFindByID
<1>1. PICK p \in Request : p = req[r] /\ WellFormed(p) /\ Sound(p)
  BY RequestInv
<1>2. p.pc = "Refresh.FindByID" /\ p.op = "Refresh" /\ p.token \in Tokens
  BY <1>1 DEF RefreshFindByID, WellFormed
<1>3. CASE Fail(r, Wrapped("ErrUserNotFound"))
  BY <1>3, <1>0, FailStep, ErrorType, Names, Unrecognised
<1>4. ASSUME NEW u \in UsersWithID(req[r].user),
             Become(r, [Answered(req[r], 200) EXCEPT !.user = u.id,
                                                     !.jwtExp = now + AccessTokenExpiration])
      PROVE  IInv'
  <2>1. u.id = p.user /\ u.id \in UserIds
    BY <1>1 DEF UsersWithID, IInv, TypeOK, UserRow
  <2>2. PICK id \in UserIds, exp \in Nat :
          id = u.id /\ exp = now + AccessTokenExpiration
    BY <2>1, NowType
  <2>3. PICK a \in Request : a = Answered(p, 200)
    BY AnsweredType, Names
  <2> DEFINE q == [a EXCEPT !.user = id, !.jwtExp = exp]
  <2>4. q \in Request
    BY DEF Request
  <2>5. ~p.late
    BY <1>1, <1>2 DEF Sound
  <2>6. /\ q.pc = "answered" /\ q.op = "Refresh" /\ q.status = 200
        /\ q.token = p.token /\ q.late = p.late /\ q.user = p.user
        /\ q.expires = p.expires /\ q.checked = p.checked
    BY <1>2, <2>1, <2>2, <2>3 DEF Request, Answered
  <2>7. Become(r, q)
    BY <1>1, <1>4, <2>2, <2>3
  <2>8. q.user \in UserIds
    BY <2>1, <2>6
  <2> HIDE DEF q
  <2>9. WellFormed(q)
    BY <1>2, <2>6, <2>8 DEF WellFormed
  <2>10. Sound(q)
    <3>1. ~q.late
      BY <2>5, <2>6
    <3>2. q.token \in Issued \union {Unknown, None} /\ q.token \in held \union {Unknown}
      BY <1>1, <1>2, <2>6 DEF Sound
    <3>3. \E x \in RowsWithToken(q.token) : x.user = q.user /\ x.expires = q.expires
      BY <1>1, <1>2, <2>6 DEF Sound
    <3>4. q.checked <= q.expires
      BY <1>1, <1>2, <2>6 DEF Sound
    <3> QED
      BY <2>6, <3>1, <3>2, <3>3, <3>4 DEF Sound
  <2> QED
    BY <2>4, <2>7, <2>9, <2>10, <1>0, QuietStep
<1> QED
  BY <1>3, <1>4 DEF RefreshFindByID

LEMMA GetProfileFindByIDStep ==
    ASSUME IInv, NEW r \in Requests, GetProfileFindByID(r)
    PROVE  IInv'
<1>0. UNCHANGED <<now, tables, clients, loggedOut>>
  BY DEF GetProfileFindByID
<1>1. PICK p \in Request : p = req[r] /\ WellFormed(p) /\ Sound(p)
  BY RequestInv
<1>2. p.pc = "GetProfile.FindByID" /\ p.op = "GetProfile"
  BY <1>1 DEF GetProfileFindByID, WellFormed
<1>3. CASE Fail(r, Wrapped("ErrUserNotFound"))
  BY <1>3, <1>0, FailStep, ErrorType, Names, Unrecognised
<1>4. CASE Reply(r, 200)
  <2>1. PICK q \in Request : q = Answered(p, 200)
    BY AnsweredType, Names
  <2>2. /\ q.pc = "answered" /\ q.op = "GetProfile" /\ q.status = 200
        /\ q.token = p.token /\ ~q.late
    BY <1>1, <1>2, <2>1 DEF Request, Answered, Sound
  <2>3. WellFormed(q) /\ Sound(q)
    BY <1>1, <2>2 DEF WellFormed, Sound
  <2> QED
    BY <1>1, <1>4, <2>1, <2>3, <1>0, QuietStep DEF Reply
<1> QED
  BY <1>3, <1>4 DEF GetProfileFindByID

LEMMA StatementFailsStep ==
    ASSUME IInv, NEW r \in Requests, StatementFails(r)
    PROVE  IInv'
BY FailStep, ErrorType, Names, Unrecognised DEF StatementFails

LEMMA LoseReplyStep ==
    ASSUME IInv, NEW r \in Requests, LoseReply(r)
    PROVE  IInv'
BY IdleSound, QuietStep DEF LoseReply

-----------------------------------------------------------------------------
(* Steps that write                                                         *)

\* A new row of users: its email and its id are new, so no account, session or
\* request is about it yet.
LEMMA RegisterCreateStep ==
    ASSUME IInv, NEW r \in Requests, RegisterCreate(r)
    PROVE  IInv'
<1>0. UNCHANGED <<now, refreshTokens, revoked, clients, loggedOut>>
  BY DEF RegisterCreate
<1>1. PICK p \in Request : p = req[r] /\ WellFormed(p) /\ Sound(p)
  BY RequestInv
<1>2. /\ p.pc = "Register.Create" /\ p.op = "Register"
      /\ p.email \in Emails /\ p.password \in Passwords
  BY <1>1 DEF RegisterCreate, WellFormed
<1>3. PICK id \in UserIds :
        /\ \A u \in users : u.id # id
        /\ users' = users \union {[id |-> id, email |-> p.email, hash |-> p.password]}
        /\ \/ Become(r, [Answered(p, 201) EXCEPT !.user = id])
           \/ Become(r, Failed(p, Wrapped("database")))
  BY <1>1 DEF RegisterCreate, Fail
<1>4. \A u \in users : u.email # p.email
  BY <1>1 DEF RegisterCreate, EmailIsFree, UsersWithEmail
<1>5. \E q \in Request : Become(r, q) /\ WellFormed(q) /\ Sound(q)'
  <2>1. CASE Become(r, Failed(p, Wrapped("database")))
    <3>1. PICK q \in Request : q = Failed(p, Wrapped("database"))
      BY <1>1, FailedSound, ErrorType, Names, Unrecognised
    <3>2. WellFormed(q) /\ Sound(q)
      BY <1>1, <3>1, FailedSound, ErrorType, Names, Unrecognised
    <3>3. Sound(q)'
      BY <1>0, <1>3, <3>2, SoundMonotone, NowType DEF IInv, clients
    <3> QED
      BY <2>1, <3>1, <3>2, <3>3
  <2>2. CASE Become(r, [Answered(p, 201) EXCEPT !.user = id])
    <3>1. PICK a \in Request : a = Answered(p, 201)
      BY AnsweredType, Names
    <3> DEFINE q == [a EXCEPT !.user = id]
    <3>2. q \in Request
      BY DEF Request
    <3>3. /\ q.pc = "answered" /\ q.op = "Register" /\ q.status = 201 /\ q.user = id
          /\ q.email = p.email /\ q.password = p.password /\ q.token = p.token /\ ~q.late
      BY <1>1, <1>2, <3>1 DEF Request, Answered, Sound
    <3>4. Become(r, q)
      BY <2>2, <3>1
    <3> HIDE DEF q
    <3>5. [id |-> q.user, email |-> q.email, hash |-> q.password] \in users'
      BY <1>3, <3>3
    <3>6. q.token \in (Issued \union {Unknown, None})'
      BY <1>0, <1>1, <3>3 DEF Sound, Issued
    <3>7. WellFormed(q) /\ Sound(q)'
      BY <3>3, <3>5, <3>6 DEF WellFormed, Sound
    <3> QED
      BY <3>2, <3>4, <3>7
  <2> QED
    BY <1>3, <2>1, <2>2
<1>6. req' \in [Requests -> Request] /\ RequestsSound'
  BY <1>0, <1>3, <1>5, OthersSound, NowType DEF clients
<1>7. TypeOK'
  BY <1>0, <1>2, <1>3, <1>6 DEF IInv, TypeOK, UserRow, clients
<1>8. OneAccountPerEmail'
  BY <1>3, <1>4 DEF IInv, OneAccountPerEmail
<1>9. \A i : UsersWithID(i) \subseteq UsersWithID(i)'
  BY <1>3 DEF UsersWithID
<1>10. AccessTokensKeepTheirSession' /\ SessionsSound'
  BY <1>0, <1>9 DEF IInv, AccessTokensKeepTheirSession, SessionsSound, RowsWithToken, clients
<1>11. ClientsSound'
  BY <1>0, <1>3 DEF IInv, ClientsSound, Issued, clients
<1> QED
  BY <1>6, <1>7, <1>8, <1>10, <1>11 DEF IInv

\* A new row of refresh_tokens: its token is new, so it is in nobody's hands
\* and nobody has logged it out.
LEMMA LoginCreateTokenStep ==
    ASSUME IInv, NEW r \in Requests, LoginCreateToken(r)
    PROVE  IInv'
<1>0. UNCHANGED <<now, users, revoked, clients, loggedOut>>
  BY DEF LoginCreateToken
<1>1. PICK p \in Request : p = req[r] /\ WellFormed(p) /\ Sound(p)
  BY RequestInv
<1>2. /\ p.pc = "Login.CreateToken" /\ p.op = "Login" /\ p.user \in UserIds
      /\ UsersWithID(p.user) # {}
  BY <1>1 DEF LoginCreateToken, WellFormed, Sound
<1>3. PICK t \in Tokens :
        /\ RowsWithToken(t) = {}
        /\ refreshTokens' = refreshTokens \union
               {[token |-> t, user |-> p.user,
                 expires |-> Stored(now + RefreshTokenExpiration),
                 created |-> Stored(now)]}
        /\ \/ Become(r, [Answered(p, 200) EXCEPT !.token = t])
           \/ Become(r, Failed(p, Wrapped("database")))
  BY <1>1 DEF LoginCreateToken, Fail
<1> DEFINE row == [token |-> t, user |-> p.user,
                   expires |-> Stored(now + RefreshTokenExpiration),
                   created |-> Stored(now)]
<1>4. /\ row \in TokenRow /\ row.token = t /\ row.user = p.user
      /\ row.expires = row.created + RefreshTokenExpiration
  <2>1. now \in Int /\ RefreshTokenExpiration \in Int /\ ZoneOffset \in Int
    BY NowType, ConstantsAssumption
  <2> QED
    BY <1>2, <2>1 DEF TokenRow, Stored
<1>5. refreshTokens' = refreshTokens \union {row}
  BY <1>3
<1> HIDE DEF row
<1>6. /\ \A x : RowsWithToken(x) \subseteq RowsWithToken(x)'
      /\ row \in RowsWithToken(t)' /\ Issued' = Issued \union {t}
  BY <1>4, <1>5 DEF RowsWithToken, Issued
<1>7. \E q \in Request : Become(r, q) /\ WellFormed(q) /\ Sound(q)'
  <2>1. CASE Become(r, Failed(p, Wrapped("database")))
    <3>1. PICK q \in Request : q = Failed(p, Wrapped("database"))
      BY <1>1, FailedSound, ErrorType, Names, Unrecognised
    <3>2. WellFormed(q) /\ Sound(q)
      BY <1>1, <3>1, FailedSound, ErrorType, Names, Unrecognised
    <3>3. Sound(q)'
      BY <1>0, <1>5, <3>2, SoundMonotone, NowType DEF IInv, clients
    <3> QED
      BY <2>1, <3>1, <3>2, <3>3
  <2>2. CASE Become(r, [Answered(p, 200) EXCEPT !.token = t])
    <3>1. PICK a \in Request : a = Answered(p, 200)
      BY AnsweredType, Names
    <3> DEFINE q == [a EXCEPT !.token = t]
    <3>2. q \in Request
      BY DEF Request
    <3>3. /\ q.pc = "answered" /\ q.op = "Login" /\ q.status = 200
          /\ q.user = p.user /\ q.token = t /\ ~q.late
      BY <1>1, <1>2, <3>1 DEF Request, Answered, Sound
    <3>4. Become(r, q)
      BY <2>2, <3>1
    <3>5. q.user \in UserIds /\ q.token \in Tokens
      BY <1>2, <3>3
    <3> HIDE DEF q
    <3>6. WellFormed(q)
      BY <3>3, <3>5 DEF WellFormed
    <3>7. (\E x \in RowsWithToken(q.token) : x.user = q.user)'
      BY <1>4, <1>6, <3>3
    <3>8. q.token \in (Issued \union {Unknown, None})'
      BY <1>6, <3>3
    <3>9. Sound(q)'
      BY <3>3, <3>7, <3>8 DEF Sound
    <3> QED
      BY <3>2, <3>4, <3>6, <3>9
  <2> QED
    BY <1>3, <2>1, <2>2
<1>8. req' \in [Requests -> Request] /\ RequestsSound'
  BY <1>0, <1>5, <1>7, OthersSound, NowType DEF clients
<1>9. TypeOK'
  BY <1>0, <1>4, <1>5, <1>8 DEF IInv, TypeOK, clients
<1>10. OneAccountPerEmail'
  BY <1>0 DEF IInv, OneAccountPerEmail
<1>11. AccessTokensKeepTheirSession'
  BY <1>0, <1>6 DEF IInv, AccessTokensKeepTheirSession, UsersWithID, clients
<1>12. \A x \in refreshTokens : x.token # t
  BY <1>3 DEF RowsWithToken
<1>13. SessionsSound'
  BY <1>0, <1>2, <1>4, <1>5, <1>12 DEF IInv, SessionsSound, UsersWithID
<1>14. ClientsSound'
  BY <1>0, <1>6 DEF IInv, ClientsSound, clients
<1> QED
  BY <1>8, <1>9, <1>10, <1>11, <1>13, <1>14 DEF IInv

\* The revoked column of a token that no row has is not there to set; one that
\* was answered 200 is set for good.
LEMMA LogoutRevokeStep ==
    ASSUME IInv, NEW r \in Requests, LogoutRevoke(r)
    PROVE  IInv'
<1>0. UNCHANGED <<now, users, refreshTokens, clients>>
  BY DEF LogoutRevoke
<1>1. PICK p \in Request : p = req[r] /\ WellFormed(p) /\ Sound(p)
  BY RequestInv
<1>2. /\ p.pc = "Logout.Revoke" /\ p.op = "Logout" /\ p.token \in Tokens \union {Unknown}
      /\ p.token \in Issued \union {Unknown, None}
  BY <1>1 DEF LogoutRevoke, WellFormed, Sound
<1>3. /\ revoked' = Revoke(p.token)
      /\ \/ /\ Become(r, Answered(p, 200))
            /\ loggedOut' = loggedOut \union {p.token}
         \/ /\ Become(r, Failed(p, Wrapped("database")))
            /\ UNCHANGED loggedOut
  BY <1>1 DEF LogoutRevoke, Reply, Fail
<1>4. /\ revoked \subseteq revoked' /\ revoked' \subseteq Tokens
      /\ p.token \in Issued => p.token \in revoked'
  BY <1>3 DEF Revoke, RowsWithToken, Issued, IInv, TypeOK, TokenRow
<1>5. p.token \in held \union {Unknown} /\ p.token \in Issued \union {Unknown}
  BY <1>1, <1>2, ConstantsAssumption DEF Sound
<1>6. \E q \in Request : Become(r, q) /\ WellFormed(q) /\ Sound(q)'
  <2>1. CASE Become(r, Answered(p, 200))
    <3>1. PICK q \in Request : q = Answered(p, 200)
      BY AnsweredType, Names
    <3>2. /\ q.pc = "answered" /\ q.op = "Logout" /\ q.status = 200
          /\ q.token = p.token /\ ~q.late
      BY <1>1, <1>2, <3>1 DEF Request, Answered, Sound
    <3>3. q.token \in (Issued \union {Unknown, None})'
      BY <1>0, <1>2, <3>2 DEF Issued
    <3>4. q.token \in (held \union {Unknown})'
      BY <1>0, <1>5, <3>2 DEF clients
    <3>5. WellFormed(q) /\ Sound(q)'
      BY <3>2, <3>3, <3>4 DEF WellFormed, Sound
    <3> QED
      BY <2>1, <3>1, <3>5
  <2>2. CASE Become(r, Failed(p, Wrapped("database")))
    <3>1. PICK q \in Request : q = Failed(p, Wrapped("database"))
      BY <1>1, FailedSound, ErrorType, Names, Unrecognised
    <3>2. WellFormed(q) /\ Sound(q)
      BY <1>1, <3>1, FailedSound, ErrorType, Names, Unrecognised
    <3>3. Sound(q)'
      BY <1>0, <1>3, <1>4, <3>2, SoundMonotone, NowType DEF IInv, clients
    <3> QED
      BY <2>2, <3>1, <3>2, <3>3
  <2> QED
    BY <1>3, <2>1, <2>2
<1>7. req' \in [Requests -> Request] /\ RequestsSound'
  BY <1>0, <1>3, <1>4, <1>6, OthersSound, NowType DEF clients
<1>8. TypeOK'
  BY <1>0, <1>2, <1>3, <1>4, <1>7 DEF IInv, TypeOK, clients
<1>9. OneAccountPerEmail' /\ AccessTokensKeepTheirSession' /\ SessionsSound'
  BY <1>0 DEF IInv, OneAccountPerEmail, AccessTokensKeepTheirSession, SessionsSound,
              RowsWithToken, UsersWithID, clients
<1>10. ClientsSound'
  BY <1>0, <1>3, <1>4, <1>5 DEF IInv, ClientsSound, Issued, clients
<1> QED
  BY <1>7, <1>8, <1>9, <1>10 DEF IInv

-----------------------------------------------------------------------------
(* Replies, crashes, time                                                   *)

\* What a reply tells its client is in the tables.
LEMMA DeliverStep ==
    ASSUME IInv, NEW r \in Requests, Deliver(r)
    PROVE  IInv'
<1>0. UNCHANGED <<now, tables, loggedOut>> /\ Become(r, Idle)
  BY DEF Deliver
<1>1. PICK p \in Request : p = req[r] /\ WellFormed(p) /\ Sound(p)
  BY RequestInv
<1>2. accounts \subseteq accounts' /\ held \subseteq held' /\ jwts \subseteq jwts'
  BY DEF Deliver
<1>3. \A a \in accounts' : a \in users
  BY <1>1 DEF Deliver, Sound, IInv, ClientsSound
<1>4. \A t \in held' : t \in Issued /\ t \in Tokens
  BY <1>1 DEF Deliver, Sound, WellFormed, Issued, RowsWithToken, IInv, ClientsSound, TypeOK
<1>5. \A j \in jwts' :
        /\ j \in [sub: UserIds, exp: Nat, via: Tokens]
        /\ \E row \in RowsWithToken(j.via) : row.user = j.sub
        /\ UsersWithID(j.sub) # {}
  <2>1. CASE jwts' = jwts
    BY <2>1 DEF IInv, TypeOK, AccessTokensKeepTheirSession
  <2>2. CASE /\ p.op \in {"Login", "Refresh"} /\ p.status = 200
             /\ jwts' = jwts \union {[sub |-> p.user, exp |-> p.jwtExp, via |-> p.token]}
    <3>1. p.user \in UserIds /\ p.token \in Tokens /\ p.jwtExp \in Nat
      BY <1>1, <2>2 DEF WellFormed, Request
    <3>2. PICK row \in RowsWithToken(p.token) : row.user = p.user
      BY <1>1, <2>2 DEF Sound
    <3>3. UsersWithID(p.user) # {}
      BY <3>2 DEF RowsWithToken, IInv, SessionsSound
    <3> QED
      BY <2>2, <3>1, <3>2, <3>3 DEF IInv, TypeOK, AccessTokensKeepTheirSession
  <2> QED
    BY <1>1, <2>1, <2>2 DEF Deliver
<1>6. WellFormed(Idle) /\ Sound(Idle)' /\ Idle \in Request
  BY IdleSound DEF Sound, Idle
<1>7. req' \in [Requests -> Request] /\ RequestsSound'
  BY <1>0, <1>2, <1>6, OthersSound, NowType DEF tables
<1>8. TypeOK'
  BY <1>0, <1>3, <1>4, <1>5, <1>7 DEF IInv, TypeOK, tables
<1>9. OneAccountPerEmail' /\ SessionsSound'
  BY <1>0 DEF IInv, OneAccountPerEmail, SessionsSound, UsersWithID, tables
<1>10. AccessTokensKeepTheirSession'
  BY <1>0, <1>5 DEF AccessTokensKeepTheirSession, RowsWithToken, UsersWithID, tables
<1>11. ClientsSound'
  BY <1>0, <1>2, <1>3, <1>4 DEF IInv, ClientsSound, Issued, tables
<1> QED
  BY <1>7, <1>8, <1>9, <1>10, <1>11 DEF IInv

LEMMA CrashStep ==
    ASSUME IInv, Crash
    PROVE  IInv'
<1>1. req' = [r \in Requests |-> Idle] /\ UNCHANGED <<now, tables, clients, loggedOut>>
  BY DEF Crash
<1> USE DEF tables, clients
<1>2. WellFormed(Idle) /\ Sound(Idle)' /\ Idle \in Request
  BY IdleSound DEF Sound, Idle
<1>3. TypeOK' /\ RequestsSound'
  BY <1>1, <1>2 DEF IInv, TypeOK, RequestsSound
<1>4. OneAccountPerEmail' /\ AccessTokensKeepTheirSession'
  BY <1>1 DEF IInv, OneAccountPerEmail, AccessTokensKeepTheirSession, RowsWithToken, UsersWithID
<1>5. SessionsSound' /\ ClientsSound'
  BY <1>1 DEF IInv, SessionsSound, ClientsSound, Issued, UsersWithID
<1> QED
  BY <1>3, <1>4, <1>5 DEF IInv

LEMMA TickStep ==
    ASSUME IInv, Tick
    PROVE  IInv'
<1>1. now' = now + 1 /\ now < MaxTime /\ UNCHANGED <<tables, clients, req, loggedOut>>
  BY DEF Tick
<1> USE DEF tables, clients
<1>2. now' \in 0..MaxTime /\ now <= now' /\ now' \in Int
  BY <1>1, ConstantsAssumption DEF IInv, TypeOK
<1>3. ASSUME NEW r \in Requests
      PROVE  WellFormed(req'[r]) /\ Sound(req[r])'
  <2>1. PICK p \in Request : p = req[r] /\ WellFormed(p) /\ Sound(p)
    BY RequestInv
  <2>2. Sound(p)'
    BY <1>1, <1>2, <2>1, SoundMonotone DEF IInv
  <2> QED
    BY <1>1, <2>1, <2>2
<1>4. TypeOK' /\ RequestsSound'
  BY <1>1, <1>2, <1>3 DEF IInv, TypeOK, RequestsSound
<1>5. OneAccountPerEmail' /\ AccessTokensKeepTheirSession'
  BY <1>1 DEF IInv, OneAccountPerEmail, AccessTokensKeepTheirSession, RowsWithToken, UsersWithID
<1>6. SessionsSound' /\ ClientsSound'
  BY <1>1 DEF IInv, SessionsSound, ClientsSound, Issued, UsersWithID
<1> QED
  BY <1>4, <1>5, <1>6 DEF IInv

-----------------------------------------------------------------------------
(* Theorems                                                                 *)

\* The inductive invariant holds in the initial state, when nothing is stored
\* and no request has come (user_service.go:55-66).
THEOREM InitIInv == Init => IInv
<1> SUFFICES ASSUME Init PROVE IInv
  OBVIOUS
<1>1. TypeOK
  BY IdleSound, ConstantsAssumption DEF Init, TypeOK
<1>2. RequestsSound
  BY IdleSound DEF Init, RequestsSound
<1>3. OneAccountPerEmail /\ AccessTokensKeepTheirSession /\ SessionsSound /\ ClientsSound
  BY DEF Init, OneAccountPerEmail, AccessTokensKeepTheirSession, SessionsSound, ClientsSound
<1> QED
  BY <1>1, <1>2, <1>3 DEF IInv

\* Every step of every request, whatever ran between its statements, preserves
\* the inductive invariant, and so do crashes and the passing of time
\* (user_service.go:69-264).
THEOREM NextIInv == IInv /\ [Next]_vars => IInv'
<1> SUFFICES ASSUME IInv, [Next]_vars PROVE IInv'
  OBVIOUS
<1>1. ASSUME NEW r \in Requests, Handle(r) PROVE IInv'
  BY <1>1, RegisterFindByEmailStep, RegisterDuplicateStep, RegisterCreateStep,
     LoginFindByEmailStep, LoginCreateTokenStep, RefreshFindByTokenStep,
     RefreshCheckExpiryStep, RefreshFindByIDStep, LogoutRevokeStep,
     GetProfileFindByIDStep, StatementFailsStep DEF Handle
<1>2. ASSUME NEW r \in Requests, Arrive(r) \/ Deliver(r) \/ LoseReply(r) PROVE IInv'
  BY <1>2, ArriveStep, DeliverStep, LoseReplyStep
<1>3. CASE Crash \/ Tick
  BY <1>3, CrashStep, TickStep
<1>4. CASE UNCHANGED vars
  BY <1>4 DEF vars, IInv, TypeOK, OneAccountPerEmail, AccessTokensKeepTheirSession,
              SessionsSound, ClientsSound, RequestsSound, Sound, Issued,
              RowsWithToken, UsersWithID
<1> QED
  BY <1>1, <1>2, <1>3, <1>4 DEF Next

\* The invariant holds in every reachable state of the five endpoints
\* (user_handler.go:87-287).
THEOREM Invariance == Spec => []IInv
BY InitIInv, NextIInv, PTL DEF Spec

\* Every variable keeps its type (the tables of migrations 00001 and 00002).
THEOREM TypeCorrect == Spec => []TypeOK
<1>1. IInv => TypeOK
  BY DEF IInv
<1> QED
  BY <1>1, Invariance, PTL

\* However registrations of one email race (user_service.go:71-98), the table
\* holds one row for it.
THEOREM UniqueEmails == Spec => []OneAccountPerEmail
<1>1. IInv => OneAccountPerEmail
  BY DEF IInv
<1> QED
  BY <1>1, Invariance, PTL

\* A client who was answered 201 keeps the account, and nobody else gets it
\* (user_handler.go:120-130).
THEOREM AccountsLast == Spec => []ConfirmedAccountsLast
<1>1. IInv => ConfirmedAccountsLast
  <2> SUFFICES ASSUME IInv, NEW a \in accounts
               PROVE  UsersWithEmail(a.email) = {a}
    BY DEF ConfirmedAccountsLast
  <2>1. a \in users
    BY DEF IInv, ClientsSound
  <2> QED
    BY <2>1 DEF IInv, OneAccountPerEmail, UsersWithEmail
<1> QED
  BY <1>1, Invariance, PTL

\* After a logout was answered 200 (user_handler.go:202) no refresh that comes
\* is granted, whatever overlaps and crashes in between.
THEOREM LogoutFinal == Spec => []LogoutIsFinal
<1>1. IInv => LogoutIsFinal
  <2> SUFFICES ASSUME IInv, NEW r \in Requests, req[r].late
               PROVE  req[r].status # 200
    BY DEF LogoutIsFinal
  <2>1. PICK p \in Request : p = req[r] /\ WellFormed(p) /\ Sound(p)
    BY RequestInv
  <2>2. \/ p.pc = "Refresh.FindByToken"
        \/ p.pc = "answered" /\ p.status # 200
    BY <2>1 DEF Sound
  <2>3. p.status # 200
    BY <2>1, <2>2 DEF WellFormed
  <2> QED
    BY <2>1, <2>3
<1> QED
  BY <1>1, Invariance, PTL

\* An access token is always for the user whose login opened its session
\* (user_service.go:164-171).
THEOREM TokensKeepSession == Spec => []AccessTokensKeepTheirSession
<1>1. IInv => AccessTokensKeepTheirSession
  BY DEF IInv
<1> QED
  BY <1>1, Invariance, PTL

\* What a session's row says of its lifetime, and the truth.
LEMMA ExpiryShift ==
    ASSUME IInv, NEW row \in refreshTokens
    PROVE  /\ row.expires \in Int /\ TrueExpiry(row) \in Int
           /\ row.expires = TrueExpiry(row) + ZoneOffset
<1>1. /\ row.created \in Int /\ row.expires \in Int
      /\ row.expires = row.created + RefreshTokenExpiration
  BY DEF IInv, TypeOK, TokenRow, SessionsSound
<1>2. RefreshTokenExpiration \in Int /\ ZoneOffset \in Int
  BY ConstantsAssumption
<1> QED
  BY <1>1, <1>2 DEF TrueExpiry

\* On a server at UTC or west of it no refresh is granted on a check made after
\* the 7 days (user_service.go:160); east of it the run MCServerAheadOfUTC
\* refutes the same property.
THEOREM LifetimeBounded ==
    ASSUME ZoneOffset <= 0
    PROVE  Spec => []RefreshLifetime
<1>1. IInv => RefreshLifetime
  <2> SUFFICES ASSUME IInv, NEW r \in Requests,
                      req[r].op = "Refresh", req[r].status = 200,
                      NEW row \in RowsWithToken(req[r].token)
               PROVE  req[r].checked <= TrueExpiry(row)
    BY DEF RefreshLifetime
  <2>1. PICK p \in Request : p = req[r] /\ Sound(p)
    BY RequestInv
  <2>2. PICK x \in RowsWithToken(p.token) : x.expires = p.expires
    BY <2>1 DEF Sound
  <2>3. x = row /\ row \in refreshTokens
    BY <2>1, <2>2 DEF RowsWithToken, IInv, SessionsSound
  <2>4. p.checked <= row.expires
    BY <2>1, <2>2, <2>3 DEF Sound
  <2>5. p.checked \in Int /\ ZoneOffset \in Int
    BY ConstantsAssumption DEF Request
  <2> QED
    BY <2>1, <2>3, <2>4, <2>5, ExpiryShift
<1> QED
  BY <1>1, Invariance, PTL

\* On a server at UTC or east of it a client that holds a token is refused only
\* after a logout or after the 7 days (user_service.go:150-162).
THEOREM TokensHonoured ==
    ASSUME ZoneOffset >= 0
    PROVE  Spec => []HeldTokenHonoured
<1>1. IInv => HeldTokenHonoured
  <2> SUFFICES ASSUME IInv, NEW r \in Requests,
                      req[r].op = "Refresh", req[r].token \in held,
                      req[r].status = 401, req[r].token \notin revoked
               PROVE  \E row \in RowsWithToken(req[r].token) : now > TrueExpiry(row)
    BY DEF HeldTokenHonoured
  <2>1. PICK p \in Request : p = req[r] /\ Sound(p)
    BY RequestInv
  <2>2. p.token # Unknown
    BY <2>1, ConstantsAssumption DEF IInv, TypeOK
  <2>3. PICK row \in RowsWithToken(p.token) : now > row.expires
    BY <2>1, <2>2 DEF Sound
  <2>4. row \in refreshTokens /\ now \in Int /\ ZoneOffset \in Int
    BY NowType, ConstantsAssumption DEF RowsWithToken
  <2>5. now > TrueExpiry(row)
    BY <2>3, <2>4, ExpiryShift
  <2> QED
    BY <2>1, <2>3, <2>5
<1> QED
  BY <1>1, Invariance, PTL

-----------------------------------------------------------------------------
(* Access tokens after a logout                                             *)

\* What a request may become in a step: it goes on with the session it has, or
\* takes up one that was never logged out, or is marked as late.
Continues(p, q) ==
    /\ q.jwtExp \in {0, p.jwtExp, now + AccessTokenExpiration}
    /\ q.op \in {"Login", "Refresh"} =>
         \/ q.op = p.op /\ q.token = p.token /\ (p.late => q.late)
         \/ q.token = None
         \/ q.token \in loggedOut => q.late
         \/ RowsWithToken(q.token) = {}

\* An answer goes on with what the request has.
LEMMA AnswerContinues ==
    ASSUME NEW p \in Request
    PROVE  /\ \A status : Continues(p, Answered(p, status))
           /\ \A err : Continues(p, Failed(p, err))
<1>1. ASSUME NEW status PROVE Continues(p, Answered(p, status))
  BY DEF Continues, Answered, Request
<1>2. ASSUME NEW err PROVE Continues(p, Failed(p, err))
  <2> DEFINE status == StatusOf(p.op, err)
  <2>1. Failed(p, err) = [p EXCEPT !.pc = "answered", !.err = err, !.status = status]
    BY DEF Failed
  <2> HIDE DEF status
  <2> QED
    BY <2>1 DEF Continues, Request
<1> QED
  BY <1>1, <1>2

\* A request that begins has neither an access token nor, but for a refresh, a
\* session.
LEMMA StartContinues ==
    ASSUME NEW p, NEW q, q.jwtExp = 0,
           q.op \notin {"Login", "Refresh"} \/ q.token = None
    PROVE  Continues(p, q)
BY DEF Continues

\* Every arrival is of a request without a session, or of one that is marked.
LEMMA ArriveContinues ==
    ASSUME NEW p \in Request, NEW r \in Requests, Arrive(r)
    PROVE  \E q : Become(r, q) /\ Continues(p, q)
<1>1. ASSUME NEW e \in Emails, NEW w \in Passwords,
             ReceiveRegister(r, e, w) \/ ReceiveLogin(r, e, w)
      PROVE  \E q : Become(r, q) /\ Continues(p, q)
  <2> DEFINE q(pc, op) == [Idle EXCEPT !.pc = pc, !.op = op, !.email = e, !.password = w]
  <2>1. \/ Become(r, q("Register.FindByEmail", "Register"))
        \/ Become(r, q("Login.FindByEmail", "Login"))
    BY <1>1 DEF ReceiveRegister, ReceiveLogin, Receive
  <2>2. \A pc, op : q(pc, op).jwtExp = 0 /\ q(pc, op).token = None
    BY DEF Idle
  <2> HIDE DEF q
  <2> QED
    BY <2>1, <2>2, StartContinues
<1>2. ASSUME NEW t \in held \union {Unknown}, ReceiveRefresh(r, t)
      PROVE  \E q : Become(r, q) /\ Continues(p, q)
  <2> DEFINE q == [Idle EXCEPT !.pc = "Refresh.FindByToken", !.op = "Refresh",
                               !.token = t, !.late = t \in loggedOut]
  <2>1. Become(r, q)
    BY <1>2 DEF ReceiveRefresh, Receive
  <2>2. q.jwtExp = 0 /\ q.token = t
    BY DEF Idle
  <2>3. q.late = (t \in loggedOut)
    BY Zenon DEF Idle
  <2>4. q.token \in loggedOut => q.late
    BY <2>2, <2>3, Zenon
  <2> HIDE DEF q
  <2> QED
    BY <2>1, <2>2, <2>4 DEF Continues
<1>3. ASSUME NEW j \in jwts, NEW t \in held \union {Unknown}, ReceiveLogout(r, j, t)
      PROVE  \E q : Become(r, q) /\ Continues(p, q)
  <2> DEFINE q == [Idle EXCEPT !.pc = "Logout.Revoke", !.op = "Logout", !.token = t]
             d == Answered(q, 401)
  <2>1. q.jwtExp = 0 /\ q.op = "Logout" /\ d.jwtExp = 0 /\ d.op = "Logout"
    BY DEF Idle, Answered
  <2>2. Become(r, q) \/ Become(r, d)
    BY <1>3 DEF ReceiveLogout, ReceiveProtected, Receive
  <2> HIDE DEF q, d
  <2> QED
    BY <2>1, <2>2, StartContinues
<1>4. ASSUME NEW j \in jwts, ReceiveGetProfile(r, j)
      PROVE  \E q : Become(r, q) /\ Continues(p, q)
  <2> DEFINE q == [Idle EXCEPT !.pc = "GetProfile.FindByID", !.op = "GetProfile",
                               !.user = j.sub]
             d == Answered(q, 401)
  <2>1. q.jwtExp = 0 /\ q.op = "GetProfile" /\ d.jwtExp = 0 /\ d.op = "GetProfile"
    BY DEF Idle, Answered
  <2>2. Become(r, q) \/ Become(r, d)
    BY <1>4 DEF ReceiveGetProfile, ReceiveProtected, Receive
  <2> HIDE DEF q, d
  <2> QED
    BY <2>1, <2>2, StartContinues
<1>5. CASE ReceiveUnauthenticated(r) \/ ReceiveInvalid(r)
  <2> DEFINE u == Answered(Idle, 401)
             i == [Answered(Idle, 400) EXCEPT !.err = Bare("input")]
  <2>1. u.jwtExp = 0 /\ u.op = "none" /\ i.jwtExp = 0 /\ i.op = "none"
    BY DEF Idle, Answered
  <2>2. Become(r, u) \/ Become(r, i)
    BY <1>5 DEF ReceiveUnauthenticated, ReceiveInvalid, Receive
  <2> HIDE DEF u, i
  <2> QED
    BY <2>1, <2>2, StartContinues
<1> QED
  BY <1>1, <1>2, <1>3, <1>4, <1>5 DEF Arrive

\* A statement, and a reply, leave the request its session; a login takes up a
\* token that nobody has.
LEMMA HandleContinues ==
    ASSUME IInv, NEW r \in Requests, Handle(r) \/ Deliver(r) \/ LoseReply(r)
    PROVE  \E q : Become(r, q) /\ Continues(req[r], q)
<1>1. PICK p \in Request : p = req[r]
  BY RequestInv
<1>2. SUFFICES \E q : Become(r, q) /\ Continues(p, q)
  BY <1>1
<1>3. CASE \E err : Fail(r, err)
  BY <1>1, <1>3, AnswerContinues DEF Fail
<1>4. CASE \E status : Reply(r, status)
  BY <1>1, <1>4, AnswerContinues DEF Reply
<1>5. CASE Become(r, Idle)
  BY <1>5, StartContinues DEF Idle
<1>6. CASE \E pc : Become(r, [req[r] EXCEPT !.pc = pc])
  <2>1. PICK pc : Become(r, [p EXCEPT !.pc = pc])
    BY <1>1, <1>6
  <2>2. Continues(p, [p EXCEPT !.pc = pc])
    BY DEF Continues, Request
  <2> QED
    BY <2>1, <2>2
<1>7. CASE \E id : Become(r, [Answered(req[r], 201) EXCEPT !.user = id])
  <2>1. PICK id : Become(r, [Answered(p, 201) EXCEPT !.user = id])
    BY <1>1, <1>7
  <2>2. Continues(p, [Answered(p, 201) EXCEPT !.user = id])
    BY DEF Continues, Answered, Request
  <2> QED
    BY <2>1, <2>2
<1>8. CASE LoginFindByEmail(r)
  <2>1. CASE \E err : Fail(r, err)
    BY <1>3, <2>1
  <2>2. CASE \E u : Become(r, [req[r] EXCEPT !.pc = "Login.CreateToken", !.user = u,
                                             !.jwtExp = now + AccessTokenExpiration])
    <3> DEFINE e == now + AccessTokenExpiration
               N(u) == [p EXCEPT !.pc = "Login.CreateToken", !.user = u, !.jwtExp = e]
    <3>1. PICK u : Become(r, N(u))
      BY <1>1, <2>2
    <3>2. N(u).jwtExp = e /\ N(u).op = p.op /\ N(u).token = p.token /\ N(u).late = p.late
      <4> HIDE DEF e
      <4> QED
        BY DEF Request
    <3> HIDE DEF N
    <3>3. Continues(p, N(u))
      BY <3>2, Zenon DEF Continues, e
    <3> QED
      BY <3>1, <3>3
  <2> QED
    BY <1>8, <2>1, <2>2 DEF LoginFindByEmail
<1>9. CASE LoginCreateToken(r)
  <2>1. CASE \E err : Fail(r, err)
    BY <1>3, <2>1
  <2>2. CASE \E t : RowsWithToken(t) = {} /\ Become(r, [Answered(req[r], 200) EXCEPT !.token = t])
    <3>1. PICK t : RowsWithToken(t) = {} /\ Become(r, [Answered(p, 200) EXCEPT !.token = t])
      BY <1>1, <2>2
    <3> DEFINE q == [Answered(p, 200) EXCEPT !.token = t]
    <3>2. q.token = t /\ q.jwtExp = p.jwtExp
      BY DEF Answered, Request
    <3> HIDE DEF q
    <3>3. Continues(p, q)
      BY <3>1, <3>2 DEF Continues
    <3> QED
      BY <3>1, <3>3 DEF q
  <2> QED
    BY <1>9, <2>1, <2>2 DEF LoginCreateToken
<1>10. CASE RefreshFindByToken(r)
  <2>1. CASE \E err : Fail(r, err)
    BY <1>3, <2>1
  <2>2. CASE \E row : Become(r, [req[r] EXCEPT !.pc = "Refresh.CheckExpiry",
                                               !.user = row.user, !.expires = row.expires])
    <3> DEFINE N(u, x) == [p EXCEPT !.pc = "Refresh.CheckExpiry", !.user = u, !.expires = x]
    <3>1. PICK row : Become(r, N(row.user, row.expires))
      BY <1>1, <2>2
    <3>2. \A u, x : Continues(p, N(u, x))
      BY DEF Continues, Request
    <3> HIDE DEF N
    <3> QED
      BY <3>1, <3>2
  <2> QED
    BY <1>10, <2>1, <2>2 DEF RefreshFindByToken
<1>11. CASE RefreshCheckExpiry(r)
  <2>1. CASE \E err : Fail(r, err)
    BY <1>3, <2>1
  <2>2. CASE Become(r, [req[r] EXCEPT !.pc = "Refresh.FindByID", !.checked = now])
    <3>1. Become(r, [p EXCEPT !.pc = "Refresh.FindByID", !.checked = now])
      BY <1>1, <2>2
    <3>2. Continues(p, [p EXCEPT !.pc = "Refresh.FindByID", !.checked = now])
      BY DEF Continues, Request
    <3> QED
      BY <3>1, <3>2
  <2> QED
    BY <1>11, <2>1, <2>2 DEF RefreshCheckExpiry
<1>12. CASE RefreshFindByID(r)
  <2>1. CASE \E err : Fail(r, err)
    BY <1>3, <2>1
  <2>2. CASE \E u : Become(r, [Answered(req[r], 200) EXCEPT !.user = u,
                                                 !.jwtExp = now + AccessTokenExpiration])
    <3> DEFINE e == now + AccessTokenExpiration
               N(u) == [Answered(p, 200) EXCEPT !.user = u, !.jwtExp = e]
    <3>1. PICK u : Become(r, N(u))
      BY <1>1, <2>2
    <3>2. N(u).jwtExp = e /\ N(u).op = p.op /\ N(u).token = p.token /\ N(u).late = p.late
      <4> HIDE DEF e
      <4> QED
        BY DEF Answered, Request
    <3> HIDE DEF N
    <3>3. Continues(p, N(u))
      BY <3>2, Zenon DEF Continues, e
    <3> QED
      BY <3>1, <3>3
  <2> QED
    BY <1>12, <2>1, <2>2 DEF RefreshFindByID
<1> QED
  BY <1>3, <1>4, <1>5, <1>6, <1>7, <1>8, <1>9, <1>10, <1>11, <1>12
     DEF Handle, RegisterFindByEmail, RegisterDuplicate, RegisterCreate, LogoutRevoke,
         GetProfileFindByID, StatementFails, Deliver, LoseReply

\* No access token, signed or handed out, lasts longer from now than a new one.
JInv ==
    /\ \A r \in Requests : req[r].jwtExp <= now + AccessTokenExpiration
    /\ \A j \in jwts : j.exp <= now + AccessTokenExpiration

\* One request moves, and everybody else keeps his.
LEMMA MoveContinues ==
    ASSUME IInv, NEW r \in Requests, Arrive(r) \/ Handle(r) \/ Deliver(r) \/ LoseReply(r)
    PROVE  /\ \A s \in Requests \ {r} : req'[s] = req[s]
           /\ Continues(req[r], req'[r])
           /\ now' = now /\ loggedOut \subseteq loggedOut'
           /\ ~Deliver(r) => jwts' = jwts
<1>1. PICK q : Become(r, q) /\ Continues(req[r], q)
  <2>1. CASE Arrive(r)
    BY <2>1, ArriveContinues, RequestInv
  <2>2. CASE ~Arrive(r)
    BY <2>2, HandleContinues
  <2> QED
    BY <2>1, <2>2
<1>2. req'[r] = q /\ \A s \in Requests \ {r} : req'[s] = req[s]
  BY <1>1 DEF Become, IInv, TypeOK
<1>3. now' = now /\ loggedOut \subseteq loggedOut' /\ (~Deliver(r) => jwts' = jwts)
  BY DEF Arrive, ReceiveRegister, ReceiveLogin, ReceiveRefresh, ReceiveLogout,
         ReceiveGetProfile, ReceiveUnauthenticated, ReceiveInvalid, ReceiveProtected, Receive,
         Handle, RegisterFindByEmail, RegisterDuplicate, RegisterCreate, LoginFindByEmail,
         LoginCreateToken, RefreshFindByToken, RefreshCheckExpiry, RefreshFindByID,
         LogoutRevoke, GetProfileFindByID, StatementFails, Deliver, LoseReply, clients
<1> QED
  BY <1>1, <1>2, <1>3

LEMMA JInvStep == IInv /\ JInv /\ [Next]_vars => JInv'
<1> SUFFICES ASSUME IInv, JInv, [Next]_vars PROVE JInv'
  OBVIOUS
<1>1. now \in Int /\ AccessTokenExpiration \in Nat
  BY NowType, ConstantsAssumption
<1>2. ASSUME NEW r \in Requests, Arrive(r) \/ Handle(r) \/ Deliver(r) \/ LoseReply(r)
      PROVE  JInv'
  <2>1. /\ \A s \in Requests \ {r} : req'[s] = req[s]
        /\ req'[r].jwtExp \in {0, req[r].jwtExp, now + AccessTokenExpiration}
        /\ now' = now
    BY <1>2, MoveContinues DEF Continues
  <2>2. \A s \in Requests : req'[s].jwtExp <= now + AccessTokenExpiration
    BY <1>1, <2>1 DEF JInv, IInv, TypeOK
  <2>3. \A j \in jwts' : j.exp <= now + AccessTokenExpiration
    <3>1. CASE Deliver(r)
      BY <3>1 DEF Deliver, JInv
    <3>2. CASE ~Deliver(r)
      BY <1>2, <3>2, MoveContinues DEF JInv
    <3> QED
      BY <3>1, <3>2
  <2> QED
    BY <2>1, <2>2, <2>3 DEF JInv
<1>3. CASE Crash
  BY <1>1, <1>3 DEF Crash, JInv, Idle, IInv, TypeOK, clients
<1>4. CASE Tick
  <2>1. now' = now + 1 /\ UNCHANGED <<req, jwts>>
    BY <1>4 DEF Tick, clients
  <2>2. (\A r \in Requests : req[r].jwtExp \in Int) /\ \A j \in jwts : j.exp \in Int
    BY DEF IInv, TypeOK, Request
  <2> QED
    BY <1>1, <2>1, <2>2 DEF JInv
<1>5. CASE UNCHANGED vars
  BY <1>5 DEF vars, JInv
<1> QED
  BY <1>2, <1>3, <1>4, <1>5 DEF Next

\* Once the logout of a session has been answered and no request is under way
\* that came before, none can bring another access token of it.
LEMMA AccessStep ==
    ASSUME IInv, [Next]_vars, NEW t \in Tokens, Over(t)
    PROVE  AccessTo(t)' = AccessTo(t) /\ Over(t)'
<1>1. t \in loggedOut /\ t # None /\ RowsWithToken(t) # {}
  BY ConstantsAssumption DEF Over, IInv, ClientsSound, Issued, RowsWithToken
<1>2. ASSUME NEW r \in Requests, Arrive(r) \/ Handle(r) \/ Deliver(r) \/ LoseReply(r)
      PROVE  AccessTo(t)' = AccessTo(t) /\ Over(t)'
  <2>1. /\ \A s \in Requests \ {r} : req'[s] = req[s]
        /\ Continues(req[r], req'[r])
        /\ t \in loggedOut'
    BY <1>1, <1>2, MoveContinues
  <2>2. req'[r].op \in {"Login", "Refresh"} /\ req'[r].token = t => req'[r].late
    <3> SUFFICES ASSUME req'[r].op \in {"Login", "Refresh"}, req'[r].token = t
                 PROVE  req'[r].late
      OBVIOUS
    <3>1. CASE /\ req'[r].op = req[r].op /\ req'[r].token = req[r].token
               /\ req[r].late => req'[r].late
      BY <3>1 DEF Over
    <3> QED
      BY <1>1, <2>1, <3>1 DEF Continues
  <2>3. Over(t)'
    BY <2>1, <2>2 DEF Over
  <2>4. AccessTo(t)' = AccessTo(t)
    <3>1. CASE jwts' = jwts
      BY <3>1 DEF AccessTo
    <3>2. CASE /\ req[r].op \in {"Login", "Refresh"} /\ req[r].status = 200
               /\ jwts' = jwts \union {[sub |-> req[r].user, exp |-> req[r].jwtExp,
                                        via |-> req[r].token]}
      <4>1. ~req[r].late
        <5>1. PICK p \in Request : p = req[r] /\ WellFormed(p) /\ Sound(p)
          BY RequestInv
        <5> QED
          BY <3>2, <5>1 DEF Sound, WellFormed
      <4>2. req[r].token # t
        BY <3>2, <4>1 DEF Over
      <4> QED
        BY <3>2, <4>2 DEF AccessTo
    <3> QED
      BY <1>2, <3>1, <3>2, MoveContinues DEF Deliver
  <2> QED
    BY <2>3, <2>4
<1>3. CASE Crash
  BY <1>3 DEF Crash, clients, Over, AccessTo, Idle
<1>4. CASE Tick
  BY <1>4 DEF Tick, clients, Over, AccessTo
<1>5. CASE UNCHANGED vars
  BY <1>5 DEF vars, Over, AccessTo
<1> QED
  BY <1>2, <1>3, <1>4, <1>5 DEF Next

\* The middleware asks no table (auth.go:41), and yet a logout ends the access of
\* its session within the 15 minutes of user_service.go:22: after the requests
\* that overlap it nobody is handed another access token, and those handed out
\* last no longer than a new one would.
THEOREM AccessEnds == Spec => LogoutEndsAccess
<1> DEFINE Ends == \A t \in Tokens : Over(t) =>
                     /\ AccessTo(t)' = AccessTo(t) /\ Over(t)'
                     /\ \A j \in AccessTo(t) : j.exp <= now + AccessTokenExpiration
<1>1. Init => JInv
  <2>1. AccessTokenExpiration \in Nat
    BY ConstantsAssumption
  <2> QED
    BY <2>1 DEF Init, JInv, Idle
<1>2. IInv /\ JInv /\ [Next]_vars => [Ends]_vars
  BY AccessStep DEF JInv, AccessTo
<1> QED
  BY <1>1, <1>2, JInvStep, Invariance, PTL DEF Spec, LogoutEndsAccess
=============================================================================
