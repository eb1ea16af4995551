---------------------- MODULE UserAuthRefinementProofs ----------------------
(***************************************************************************)
(* UserAuth implements AuthService, for any number of requests, emails,    *)
(* users and tokens, any token lifetimes and any time zone of the server.  *)
(***************************************************************************)
EXTENDS UserAuthRefinement, UserAuthProofs

-----------------------------------------------------------------------------
(* Requests, as calls                                                       *)

\* How a call stands, by where its request stands.
LEMMA PhaseOf ==
    ASSUME NEW q
    PROVE  /\ q.pc = "idle" => Phase(q) = "idle"
           /\ q.pc \in {"Refresh.CheckExpiry", "Refresh.FindByID"} => Phase(q) = "granted"
           /\ q.pc = "answered" => Phase(q) = Outcome(q.status)
           /\ q.pc \notin {"idle", "Refresh.CheckExpiry", "Refresh.FindByID", "answered"}
                => Phase(q) = "open"
BY DEF Phase

LEMMA Phases ==
    ASSUME NEW q
    PROVE  Phase(q) \in {"idle", "open", "granted", "ok", "refused", "error"}
BY DEF Phase, Outcome

LEMMA CallOfIdle == CallOf(Idle) = Promise!NoCall
<1>1. Phase(Idle) = "idle"
  BY PhaseOf DEF Idle
<1> QED
  BY <1>1 DEF CallOf, VisibleUser, Idle, Promise!NoCall

LEMMA CallType ==
    ASSUME NEW q \in Request
    PROVE  CallOf(q) \in Promise!Call
<1>1. /\ Phase(q) \in {"idle", "open", "granted"} \union Promise!Decided
      /\ VisibleUser(q) \in UserIds \union {None}
  BY Phases DEF VisibleUser, Request, Promise!Decided
<1> QED
  BY <1>1 DEF CallOf, Request, Ops, Promise!Call

\* A call gets further: one field of it changes.
LEMMA NextPhase ==
    ASSUME NEW phase, NEW op, NEW e, NEW w, NEW t, NEW u, NEW new
    PROVE  [[phase |-> phase, op |-> op, email |-> e, password |-> w, token |-> t,
             user |-> u] EXCEPT !.phase = new]
           = [phase |-> new, op |-> op, email |-> e, password |-> w, token |-> t, user |-> u]
BY SMT

LEMMA NextUser ==
    ASSUME NEW phase, NEW op, NEW e, NEW w, NEW t, NEW u, NEW new
    PROVE  [[phase |-> phase, op |-> op, email |-> e, password |-> w, token |-> t,
             user |-> u] EXCEPT !.user = new]
           = [phase |-> phase, op |-> op, email |-> e, password |-> w, token |-> t, user |-> new]
BY SMT

LEMMA NextToken ==
    ASSUME NEW phase, NEW op, NEW e, NEW w, NEW t, NEW u, NEW new
    PROVE  [[phase |-> phase, op |-> op, email |-> e, password |-> w, token |-> t,
             user |-> u] EXCEPT !.token = new]
           = [phase |-> phase, op |-> op, email |-> e, password |-> w, token |-> new, user |-> u]
BY SMT

\* One request moves, and one call.
LEMMA OneCall ==
    ASSUME TypeOK, NEW r \in Requests, NEW q, Become(r, q)
    PROVE  /\ Calls[r] = CallOf(req[r])
           /\ Calls' = [Calls EXCEPT ![r] = CallOf(q)]
BY DEF TypeOK, Become, Calls

\* A call is decided when the phase of its request says so.
LEMMA Decides ==
    ASSUME TypeOK, NEW r \in Requests, NEW p, NEW q, p = req[r], Become(r, q),
           q.op = p.op, q.email = p.email, q.password = p.password
    PROVE  /\ q.token = p.token /\ VisibleUser(q) = VisibleUser(p)
                => Promise!Decide(r, Phase(q))
           /\ q.token = p.token => Promise!DecideFor(r, Phase(q), VisibleUser(q))
<1> DEFINE c == CallOf(p)
           c1 == [c EXCEPT !.phase = Phase(q)]
           c2 == [c1 EXCEPT !.user = VisibleUser(q)]
<1>1. Calls[r] = c /\ Calls' = [Calls EXCEPT ![r] = CallOf(q)]
  BY OneCall
<1>2. c1 = [phase |-> Phase(q), op |-> p.op, email |-> p.email, password |-> p.password,
            token |-> p.token, user |-> VisibleUser(p)]
  BY NextPhase DEF CallOf
<1>3. c2 = [phase |-> Phase(q), op |-> p.op, email |-> p.email, password |-> p.password,
            token |-> p.token, user |-> VisibleUser(q)]
  <2> HIDE DEF c1
  <2> QED
    BY <1>2, NextUser
<1>5. /\ q.token = p.token /\ VisibleUser(q) = VisibleUser(p) => CallOf(q) = c1
      /\ q.token = p.token => CallOf(q) = c2
  <2> HIDE DEF c1, c2
  <2> QED
    BY <1>2, <1>3 DEF CallOf
<1>6. /\ [Calls EXCEPT ![r].phase = Phase(q)] = [Calls EXCEPT ![r] = c1]
      /\ [Calls EXCEPT ![r].phase = Phase(q), ![r].user = VisibleUser(q)]
           = [Calls EXCEPT ![r] = c2]
  <2>1. c = Calls[r]
    BY <1>1
  <2> HIDE DEF c
  <2> QED
    BY <2>1 DEF Calls
<1> HIDE DEF c, c1, c2
<1> QED
  BY <1>1, <1>5, <1>6 DEF Promise!Decide, Promise!DecideFor

\* A call that brings a session is decided.
LEMMA Grants ==
    ASSUME TypeOK, NEW r \in Requests, NEW p, NEW q, p = req[r], Become(r, q),
           q.op = p.op, q.email = p.email, q.password = p.password,
           Phase(q) = "ok"
    PROVE  Promise!Grant(r, VisibleUser(q), q.token)
<1> DEFINE phase == "ok"
           user == VisibleUser(q)
           token == q.token
           c1 == [CallOf(p) EXCEPT !.phase = phase]
           c2 == [c1 EXCEPT !.user = user]
           c3 == [c2 EXCEPT !.token = token]
<1>1. Calls[r] = CallOf(p) /\ Calls' = [Calls EXCEPT ![r] = CallOf(q)]
  BY OneCall
<1>2. c1 = [phase |-> phase, op |-> p.op, email |-> p.email, password |-> p.password,
            token |-> p.token, user |-> VisibleUser(p)]
  BY NextPhase DEF CallOf
<1>3. c2 = [phase |-> phase, op |-> p.op, email |-> p.email, password |-> p.password,
            token |-> p.token, user |-> user]
  <2> HIDE DEF c1
  <2> QED
    BY <1>2, NextUser
<1>4. c3 = [phase |-> phase, op |-> p.op, email |-> p.email, password |-> p.password,
            token |-> token, user |-> user]
  <2> HIDE DEF c2
  <2> QED
    BY <1>3, NextToken
<1>5. CallOf(q) = c3
  <2> HIDE DEF c3
  <2> QED
    BY <1>4 DEF CallOf
<1>6. [Calls EXCEPT ![r].phase = phase, ![r].user = user, ![r].token = token]
        = [Calls EXCEPT ![r] = c3]
  BY <1>1 DEF Calls
<1> HIDE DEF c3
<1> QED
  BY <1>1, <1>5, <1>6 DEF Promise!Grant

\* What the caller sees of a request.
LEMMA CallFields ==
    ASSUME NEW r \in Requests
    PROVE  /\ Calls[r].phase = Phase(req[r]) /\ Calls[r].op = req[r].op
           /\ Calls[r].email = req[r].email /\ Calls[r].password = req[r].password
           /\ Calls[r].token = req[r].token /\ Calls[r].user = VisibleUser(req[r])
BY DEF Calls, CallOf

\* The tables as the caller sees them.
LEMMA TablesSeen ==
    ASSUME UNCHANGED tables
    PROVE  UNCHANGED <<users, Sessions, revoked>>
BY DEF tables, Sessions

\* A request that gets further while its caller waits.
LEMMA Waits ==
    ASSUME TypeOK, NEW r \in Requests, NEW q, Become(r, q), CallOf(q) = CallOf(req[r]),
           UNCHANGED tables
    PROVE  UNCHANGED Promise!vars
<1>1. Calls' = Calls
  BY OneCall DEF Calls
<1> QED
  BY <1>1, TablesSeen DEF Promise!vars

\* A request that fails decides its call: refused if the handler recognises
\* the error, an error if not.
LEMMA Fails ==
    ASSUME TypeOK, NEW r \in Requests, NEW p \in Request, p = req[r],
           p.pc # "idle", p.pc # "answered", NEW err, Fail(r, err)
    PROVE  LET phase == IF err \in Recognised(p.op) THEN "refused" ELSE "error" IN
           /\ Phase(p) = "open" => Promise!Decide(r, phase)
           /\ p.op = "Refresh" => Promise!DecideFor(r, phase, None)
<1> DEFINE phase == IF err \in Recognised(p.op) THEN "refused" ELSE "error"
           q == Failed(p, err)
<1>1. /\ q.pc = "answered" /\ q.status = StatusOf(p.op, err)
      /\ q.op = p.op /\ q.email = p.email /\ q.password = p.password
      /\ q.token = p.token /\ q.user = p.user
  BY DEF Failed, Request
<1>2. Become(r, q)
  BY DEF Fail
<1> HIDE DEF q
<1>3. Phase(q) = phase
  <2>1. StatusOf(p.op, err) = (IF err \notin Recognised(p.op) THEN 500
                               ELSE IF p.op = "Register" THEN 409 ELSE 401)
    BY DEF StatusOf
  <2> QED
    BY <1>1, <2>1, PhaseOf DEF Outcome
<1> HIDE DEF phase
<1>4. Phase(q) \notin {"granted", "ok"}
  BY <1>3 DEF phase
<1>5. /\ Phase(p) = "open" => VisibleUser(q) = VisibleUser(p)
      /\ p.op = "Refresh" => VisibleUser(q) = None
  BY <1>1, <1>4 DEF VisibleUser
<1>6. /\ Phase(p) = "open" => Promise!Decide(r, phase)
      /\ p.op = "Refresh" => Promise!DecideFor(r, phase, None)
  <2>1. /\ VisibleUser(q) = VisibleUser(p) => Promise!Decide(r, Phase(q))
        /\ Promise!DecideFor(r, Phase(q), VisibleUser(q))
    BY <1>1, <1>2, Decides
  <2> QED
    BY <2>1, <1>3, <1>5
<1> QED
  BY <1>6 DEF phase

LEMMA FailsUnknown ==
    ASSUME NEW cause, NEW op
    PROVE  Wrapped(cause) \notin Recognised(op)
BY DEF Wrapped, Bare, Recognised

\* A failure before anything was done, of any kind the handlers do not know.
LEMMA GivesUp ==
    ASSUME TypeOK, NEW r \in Requests, NEW p \in Request, p = req[r],
           Phase(p) = "open", NEW cause, Fail(r, Wrapped(cause)), UNCHANGED tables
    PROVE  Promise!GiveUp(r)
<1>1. p.pc # "idle" /\ p.pc # "answered"
  BY PhaseOf DEF Outcome
<1>2. Promise!Decide(r, "error")
  BY <1>1, Fails, FailsUnknown
<1>3. Calls[r].phase = "open"
  BY CallFields
<1> QED
  BY <1>2, <1>3, TablesSeen DEF Promise!GiveUp

-----------------------------------------------------------------------------
(* Requests arrive                                                          *)

\* A request that arrives opens a call, or is turned down at the door.
LEMMA ArriveImpl ==
    ASSUME IInv, IInv', NEW r \in Requests, Arrive(r)
    PROVE  Promise!Start(r)
<1> DEFINE Opens(q) ==
             \/ q.pc \notin {"idle", "Refresh.CheckExpiry", "Refresh.FindByID", "answered"}
             \/ q.pc = "answered" /\ q.status \in {400, 401}
           Opened == \E q : Receive(r, q) /\ Opens(q)
<1>1. Opened
  <2>1. ASSUME NEW e \in Emails, NEW w \in Passwords, ReceiveRegister(r, e, w)
        PROVE  Opened
    <3> DEFINE q == [Idle EXCEPT !.pc = "Register.FindByEmail", !.op = "Register",
                                 !.email = e, !.password = w]
    <3>1. Receive(r, q)
      BY <2>1 DEF ReceiveRegister
    <3>2. q.pc = "Register.FindByEmail"
      BY DEF Idle, Answered
    <3> HIDE DEF q
    <3> QED
      BY <3>1, <3>2
  <2>2. ASSUME NEW e \in Emails, NEW w \in Passwords, ReceiveLogin(r, e, w)
        PROVE  Opened
    <3> DEFINE q == [Idle EXCEPT !.pc = "Login.FindByEmail", !.op = "Login",
                                 !.email = e, !.password = w]
    <3>1. Receive(r, q)
      BY <2>2 DEF ReceiveLogin
    <3>2. q.pc = "Login.FindByEmail"
      BY DEF Idle, Answered
    <3> HIDE DEF q
    <3> QED
      BY <3>1, <3>2
  <2>3. ASSUME NEW t, ReceiveRefresh(r, t)
        PROVE  Opened
    <3> DEFINE q == [Idle EXCEPT !.pc = "Refresh.FindByToken", !.op = "Refresh",
                                 !.token = t, !.late = t \in loggedOut]
    <3>1. Receive(r, q)
      BY <2>3 DEF ReceiveRefresh
    <3>2. q.pc = "Refresh.FindByToken"
      BY DEF Idle, Answered
    <3> HIDE DEF q
    <3> QED
      BY <3>1, <3>2
  <2>4. ASSUME NEW j, NEW t, ReceiveLogout(r, j, t)
        PROVE  Opened
    <3> DEFINE q == [Idle EXCEPT !.pc = "Logout.Revoke", !.op = "Logout", !.token = t]
               d == Answered(q, 401)
    <3>1. Receive(r, q) \/ Receive(r, d)
      BY <2>4 DEF ReceiveLogout, ReceiveProtected
    <3>2. q.pc = "Logout.Revoke" /\ d.pc = "answered" /\ d.status = 401
      BY DEF Idle, Answered
    <3> HIDE DEF q, d
    <3> QED
      BY <3>1, <3>2
  <2>5. ASSUME NEW j, ReceiveGetProfile(r, j)
        PROVE  Opened
    <3> DEFINE q == [Idle EXCEPT !.pc = "GetProfile.FindByID", !.op = "GetProfile",
                                 !.user = j.sub]
               d == Answered(q, 401)
    <3>1. Receive(r, q) \/ Receive(r, d)
      BY <2>5 DEF ReceiveGetProfile, ReceiveProtected
    <3>2. q.pc = "GetProfile.FindByID" /\ d.pc = "answered" /\ d.status = 401
      BY DEF Idle, Answered
    <3> HIDE DEF q, d
    <3> QED
      BY <3>1, <3>2
  <2>6. ASSUME ReceiveUnauthenticated(r) \/ ReceiveInvalid(r)
        PROVE  Opened
    <3> DEFINE q == Answered(Idle, 401)
               d == [Answered(Idle, 400) EXCEPT !.err = Bare("input")]
    <3>1. Receive(r, q) \/ Receive(r, d)
      BY <2>6 DEF ReceiveUnauthenticated, ReceiveInvalid
    <3>2. q.pc = "answered" /\ q.status = 401 /\ d.pc = "answered" /\ d.status = 400
      BY DEF Idle, Answered
    <3> HIDE DEF q, d
    <3> QED
      BY <3>1, <3>2
  <2> QED
    BY <2>1, <2>2, <2>3, <2>4, <2>5, <2>6 DEF Arrive
<1>2. PICK q : Receive(r, q) /\ Opens(q)
  BY <1>1
<1>3. Phase(q) \in {"open", "refused"}
  BY <1>2, PhaseOf DEF Outcome
<1>4. /\ req[r].pc = "idle" /\ Become(r, q) /\ UNCHANGED tables
  BY <1>2 DEF Receive
<1>5. TypeOK /\ TypeOK'
  BY DEF IInv
<1>6. Calls[r].phase = "idle"
  BY <1>4, CallFields, PhaseOf
<1>7. Calls' = [Calls EXCEPT ![r] = CallOf(q)]
  BY <1>4, <1>5, OneCall
<1>8. Calls' \in [Requests -> Promise!Call]
  <2>1. \A s \in Requests : CallOf(req'[s]) \in Promise!Call
    BY <1>5, CallType DEF TypeOK
  <2> QED
    BY <2>1 DEF Calls
<1>9. /\ Calls'[r].phase \in {"open", "refused"}
      /\ \A s \in Requests \ {r} : Calls'[s] = Calls[s]
  BY <1>3, <1>7 DEF Calls, CallOf
<1> QED
  BY <1>4, <1>6, <1>8, <1>9, TablesSeen DEF Promise!Start

-----------------------------------------------------------------------------
(* Register                                                                 *)

LEMMA RegisterFindByEmailImpl ==
    ASSUME IInv, NEW r \in Requests, RegisterFindByEmail(r)
    PROVE  Promise!RegisterRefused(r) \/ Promise!GiveUp(r) \/ UNCHANGED Promise!vars
<1>1. PICK p \in Request : p = req[r] /\ WellFormed(p) /\ Sound(p)
  BY RequestInv
<1>2. /\ p.pc = "Register.FindByEmail" /\ p.op = "Register"
      /\ UNCHANGED tables /\ TypeOK
  BY <1>1 DEF RegisterFindByEmail, WellFormed, IInv
<1>3. Phase(p) = "open"
  BY <1>2, PhaseOf
<1>4. CASE UsersWithEmail(p.email) # {} /\ Fail(r, Bare("ErrUserAlreadyExists"))
  <2>1. Bare("ErrUserAlreadyExists") \in Recognised(p.op)
    BY <1>2 DEF Recognised
  <2>2. Promise!Decide(r, "refused")
    BY <1>1, <1>2, <1>3, <1>4, <2>1, Fails
  <2>3. Promise!IsOpen(r, "Register") /\ \E u \in users : u.email = Calls[r].email
    BY <1>1, <1>2, <1>3, <1>4, CallFields DEF UsersWithEmail, Promise!IsOpen
  <2> QED
    BY <1>2, <2>2, <2>3, TablesSeen DEF Promise!RegisterRefused
<1>5. CASE Fail(r, Wrapped("bcrypt"))
  BY <1>1, <1>2, <1>3, <1>5, GivesUp
<1>6. CASE Become(r, [p EXCEPT !.pc = "Register.Create"])
  <2> DEFINE q == [p EXCEPT !.pc = "Register.Create"]
  <2>1. /\ q.pc = "Register.Create" /\ q.op = p.op /\ q.email = p.email
        /\ q.password = p.password /\ q.token = p.token /\ q.user = p.user
    BY DEF Request
  <2>2. Become(r, q)
    BY <1>6
  <2> HIDE DEF q
  <2>3. CallOf(q) = CallOf(p)
    BY <1>2, <1>3, <2>1, PhaseOf DEF CallOf, VisibleUser
  <2> QED
    BY <1>1, <1>2, <2>2, <2>3, Waits
<1> QED
  BY <1>1, <1>4, <1>5, <1>6 DEF RegisterFindByEmail

LEMMA RegisterDuplicateImpl ==
    ASSUME IInv, NEW r \in Requests, RegisterDuplicate(r)
    PROVE  Promise!GiveUp(r)
<1>1. PICK p \in Request : p = req[r]
  BY RequestInv
<1>2. p.pc = "Register.Create" /\ UNCHANGED tables /\ TypeOK
  BY <1>1 DEF RegisterDuplicate, IInv
<1>3. Phase(p) = "open"
  BY <1>2, PhaseOf
<1> QED
  BY <1>1, <1>2, <1>3, GivesUp DEF RegisterDuplicate

LEMMA RegisterCreateImpl ==
    ASSUME IInv, NEW r \in Requests, RegisterCreate(r)
    PROVE  Promise!Register(r)
<1>1. PICK p \in Request : p = req[r] /\ WellFormed(p) /\ Sound(p)
  BY RequestInv
<1>2. p.pc = "Register.Create" /\ p.op = "Register" /\ TypeOK
  BY <1>1 DEF RegisterCreate, WellFormed, IInv
<1>3. Phase(p) = "open"
  BY <1>2, PhaseOf
<1>4. PICK id \in UserIds :
        /\ \A u \in users : u.id # id
        /\ users' = users \union {[id |-> id, email |-> p.email, hash |-> p.password]}
        /\ \/ Become(r, [Answered(p, 201) EXCEPT !.user = id])
           \/ Fail(r, Wrapped("database"))
  BY <1>1 DEF RegisterCreate
<1>5. /\ Promise!IsOpen(r, "Register")
      /\ Calls[r].email = p.email /\ Calls[r].password = p.password
      /\ \A u \in users : u.email # Calls[r].email
  BY <1>1, <1>2, <1>3, CallFields
     DEF RegisterCreate, EmailIsFree, UsersWithEmail, Promise!IsOpen
<1>6. Promise!DecideFor(r, "ok", id) \/ Promise!Decide(r, "error")
  <2>1. CASE Become(r, [Answered(p, 201) EXCEPT !.user = id])
    <3> DEFINE q == [Answered(p, 201) EXCEPT !.user = id]
    <3>1. /\ q.pc = "answered" /\ q.status = 201 /\ q.op = p.op /\ q.email = p.email
          /\ q.password = p.password /\ q.token = p.token /\ q.user = id
      BY DEF Request, Answered
    <3>2. Become(r, q)
      BY <2>1
    <3> HIDE DEF q
    <3>3. Phase(q) = "ok" /\ VisibleUser(q) = id
      BY <1>2, <3>1, PhaseOf DEF Outcome, VisibleUser
    <3>4. Promise!DecideFor(r, Phase(q), VisibleUser(q))
      <4>1. p = req[r] /\ TypeOK
        BY <1>1, <1>2
      <4> QED
        BY <3>1, <3>2, <4>1, Decides, Zenon
    <3> QED
      BY <3>3, <3>4
  <2>2. CASE Fail(r, Wrapped("database"))
    BY <1>1, <1>2, <1>3, <2>2, Fails, FailsUnknown
  <2> QED
    BY <1>4, <2>1, <2>2
<1>7. UNCHANGED <<Sessions, revoked>>
  BY DEF RegisterCreate, Sessions
<1> QED
  BY <1>4, <1>5, <1>6, <1>7 DEF Promise!Register

-----------------------------------------------------------------------------
(* Login                                                                    *)

LEMMA LoginFindByEmailImpl ==
    ASSUME IInv, NEW r \in Requests, LoginFindByEmail(r)
    PROVE  Promise!LoginRefused(r) \/ UNCHANGED Promise!vars
<1>1. PICK p \in Request : p = req[r] /\ WellFormed(p) /\ Sound(p)
  BY RequestInv
<1>2. /\ p.pc = "Login.FindByEmail" /\ p.op = "Login"
      /\ UNCHANGED tables /\ TypeOK
  BY <1>1 DEF LoginFindByEmail, WellFormed, IInv
<1>3. Phase(p) = "open"
  BY <1>2, PhaseOf
<1>4. CASE /\ \A u \in UsersWithEmail(p.email) : u.hash # p.password
           /\ Fail(r, Bare("ErrInvalidCredentials"))
  <2>1. Bare("ErrInvalidCredentials") \in Recognised(p.op)
    BY <1>2 DEF Recognised
  <2>2. Promise!Decide(r, "refused")
    BY <1>1, <1>2, <1>3, <1>4, <2>1, Fails
  <2>3. /\ Promise!IsOpen(r, "Login")
        /\ Calls[r].email = p.email /\ Calls[r].password = p.password
    BY <1>1, <1>2, <1>3, CallFields DEF Promise!IsOpen
  <2>4. Promise!Matching(Calls[r].email, Calls[r].password) = {}
    BY <1>4, <2>3 DEF UsersWithEmail, Promise!Matching
  <2> QED
    BY <1>2, <2>2, <2>3, <2>4, TablesSeen DEF Promise!LoginRefused
<1>5. ASSUME NEW id, NEW exp,
             Become(r, [p EXCEPT !.pc = "Login.CreateToken", !.user = id, !.jwtExp = exp])
      PROVE  UNCHANGED Promise!vars
  <2> DEFINE q == [p EXCEPT !.pc = "Login.CreateToken", !.user = id, !.jwtExp = exp]
  <2>1. /\ q.pc = "Login.CreateToken" /\ q.op = p.op /\ q.email = p.email
        /\ q.password = p.password /\ q.token = p.token
    BY DEF Request
  <2>2. Become(r, q)
    BY <1>5
  <2> HIDE DEF q
  <2>3. CallOf(q) = CallOf(p)
    BY <1>2, <1>3, <2>1, PhaseOf DEF CallOf, VisibleUser
  <2> QED
    BY <1>1, <1>2, <2>2, <2>3, Waits
<1> QED
  BY <1>1, <1>4, <1>5 DEF LoginFindByEmail

LEMMA LoginCreateTokenImpl ==
    ASSUME IInv, NEW r \in Requests, LoginCreateToken(r)
    PROVE  Promise!Login(r)
<1>1. PICK p \in Request : p = req[r] /\ WellFormed(p) /\ Sound(p)
  BY RequestInv
<1>2. p.pc = "Login.CreateToken" /\ p.op = "Login" /\ TypeOK
  BY <1>1 DEF LoginCreateToken, WellFormed, IInv
<1>3. Phase(p) = "open"
  BY <1>2, PhaseOf
<1>4. PICK u \in users : u.id = p.user /\ u.email = p.email /\ u.hash = p.password
  BY <1>1, <1>2 DEF Sound, UsersWithID
<1>5. PICK t \in Tokens :
        /\ RowsWithToken(t) = {}
        /\ refreshTokens' = refreshTokens \union
               {[token |-> t, user |-> p.user,
                 expires |-> Stored(now + RefreshTokenExpiration),
                 created |-> Stored(now)]}
        /\ \/ Become(r, [Answered(p, 200) EXCEPT !.token = t])
           \/ Fail(r, Wrapped("database"))
  BY <1>1 DEF LoginCreateToken
<1>6. /\ Promise!IsOpen(r, "Login")
      /\ u \in Promise!Matching(Calls[r].email, Calls[r].password)
  BY <1>1, <1>2, <1>3, <1>4, CallFields DEF Promise!IsOpen, Promise!Matching
<1>7. /\ \A s \in Sessions : s.token # t
      /\ Sessions' = Sessions \union {[token |-> t, user |-> u.id]}
  <2> DEFINE row == [token |-> t, user |-> p.user,
                     expires |-> Stored(now + RefreshTokenExpiration),
                     created |-> Stored(now)]
  <2>1. SessionOf(row) = [token |-> t, user |-> u.id]
    BY <1>4 DEF SessionOf
  <2>2. refreshTokens' = refreshTokens \union {row}
    BY <1>5
  <2> HIDE DEF row
  <2>3. \A x \in refreshTokens : SessionOf(x).token # t
    BY <1>5 DEF SessionOf, RowsWithToken
  <2>4. Sessions' = Sessions \union {SessionOf(row)}
    BY <2>2 DEF Sessions
  <2> QED
    BY <2>1, <2>3, <2>4 DEF Sessions
<1>8. Promise!Grant(r, u.id, t) \/ Promise!Decide(r, "error")
  <2>1. CASE Become(r, [Answered(p, 200) EXCEPT !.token = t])
    <3> DEFINE q == [Answered(p, 200) EXCEPT !.token = t]
    <3>1. /\ q.pc = "answered" /\ q.status = 200 /\ q.op = p.op /\ q.email = p.email
          /\ q.password = p.password /\ q.token = t /\ q.user = p.user
      BY DEF Request, Answered
    <3>2. Become(r, q)
      BY <2>1
    <3> HIDE DEF q
    <3>3. Phase(q) = "ok" /\ VisibleUser(q) = u.id
      BY <1>2, <1>4, <3>1, PhaseOf DEF Outcome, VisibleUser
    <3>4. p = req[r] /\ TypeOK
      BY <1>1, <1>2
    <3>5. Promise!Grant(r, VisibleUser(q), q.token)
      BY <3>1, <3>2, <3>3, <3>4, Grants
    <3> QED
      BY <3>1, <3>3, <3>5
  <2>2. CASE Fail(r, Wrapped("database"))
    BY <1>1, <1>2, <1>3, <2>2, Fails, FailsUnknown
  <2> QED
    BY <1>5, <2>1, <2>2
<1>9. UNCHANGED <<users, revoked>>
  BY DEF LoginCreateToken
<1> QED
  BY <1>5, <1>6, <1>7, <1>8, <1>9 DEF Promise!Login

-----------------------------------------------------------------------------
(* Refresh                                                                  *)

LEMMA RefreshFindByTokenImpl ==
    ASSUME IInv, NEW r \in Requests, RefreshFindByToken(r)
    PROVE  Promise!Refresh(r) \/ Promise!RefreshRefused(r)
<1>1. PICK p \in Request : p = req[r] /\ WellFormed(p)
  BY RequestInv
<1>2. /\ p.pc = "Refresh.FindByToken" /\ p.op = "Refresh"
      /\ UNCHANGED tables /\ TypeOK
  BY <1>1 DEF RefreshFindByToken, WellFormed, IInv
<1>3. Phase(p) = "open"
  BY <1>2, PhaseOf
<1>4. Promise!IsOpen(r, "Refresh") /\ Calls[r].token = p.token
  BY <1>1, <1>2, <1>3, CallFields DEF Promise!IsOpen
<1>5. ASSUME NEW row \in FindByToken(p.token),
             Become(r, [p EXCEPT !.pc = "Refresh.CheckExpiry",
                                 !.user = row.user, !.expires = row.expires])
      PROVE  Promise!Refresh(r)
  <2> DEFINE q == [p EXCEPT !.pc = "Refresh.CheckExpiry",
                            !.user = row.user, !.expires = row.expires]
  <2>1. /\ q.pc = "Refresh.CheckExpiry" /\ q.op = p.op /\ q.email = p.email
        /\ q.password = p.password /\ q.token = p.token /\ q.user = row.user
    BY DEF Request
  <2>2. Become(r, q)
    BY <1>5
  <2> HIDE DEF q
  <2>3. Phase(q) = "granted" /\ VisibleUser(q) = row.user
    BY <1>2, <2>1, PhaseOf DEF VisibleUser
  <2>4. p = req[r] /\ TypeOK
    BY <1>1, <1>2
  <2>5. Promise!DecideFor(r, Phase(q), VisibleUser(q))
    BY <2>1, <2>2, <2>4, Decides
  <2>6. /\ SessionOf(row) \in Sessions /\ SessionOf(row).user = row.user
        /\ SessionOf(row).token = p.token /\ p.token \notin revoked
    BY DEF FindByToken, RowsWithToken, Sessions, SessionOf
  <2> QED
    BY <1>2, <1>4, <2>3, <2>5, <2>6, TablesSeen DEF Promise!Refresh
<1>6. CASE FindByToken(p.token) = {} /\ Fail(r, Bare("ErrInvalidToken"))
  <2>1. Bare("ErrInvalidToken") \in Recognised(p.op)
    BY <1>2 DEF Recognised
  <2>2. Promise!Decide(r, "refused")
    BY <1>1, <1>2, <1>3, <1>6, <2>1, Fails
  <2>3. \A x \in Sessions : x.token = Calls[r].token => x.token \in revoked
    BY <1>4, <1>6 DEF FindByToken, RowsWithToken, Sessions, SessionOf
  <2> QED
    BY <1>2, <1>4, <2>2, <2>3, TablesSeen DEF Promise!RefreshRefused
<1> QED
  BY <1>1, <1>5, <1>6 DEF RefreshFindByToken

\* A refresh that was granted and does not come through.
LEMMA Lapses ==
    ASSUME TypeOK, NEW r \in Requests, NEW p \in Request, p = req[r], WellFormed(p),
           p.pc \in {"Refresh.CheckExpiry", "Refresh.FindByID"}, NEW err, Fail(r, err),
           UNCHANGED tables
    PROVE  Promise!RefreshEnds(r)
<1>1. p.op = "Refresh" /\ p.pc # "idle" /\ p.pc # "answered"
  BY DEF WellFormed
<1>2. Promise!DecideFor(r, "refused", None) \/ Promise!DecideFor(r, "error", None)
  BY <1>1, Fails
<1>3. Calls[r].phase = "granted"
  BY CallFields, PhaseOf
<1> QED
  BY <1>2, <1>3, TablesSeen DEF Promise!RefreshEnds

LEMMA RefreshCheckExpiryImpl ==
    ASSUME IInv, NEW r \in Requests, RefreshCheckExpiry(r)
    PROVE  Promise!RefreshEnds(r) \/ UNCHANGED Promise!vars
<1>1. PICK p \in Request : p = req[r] /\ WellFormed(p)
  BY RequestInv
<1>2. p.pc = "Refresh.CheckExpiry" /\ UNCHANGED tables /\ TypeOK
  BY <1>1 DEF RefreshCheckExpiry, IInv
<1>3. CASE Fail(r, Bare("ErrTokenExpired"))
  BY <1>1, <1>2, <1>3, Lapses
<1>4. CASE Become(r, [p EXCEPT !.pc = "Refresh.FindByID", !.checked = now])
  <2> DEFINE q == [p EXCEPT !.pc = "Refresh.FindByID", !.checked = now]
  <2>1. /\ q.pc = "Refresh.FindByID" /\ q.op = p.op /\ q.email = p.email
        /\ q.password = p.password /\ q.token = p.token /\ q.user = p.user
    BY DEF Request
  <2>2. Become(r, q)
    BY <1>4
  <2> HIDE DEF q
  <2>3. CallOf(q) = CallOf(p)
    BY <1>2, <2>1, PhaseOf DEF CallOf, VisibleUser
  <2> QED
    BY <1>1, <1>2, <2>2, <2>3, Waits
<1> QED
  BY <1>1, <1>3, <1>4 DEF RefreshCheckExpiry

LEMMA RefreshFindByIDImpl ==
    ASSUME IInv, NEW r \in Requests, RefreshFindByID(r)
    PROVE  Promise!RefreshEnds(r)
<1>1. PICK p \in Request : p = req[r] /\ WellFormed(p)
  BY RequestInv
<1>2. /\ p.pc = "Refresh.FindByID" /\ p.op = "Refresh"
      /\ UNCHANGED tables /\ TypeOK
  BY <1>1 DEF RefreshFindByID, WellFormed, IInv
<1>3. /\ Phase(p) = "granted" /\ Calls[r].phase = "granted"
      /\ VisibleUser(p) = p.user /\ Calls[r].user = p.user
  BY <1>1, <1>2, CallFields, PhaseOf DEF VisibleUser
<1>4. CASE Fail(r, Wrapped("ErrUserNotFound"))
  BY <1>1, <1>2, <1>4, Lapses
<1>5. ASSUME NEW u \in UsersWithID(p.user), NEW exp,
             Become(r, [Answered(p, 200) EXCEPT !.user = u.id, !.jwtExp = exp])
      PROVE  Promise!RefreshEnds(r)
  <2> DEFINE q == [Answered(p, 200) EXCEPT !.user = u.id, !.jwtExp = exp]
  <2>1. /\ q.pc = "answered" /\ q.status = 200 /\ q.op = p.op /\ q.email = p.email
        /\ q.password = p.password /\ q.token = p.token /\ q.user = p.user
    BY DEF Request, Answered, UsersWithID
  <2>2. Become(r, q)
    BY <1>5
  <2> HIDE DEF q
  <2>3. Phase(q) = "ok" /\ VisibleUser(q) = VisibleUser(p)
    BY <1>3, <2>1, PhaseOf DEF Outcome, VisibleUser
  <2>4. p = req[r] /\ TypeOK
    BY <1>1, <1>2
  <2>5. Promise!Decide(r, Phase(q))
    BY <2>1, <2>2, <2>3, <2>4, Decides
  <2>6. \E x \in users : x.id = Calls[r].user
    BY <1>3 DEF UsersWithID
  <2> QED
    BY <1>2, <1>3, <2>3, <2>5, <2>6, TablesSeen DEF Promise!RefreshEnds
<1> QED
  BY <1>1, <1>4, <1>5 DEF RefreshFindByID

-----------------------------------------------------------------------------
(* Logout, GetProfile, failures                                             *)

\* An answer that brings its caller nothing but its status.
LEMMA Succeeds ==
    ASSUME TypeOK, NEW r \in Requests, NEW p \in Request, p = req[r],
           Phase(p) = "open", Reply(r, 200), p.op \in {"GetProfile", "Logout"}
    PROVE  Promise!Decide(r, "ok")
<1> DEFINE q == Answered(p, 200)
<1>1. /\ q.pc = "answered" /\ q.status = 200 /\ q.op = p.op /\ q.email = p.email
      /\ q.password = p.password /\ q.token = p.token /\ q.user = p.user
  BY DEF Request, Answered
<1>2. Become(r, q)
  BY DEF Reply
<1> HIDE DEF q
<1>3. Phase(q) = "ok" /\ VisibleUser(q) = VisibleUser(p)
  BY <1>1, PhaseOf DEF Outcome, VisibleUser
<1>4. Promise!Decide(r, Phase(q))
  BY <1>1, <1>2, <1>3, Decides
<1> QED
  BY <1>3, <1>4

LEMMA LogoutRevokeImpl ==
    ASSUME IInv, NEW r \in Requests, LogoutRevoke(r)
    PROVE  Promise!Logout(r)
<1>1. PICK p \in Request : p = req[r] /\ WellFormed(p)
  BY RequestInv
<1>2. /\ p.pc = "Logout.Revoke" /\ p.op = "Logout" /\ TypeOK
      /\ UNCHANGED <<users, refreshTokens>> /\ revoked' = Revoke(p.token)
  BY <1>1 DEF LogoutRevoke, WellFormed, IInv
<1>3. Phase(p) = "open"
  BY <1>2, PhaseOf
<1>4. Promise!IsOpen(r, "Logout") /\ Calls[r].token = p.token
  BY <1>1, <1>2, <1>3, CallFields DEF Promise!IsOpen
<1>5. revoked' = revoked \union {x.token : x \in {y \in Sessions : y.token = Calls[r].token}}
  <2>1. /\ \A row \in refreshTokens :
             SessionOf(row) \in Sessions /\ SessionOf(row).token = row.token
        /\ \A y \in Sessions : \E row \in refreshTokens : y.token = row.token
    BY DEF Sessions, SessionOf
  <2> QED
    BY <1>2, <1>4, <2>1 DEF Revoke, RowsWithToken
<1>6. CASE Reply(r, 200)
  <2>1. Promise!Decide(r, "ok")
    BY <1>1, <1>2, <1>3, <1>6, Succeeds
  <2> QED
    BY <1>2, <1>4, <1>5, <2>1 DEF Promise!Logout, Sessions
<1>7. CASE Fail(r, Wrapped("database"))
  <2>1. Promise!Decide(r, "error")
    BY <1>1, <1>2, <1>3, <1>7, Fails, FailsUnknown
  <2> QED
    BY <1>2, <1>4, <1>5, <2>1 DEF Promise!Logout, Sessions
<1> QED
  BY <1>1, <1>6, <1>7 DEF LogoutRevoke

LEMMA GetProfileFindByIDImpl ==
    ASSUME IInv, NEW r \in Requests, GetProfileFindByID(r)
    PROVE  Promise!GetProfile(r) \/ Promise!GiveUp(r)
<1>1. PICK p \in Request : p = req[r] /\ WellFormed(p)
  BY RequestInv
<1>2. /\ p.pc = "GetProfile.FindByID" /\ p.op = "GetProfile"
      /\ UNCHANGED tables /\ TypeOK
  BY <1>1 DEF GetProfileFindByID, WellFormed, IInv
<1>3. Phase(p) = "open"
  BY <1>2, PhaseOf
<1>4. CASE UsersWithID(p.user) # {} /\ Reply(r, 200)
  <2>1. Promise!Decide(r, "ok")
    BY <1>1, <1>2, <1>3, <1>4, Succeeds
  <2>2. Promise!IsOpen(r, "GetProfile") /\ \E u \in users : u.id = Calls[r].user
    BY <1>1, <1>2, <1>3, <1>4, CallFields DEF VisibleUser, UsersWithID, Promise!IsOpen
  <2> QED
    BY <1>2, <2>1, <2>2, TablesSeen DEF Promise!GetProfile
<1>5. CASE Fail(r, Wrapped("ErrUserNotFound"))
  BY <1>1, <1>2, <1>3, <1>5, GivesUp
<1> QED
  BY <1>1, <1>4, <1>5 DEF GetProfileFindByID

LEMMA StatementFailsImpl ==
    ASSUME IInv, NEW r \in Requests, StatementFails(r)
    PROVE  Promise!GiveUp(r) \/ Promise!RefreshEnds(r)
<1>1. PICK p \in Request : p = req[r] /\ WellFormed(p)
  BY RequestInv
<1>2. /\ p.pc \notin {"idle", "answered", "Refresh.CheckExpiry"}
      /\ Fail(r, Wrapped("database")) /\ UNCHANGED tables /\ TypeOK
  BY <1>1 DEF StatementFails, IInv
<1>3. CASE p.pc = "Refresh.FindByID"
  BY <1>1, <1>2, <1>3, Lapses
<1>4. CASE p.pc # "Refresh.FindByID"
  <2>1. Phase(p) = "open"
    BY <1>2, <1>4, PhaseOf
  <2> QED
    BY <1>1, <1>2, <2>1, GivesUp
<1> QED
  BY <1>3, <1>4

-----------------------------------------------------------------------------
(* Replies and crashes                                                      *)

\* Whether or not the reply arrives, the call is over.
LEMMA ReturnImpl ==
    ASSUME IInv, NEW r \in Requests, Deliver(r) \/ LoseReply(r)
    PROVE  Promise!Return(r)
<1>1. req[r].pc = "answered" /\ Become(r, Idle) /\ UNCHANGED tables /\ TypeOK
  BY DEF Deliver, LoseReply, IInv
<1>2. Calls[r].phase \in Promise!Decided
  BY <1>1, CallFields, PhaseOf DEF Outcome, Promise!Decided
<1>3. Calls' = [Calls EXCEPT ![r] = Promise!NoCall]
  BY <1>1, OneCall, CallOfIdle
<1> QED
  BY <1>1, <1>2, <1>3, TablesSeen DEF Promise!Return

LEMMA CrashImpl ==
    ASSUME Crash
    PROVE  Promise!Crash
<1>1. UNCHANGED tables /\ req' = [r \in Requests |-> Idle]
  BY DEF Crash
<1>2. Calls' = [r \in Requests |-> Promise!NoCall]
  BY <1>1, CallOfIdle DEF Calls
<1> QED
  BY <1>1, <1>2, TablesSeen DEF Promise!Crash

-----------------------------------------------------------------------------
(* Theorems                                                                 *)

\* Before anything was asked for, service and promise agree.
LEMMA InitImpl == Init => Promise!Init
<1> SUFFICES ASSUME Init PROVE Promise!Init
  OBVIOUS
<1>1. Calls = [r \in Requests |-> Promise!NoCall]
  BY CallOfIdle DEF Init, Calls
<1> QED
  BY <1>1 DEF Init, Sessions, Promise!Init

\* Every step of a handler (user_service.go:69-208) is a step of one call of
\* the interface, or none that its caller could see.
THEOREM StepImpl == IInv /\ [Next]_vars => [Promise!Next]_(Promise!vars)
<1> SUFFICES ASSUME IInv, [Next]_vars
             PROVE  Promise!Next \/ UNCHANGED Promise!vars
  OBVIOUS
<1>1. ASSUME NEW r \in Requests, Arrive(r)
      PROVE  Promise!Next
  <2>1. IInv'
    BY <1>1, ArriveStep
  <2> QED
    BY <1>1, <2>1, ArriveImpl DEF Promise!Next
<1>2. ASSUME NEW r \in Requests, Handle(r)
      PROVE  Promise!Next \/ UNCHANGED Promise!vars
  <2>1. CASE RegisterFindByEmail(r) \/ RegisterDuplicate(r) \/ RegisterCreate(r)
    BY <2>1, RegisterFindByEmailImpl, RegisterDuplicateImpl, RegisterCreateImpl
       DEF Promise!Next
  <2>2. CASE LoginFindByEmail(r) \/ LoginCreateToken(r)
    BY <2>2, LoginFindByEmailImpl, LoginCreateTokenImpl DEF Promise!Next
  <2>3. CASE RefreshFindByToken(r) \/ RefreshCheckExpiry(r) \/ RefreshFindByID(r)
    BY <2>3, RefreshFindByTokenImpl, RefreshCheckExpiryImpl, RefreshFindByIDImpl
       DEF Promise!Next
  <2>4. CASE LogoutRevoke(r) \/ GetProfileFindByID(r) \/ StatementFails(r)
    BY <2>4, LogoutRevokeImpl, GetProfileFindByIDImpl, StatementFailsImpl
       DEF Promise!Next
  <2> QED
    BY <1>2, <2>1, <2>2, <2>3, <2>4 DEF Handle
<1>3. ASSUME NEW r \in Requests, Deliver(r) \/ LoseReply(r)
      PROVE  Promise!Next
  BY <1>3, ReturnImpl DEF Promise!Next
<1>4. CASE Crash
  BY <1>4, CrashImpl DEF Promise!Next
<1>5. CASE Tick \/ UNCHANGED vars
  <2>1. UNCHANGED tables /\ UNCHANGED req
    BY <1>5 DEF Tick, vars, tables
  <2> QED
    BY <2>1, TablesSeen DEF Calls, Promise!vars
<1> QED
  BY <1>1, <1>2, <1>3, <1>4, <1>5 DEF Next

\* However the statements of registrations, logins, refreshes and logouts
\* interleave, fail and are cut short by crashes, every call answers as if it
\* had been served at one instant (UserService, user_service.go:33-40).
THEOREM Implements == Spec => ImplementsAuthService
<1>1. Init => Promise!Init
  BY InitImpl
<1>2. IInv /\ [Next]_vars => [Promise!Next]_(Promise!vars)
  BY StepImpl
<1> QED
  BY <1>1, <1>2, Invariance, PTL DEF Spec, ImplementsAuthService, Promise!Spec
=============================================================================
