------------------------- MODULE UserAuthRefinement -------------------------
(***************************************************************************)
(* The handlers of UserAuth implement AuthService.  A registration takes   *)
(* effect at its INSERT or, refused, at its lookup; a login at the INSERT  *)
(* of its refresh token; a refresh at the SELECT of its row; a logout at   *)
(* its UPDATE.                                                             *)
(***************************************************************************)
EXTENDS UserAuth

Outcome(status) ==
    IF status \in {200, 201} THEN "ok" ELSE IF status = 500 THEN "error" ELSE "refused"

Phase(q) ==
    CASE q.pc = "idle" -> "idle"
      [] q.pc \in {"Refresh.CheckExpiry", "Refresh.FindByID"} -> "granted"
      [] q.pc = "answered" -> Outcome(q.status)
      [] OTHER -> "open"

\* The user of a login in progress is not visible to its caller; a logout has none.
VisibleUser(q) ==
    IF \/ q.op = "GetProfile"
       \/ q.op # "Logout" /\ Phase(q) \in {"granted", "ok"}
    THEN q.user ELSE None

CallOf(q) ==
    [phase |-> Phase(q), op |-> q.op, email |-> q.email, password |-> q.password,
     token |-> q.token, user |-> VisibleUser(q)]
Calls == [r \in Requests |-> CallOf(req[r])]

SessionOf(row) == [token |-> row.token, user |-> row.user]
Sessions == {SessionOf(row) : row \in refreshTokens}

Promise == INSTANCE AuthService
    WITH sessions <- Sessions, ended <- revoked, call <- Calls

\* Interleaved with each other, with failures and with crashes of the process,
\* the multi-statement handlers answer as if each call were atomic.
ImplementsAuthService == Promise!Spec
=============================================================================
