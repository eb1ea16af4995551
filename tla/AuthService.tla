----------------------------- MODULE AuthService -----------------------------
(***************************************************************************)
(* What interface UserService (internal/service/user_service.go:33-40)     *)
(* promises its callers: each call takes effect at one instant between     *)
(* its start and its return, although the code behind it runs several SQL  *)
(* statements with other calls in between.  The clock is left out: a       *)
(* granted refresh may still lapse.                                        *)
(***************************************************************************)
CONSTANTS Requests, Emails, Passwords, UserIds, Tokens, Unknown, None

VARIABLES
    users,      \* the accounts
    sessions,   \* the refresh tokens issued, each with its user
    ended,      \* the sessions that were logged out
    call        \* the call each request has made, and how it stands

vars == <<users, sessions, ended, call>>

\* open: no effect yet; granted: a refresh has seen its session alive;
\* ok, refused, error: decided.  An error leaves the caller unsure.
Decided == {"ok", "refused", "error"}
Call == [phase: {"idle", "open", "granted"} \union Decided,
         op: {"Register", "Login", "Refresh", "Logout", "GetProfile", "none"},
         email: Emails \union {None}, password: Passwords \union {None},
         token: Tokens \union {Unknown, None}, user: UserIds \union {None}]

NoCall == [phase |-> "idle", op |-> "none", email |-> None, password |-> None,
           token |-> None, user |-> None]

Matching(e, p) == {u \in users : u.email = e /\ u.hash = p}
IsOpen(r, op) == call[r].phase = "open" /\ call[r].op = op
Decide(r, phase) == call' = [call EXCEPT ![r].phase = phase]
DecideFor(r, phase, user) ==
    call' = [call EXCEPT ![r].phase = phase, ![r].user = user]
Grant(r, user, token) ==
    call' = [call EXCEPT ![r].phase = "ok", ![r].user = user, ![r].token = token]

\* Whatever the caller asks for; a call may be turned down at the door.
Start(r) ==
    /\ call[r].phase = "idle"
    /\ call' \in [Requests -> Call]
    /\ call'[r].phase \in {"open", "refused"}
    /\ \A s \in Requests \ {r} : call'[s] = call[s]
    /\ UNCHANGED <<users, sessions, ended>>

Register(r) ==
    /\ IsOpen(r, "Register")
    /\ \A u \in users : u.email # call[r].email
    /\ \E id \in UserIds :
         /\ \A u \in users : u.id # id
         /\ users' = users \union
                {[id |-> id, email |-> call[r].email, hash |-> call[r].password]}
         /\ DecideFor(r, "ok", id) \/ Decide(r, "error")
    /\ UNCHANGED <<sessions, ended>>

RegisterRefused(r) ==
    /\ IsOpen(r, "Register")
    /\ \E u \in users : u.email = call[r].email
    /\ Decide(r, "refused")
    /\ UNCHANGED <<users, sessions, ended>>

Login(r) ==
    /\ IsOpen(r, "Login")
    /\ \E u \in Matching(call[r].email, call[r].password), t \in Tokens :
         /\ \A s \in sessions : s.token # t
         /\ sessions' = sessions \union {[token |-> t, user |-> u.id]}
         /\ Grant(r, u.id, t) \/ Decide(r, "error")
    /\ UNCHANGED <<users, ended>>

LoginRefused(r) ==
    /\ IsOpen(r, "Login")
    /\ Matching(call[r].email, call[r].password) = {}
    /\ Decide(r, "refused")
    /\ UNCHANGED <<users, sessions, ended>>

Refresh(r) ==
    /\ IsOpen(r, "Refresh")
    /\ \E s \in sessions :
         /\ s.token = call[r].token
         /\ s.token \notin ended
         /\ DecideFor(r, "granted", s.user)
    /\ UNCHANGED <<users, sessions, ended>>

RefreshRefused(r) ==
    /\ IsOpen(r, "Refresh")
    /\ \A s \in sessions : s.token = call[r].token => s.token \in ended
    /\ Decide(r, "refused")
    /\ UNCHANGED <<users, sessions, ended>>

\* The new access token is for the user of the session, an existing one.
RefreshEnds(r) ==
    /\ call[r].phase = "granted"
    /\ \/ /\ \E u \in users : u.id = call[r].user
          /\ Decide(r, "ok")
       \/ \E phase \in {"refused", "error"} : DecideFor(r, phase, None)
    /\ UNCHANGED <<users, sessions, ended>>

Logout(r) ==
    /\ IsOpen(r, "Logout")
    /\ ended' = ended \union {s.token : s \in {x \in sessions : x.token = call[r].token}}
    /\ Decide(r, "ok") \/ Decide(r, "error")
    /\ UNCHANGED <<users, sessions>>

GetProfile(r) ==
    /\ IsOpen(r, "GetProfile")
    /\ \E u \in users : u.id = call[r].user
    /\ Decide(r, "ok")
    /\ UNCHANGED <<users, sessions, ended>>

\* A failure before anything was done.
GiveUp(r) ==
    /\ call[r].phase = "open"
    /\ Decide(r, "error")
    /\ UNCHANGED <<users, sessions, ended>>

Return(r) ==
    /\ call[r].phase \in Decided
    /\ call' = [call EXCEPT ![r] = NoCall]
    /\ UNCHANGED <<users, sessions, ended>>

Crash ==
    /\ call' = [r \in Requests |-> NoCall]
    /\ UNCHANGED <<users, sessions, ended>>

Init ==
    /\ users = {}
    /\ sessions = {}
    /\ ended = {}
    /\ call = [r \in Requests |-> NoCall]

Next ==
    \/ \E r \in Requests :
         \/ Start(r) \/ Return(r) \/ GiveUp(r)
         \/ Register(r) \/ RegisterRefused(r)
         \/ Login(r) \/ LoginRefused(r)
         \/ Refresh(r) \/ RefreshRefused(r) \/ RefreshEnds(r)
         \/ Logout(r) \/ GetProfile(r)
    \/ Crash

Spec == Init /\ [][Next]_vars
=============================================================================
