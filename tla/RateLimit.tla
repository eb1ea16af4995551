----------------------------- MODULE RateLimit -----------------------------
(***************************************************************************)
(* RateLimitMiddleware (internal/middleware/ratelimit.go): a fixed-window  *)
(* counter per client, kept in Redis by two commands, INCR and EXPIRE,     *)
(* with nothing to tie them together.                                      *)
(*                                                                         *)
(* Redis runs one command at a time and the process may die, or a command  *)
(* fail, between any two; each command is an action together with the Go   *)
(* code up to the next one.  go-redis sends a command again when its reply *)
(* was lost, at any later time.  Time is what the TTLs of the keys count    *)
(* down, by ticks.                                                         *)
(***************************************************************************)
EXTENDS Integers, FiniteSetsExt

CONSTANTS
    Requests,     \* goroutines that may be in the middleware at a time
    Addresses,    \* the clients' IP addresses
    Ports,        \* the source ports of their connections
    Users,        \* user ids of authenticated requests
    Anonymous,    \* the request carries no user id
    None,         \* no key
    Limit,        \* config.RequestsPerWindow
    Window        \* config.Window, in ticks

ASSUME RateLimitAssumption ==
    /\ Anonymous \notin Users
    /\ None \notin Users \union (Addresses \X Ports)
    /\ Limit \in Nat \ {0}
    /\ Window \in Nat \ {0}

VARIABLES
    count,      \* Redis: the counter of each key; 0 is a key that is not there
    ttl,        \* Redis: ticks left to the key, or NoTTL
    req,        \* what each goroutine is doing
    admitted,   \* history: requests let through on each key since n ticks ago
    resent      \* history: keys whose EXPIREs still to come include one sent again,
                \*          or began while there was one

vars == <<count, ttl, req, admitted, resent>>

\* What the TTL command reports of a key without one.
NoTTL == -1

\* Bound: counters saturate at the first value that is refused; the code
\* compares them with 1 and with the limit only.
MaxCount == Limit + 1
Bounded(n) == IF n > MaxCount THEN MaxCount ELSE n

\* r.RemoteAddr is "address:port"; a user id takes its place.
RemoteAddr == Addresses \X Ports
Keys == Users \union RemoteAddr
Key(addr, user) == IF user # Anonymous THEN user ELSE addr

Request == [pc: {"idle", "Incr", "Expire", "TTL", "next"}, key: Keys \union {None}]
Idle == [pc |-> "idle", key |-> None]

\* Mutant: the window starts again with every request.
EveryRequest(n) == TRUE
\* The first request of a window is the one that sets its end.
OpensWindow(n) == n = 1

\* Mutant: nobody is refused.
NeverExceeds(n) == FALSE
Exceeds(n) == n > Limit

\* 0: since the last tick, ..., Window - 1: in a whole window of time.
Ages == 0..Window - 1

Goto(r, pc) == req' = [req EXCEPT ![r].pc = pc]

-----------------------------------------------------------------------------

Arrive(r) ==
    /\ req[r].pc = "idle"
    /\ \E a \in RemoteAddr, u \in Users \union {Anonymous} :
         req' = [req EXCEPT ![r] = [pc |-> "Incr", key |-> Key(a, u)]]
    /\ UNCHANGED <<count, ttl, admitted, resent>>

\* Incr returns the new count, on which the rest of the handler decides.
Incr(r) ==
    LET k == req[r].key
        n == Bounded(count[k] + 1)
    IN
    /\ req[r].pc = "Incr"
    /\ count' = [count EXCEPT ![k] = n]
    /\ Goto(r, IF OpensWindow(n) THEN "Expire" ELSE IF Exceeds(n) THEN "TTL" ELSE "next")
    /\ admitted' = IF Exceeds(n) THEN admitted
                 ELSE [admitted EXCEPT ![k] = [age \in Ages |-> @[age] + 1]]
    /\ UNCHANGED <<ttl, resent>>

\* An error of INCR lets the request through, whether or not Redis counted it.
IncrFails(r) ==
    /\ req[r].pc = "Incr"
    /\ count' \in {count, [count EXCEPT ![req[r].key] = Bounded(@ + 1)]}
    /\ Goto(r, "next")
    /\ UNCHANGED <<ttl, admitted, resent>>

\* Redis counts the request, the reply is lost and go-redis sends INCR again.
IncrResent(r) ==
    /\ req[r].pc = "Incr"
    /\ count' = [count EXCEPT ![req[r].key] = Bounded(@ + 1)]
    /\ UNCHANGED <<ttl, req, admitted, resent>>

\* Mutant: the unit of the window is mistaken.
SetOneTick(k) == IF count[k] = 0 THEN ttl ELSE [ttl EXCEPT ![k] = 1]
\* EXPIRE of a key that is gone does nothing.
SetTTL(k) == IF count[k] = 0 THEN ttl ELSE [ttl EXCEPT ![k] = Window]

\* The requests whose EXPIRE of k is still to come.
Expiring(k) == {r \in Requests : req[r].pc = "Expire" /\ req[r].key = k}

\* Nobody looks at the result of Expire.  The first count is within any limit.
Expire(r) ==
    /\ req[r].pc = "Expire"
    /\ ttl' \in {SetTTL(req[r].key), ttl}
    /\ Goto(r, "next")
    /\ resent' = {k \in resent : Expiring(k) \ {r} # {}}
    /\ UNCHANGED <<count, admitted>>

\* Redis sets the TTL, the reply is lost and go-redis sends EXPIRE again: when it
\* does, the window may have gone on, or have ended and another have begun.
ExpireResent(r) ==
    /\ req[r].pc = "Expire"
    /\ ttl' = SetTTL(req[r].key)
    /\ resent' = resent \union {req[r].key}
    /\ UNCHANGED <<count, req, admitted>>

\* 429: TTL, or its failure, makes a header and nothing else.
Refuse(r) ==
    /\ req[r].pc = "TTL"
    /\ req' = [req EXCEPT ![r] = Idle]
    /\ UNCHANGED <<count, ttl, admitted, resent>>

\* next.ServeHTTP
Serve(r) ==
    /\ req[r].pc = "next"
    /\ req' = [req EXCEPT ![r] = Idle]
    /\ UNCHANGED <<count, ttl, admitted, resent>>

\* The process dies; Redis does not.
Crash ==
    /\ \E r \in Requests : req[r].pc # "idle"
    /\ req' = [r \in Requests |-> Idle]
    /\ resent' = {}
    /\ UNCHANGED <<count, ttl, admitted>>

\* A key goes when its TTL runs out.
Tick ==
    /\ count' = [k \in Keys |-> IF ttl[k] = 1 THEN 0 ELSE count[k]]
    /\ ttl' = [k \in Keys |-> IF ttl[k] \in {NoTTL, 1} THEN NoTTL ELSE ttl[k] - 1]
    /\ admitted' = [k \in Keys |->
                      [age \in Ages |-> IF age = 0 THEN 0 ELSE admitted[k][age - 1]]]
    /\ UNCHANGED <<req, resent>>

-----------------------------------------------------------------------------

Init ==
    /\ count = [k \in Keys |-> 0]
    /\ ttl = [k \in Keys |-> NoTTL]
    /\ req = [r \in Requests |-> Idle]
    /\ admitted = [k \in Keys |-> [age \in Ages |-> 0]]
    /\ resent = {}

Handle(r) == Incr(r) \/ IncrFails(r) \/ Expire(r) \/ Refuse(r) \/ Serve(r)

Next ==
    \/ \E r \in Requests : Arrive(r) \/ Handle(r) \/ IncrResent(r) \/ ExpireResent(r)
    \/ Crash
    \/ Tick

\* Goroutines are scheduled and time passes.
Spec == Init /\ [][Next]_vars /\ WF_vars(Tick) /\ \A r \in Requests : WF_vars(Handle(r))

-----------------------------------------------------------------------------
(* Properties                                                               *)

\* Every variable has the type its declaration announces.
TypeOK ==
    /\ count \in [Keys -> 0..MaxCount]
    /\ ttl \in [Keys -> {NoTTL} \union 1..Window]
    /\ req \in [Requests -> Request]
    /\ admitted \in [Keys -> [Ages -> Nat]]
    /\ resent \subseteq Keys

\* A window that has an end keeps it, unless go-redis repeats an EXPIRE of the
\* key: no interleaving of first requests, late EXPIREs, INCRs counted twice and
\* crashes lets a client's traffic move it, and once the EXPIREs that overlap
\* the repeated one are over nothing does so again (ratelimit.go:48-51).
WindowKeepsItsEnd ==
    [][\A k \in Keys \ resent : ttl[k] # NoTTL => ttl'[k] <= ttl[k]]_vars

\* Over any Window consecutive ticks a client gets through at most twice the
\* limit, the price of fixed windows, and never more, however its requests
\* interleave, unless Redis failed to answer (ratelimit.go:36-54).
AtMostTwiceTheLimit ==
    \A k \in Keys : admitted[k][Window - 1] <= 2 * Limit

\* A client refused within a window that has an end is let in again, however
\* often it keeps asking (ratelimit.go:54-74).
Refused(k) == Exceeds(count[k] + 1)
RefusalEnds == \A k \in Keys : (Refused(k) /\ ttl[k] # NoTTL) ~> ~Refused(k)

\* What "Window time.Duration // Time window for rate limiting"
\* (ratelimit.go:17) says: the limit is one per window, and windows end.
EveryRefusalEnds == \A k \in Keys : Refused(k) ~> ~Refused(k)

\* "Get client identifier (IP address or user ID if authenticated)"
\* (ratelimit.go:25): requests of one address without a user id are counted
\* together, so a tick, shorter than the window, never sees more than Limit of
\* them per window it touches.
AddressIsLimited ==
    \A a \in Addresses :
        FoldSet(LAMBDA k, sum : sum + admitted[k][0], 0, {a} \X Ports) <= Limit

-----------------------------------------------------------------------------
(* What WindowKeepsItsEnd rests on                                          *)

\* Inductive: an EXPIRE that is still to come finds the key of its own INCR,
\* without a TTL, and is the only one for it, unless one of the key was sent
\* again; what that upsets is over with the last of them (ratelimit.go:37-51).
WInv ==
    /\ TypeOK
    /\ \A k \in Keys : count[k] = 0 => ttl[k] = NoTTL
    /\ \A k \in resent : Expiring(k) # {}
    /\ \A r \in Requests :
         /\ req[r].pc # "idle" => req[r].key \in Keys
         /\ req[r].pc = "Expire" /\ req[r].key \notin resent =>
              /\ count[req[r].key] > 0
              /\ ttl[req[r].key] = NoTTL
              /\ \A s \in Requests \ {r} :
                   req[s].pc = "Expire" => req[s].key # req[r].key

\* What a counter has let through of the limit.
Counted(k) == IF Exceeds(count[k]) THEN Limit ELSE count[k]

\* Inductive, with WInv: since the last tick, and since its EXPIRE, a client got
\* through what its counter says, and the counter before it adds at most Limit
\* to a window of time: it lasted as long as that (ratelimit.go:37-54).
Accounted(k) ==
    /\ \A age \in Ages \ {0} : admitted[k][age - 1] <= admitted[k][age]
    /\ admitted[k][0] <= Counted(k)
    /\ ttl[k] # NoTTL => admitted[k][Window - ttl[k]] <= Counted(k)
    /\ admitted[k][Window - 1] <= Counted(k) + Limit
AInv == \A k \in Keys : Accounted(k)

=============================================================================
