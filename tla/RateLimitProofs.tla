--------------------------- MODULE RateLimitProofs ---------------------------
(***************************************************************************)
(* Theorems about RateLimit, for any number of requests and clients, any   *)
(* limit and any window.                                                   *)
(***************************************************************************)
EXTENDS RateLimit, TLAPS

-----------------------------------------------------------------------------
(* Lemmas                                                                   *)

\* The numbers the middleware compares and sets.
LEMMA Numbers ==
    Limit \in Nat \ {0} /\ Window \in Nat \ {0} /\ MaxCount \in Nat \ {0} /\ Limit < MaxCount
BY RateLimitAssumption DEF MaxCount

USE Numbers DEF NoTTL

\* A count that saturates is still a count, and is 1 only for the first INCR.
LEMMA BoundedCount ==
    ASSUME NEW n \in 0..MaxCount
    PROVE  /\ Bounded(n + 1) \in 1..MaxCount
           /\ Bounded(n + 1) = 1 <=> n = 0
BY RateLimitAssumption DEF Bounded, MaxCount

\* A key is not the absence of one.
LEMMA NoneIsNoKey == None \notin Keys
BY RateLimitAssumption DEF Keys, RemoteAddr

\* A request that moves on keeps its key.
LEMMA GotoKeeps ==
    ASSUME req \in [Requests -> Request], NEW r \in Requests,
           NEW pc \in {"idle", "Incr", "Expire", "TTL", "next"},
           req' = [req EXCEPT ![r].pc = pc]
    PROVE  /\ req' \in [Requests -> Request]
           /\ \A s \in Requests : /\ req'[s].key = req[s].key
                                  /\ req'[s].pc = IF s = r THEN pc ELSE req[s].pc
<1>1. req[r] \in Request
  OBVIOUS
<1>2. [req[r] EXCEPT !.pc = pc] \in Request
  BY <1>1 DEF Request
<1>3. req' \in [Requests -> Request]
  BY <1>2
<1>4. ASSUME NEW s \in Requests
      PROVE  req'[s].key = req[s].key /\ req'[s].pc = IF s = r THEN pc ELSE req[s].pc
  BY <1>1 DEF Request
<1> QED
  BY <1>3, <1>4

-----------------------------------------------------------------------------
(* Steps of a request                                                       *)

\* What the invariant says of one request, and of two.
LEMMA Parts ==
    ASSUME WInv, NEW r \in Requests
    PROVE  /\ count \in [Keys -> 0..MaxCount]
           /\ ttl \in [Keys -> {NoTTL} \union 1..Window]
           /\ req \in [Requests -> Request]
           /\ admitted \in [Keys -> [Ages -> Nat]]
           /\ \A k \in Keys : count[k] = 0 => ttl[k] = NoTTL
           /\ req[r].pc # "idle" => req[r].key \in Keys
           /\ resent \subseteq Keys
           /\ \A k \in resent : \E s \in Requests : req[s].pc = "Expire" /\ req[s].key = k
           /\ req[r].pc = "Expire" /\ req[r].key \notin resent =>
                /\ count[req[r].key] > 0
                /\ ttl[req[r].key] = NoTTL
                /\ \A s \in Requests \ {r} :
                     req[s].pc = "Expire" => req[s].key # req[r].key
BY DEF WInv, TypeOK, Expiring

\* As long as the EXPIREs still to come are the same, so are the keys that
\* await one.
LEMMA StillExpiring ==
    ASSUME WInv, resent' = resent,
           \A s \in Requests : req[s].pc = "Expire" =>
               req'[s].pc = "Expire" /\ req'[s].key = req[s].key
    PROVE  \A k \in resent' : Expiring(k)' # {}
BY DEF WInv, Expiring

\* A request gets its key.
LEMMA ArriveStep ==
    ASSUME WInv, NEW r \in Requests, Arrive(r) PROVE WInv'
<1>1. PICK a \in RemoteAddr, u \in Users \union {Anonymous} :
        req' = [req EXCEPT ![r] = [pc |-> "Incr", key |-> Key(a, u)]]
  BY DEF Arrive
<1>2. Key(a, u) \in Keys
  BY DEF Key, Keys
<1>3. req' \in [Requests -> Request]
  BY <1>1, <1>2 DEF WInv, TypeOK, Request
<1>4. req[r].pc = "idle" /\ UNCHANGED <<count, ttl, admitted, resent>>
  BY DEF Arrive
<1>5. \A s \in Requests : req'[s] = IF s = r THEN [pc |-> "Incr", key |-> Key(a, u)] ELSE req[s]
  BY <1>1 DEF WInv, TypeOK
<1>6. \A k \in resent' : Expiring(k)' # {}
  BY <1>4, <1>5, StillExpiring
<1> QED
  BY <1>2, <1>3, <1>4, <1>5, <1>6 DEF WInv, TypeOK

\* The INCR that finds no key is the only one to go on to EXPIRE.
LEMMA IncrStep ==
    ASSUME WInv, NEW r \in Requests, Incr(r) PROVE WInv'
<1> DEFINE k == req[r].key
           n == Bounded(count[k] + 1)
           to == IF OpensWindow(n) THEN "Expire" ELSE IF Exceeds(n) THEN "TTL" ELSE "next"
<1>1. k \in Keys /\ count[k] \in 0..MaxCount /\ n \in 1..MaxCount /\ (n = 1 <=> count[k] = 0)
  BY Parts, BoundedCount DEF Incr
<1>2. /\ to \in {"Expire", "TTL", "next"}
      /\ to = "Expire" <=> count[k] = 0
  BY <1>1 DEF OpensWindow
<1>3. /\ count' = [count EXCEPT ![k] = n]
      /\ ttl' = ttl /\ resent' = resent
      /\ admitted' = IF Exceeds(n) THEN admitted
                     ELSE [admitted EXCEPT ![k] = [age \in Ages |-> admitted[k][age] + 1]]
      /\ req' = [req EXCEPT ![r].pc = to]
  BY DEF Incr, Goto
<1> HIDE DEF n, to
<1>4. /\ req' \in [Requests -> Request]
      /\ \A s \in Requests : /\ req'[s].key = req[s].key
                             /\ req'[s].pc = IF s = r THEN to ELSE req[s].pc
  <2>1. CASE to = "Expire"
    <3>1. req' = [req EXCEPT ![r].pc = "Expire"]
      BY <1>3, <2>1
    <3>2. /\ req' \in [Requests -> Request]
          /\ \A s \in Requests : /\ req'[s].key = req[s].key
                                 /\ req'[s].pc = IF s = r THEN "Expire" ELSE req[s].pc
      BY <3>1, Parts, GotoKeeps
    <3> QED
      BY <2>1, <3>2
  <2>2. CASE to = "TTL"
    <3>1. req' = [req EXCEPT ![r].pc = "TTL"]
      BY <1>3, <2>2
    <3>2. /\ req' \in [Requests -> Request]
          /\ \A s \in Requests : /\ req'[s].key = req[s].key
                                 /\ req'[s].pc = IF s = r THEN "TTL" ELSE req[s].pc
      BY <3>1, Parts, GotoKeeps
    <3> QED
      BY <2>2, <3>2
  <2>3. CASE to = "next"
    <3>1. req' = [req EXCEPT ![r].pc = "next"]
      BY <1>3, <2>3
    <3>2. /\ req' \in [Requests -> Request]
          /\ \A s \in Requests : /\ req'[s].key = req[s].key
                                 /\ req'[s].pc = IF s = r THEN "next" ELSE req[s].pc
      BY <3>1, Parts, GotoKeeps
    <3> QED
      BY <2>3, <3>2
  <2> QED
    BY <1>2, <2>1, <2>2, <2>3
<1>5. /\ count' \in [Keys -> 0..MaxCount]
      /\ \A j \in Keys : count'[j] = IF j = k THEN n ELSE count[j]
  BY <1>1, <1>3, Parts
<1> HIDE DEF k
<1>6. admitted' \in [Keys -> [Ages -> Nat]]
  <2>1. admitted[k] \in [Ages -> Nat]
    BY <1>1, Parts
  <2>2. [age \in Ages |-> admitted[k][age] + 1] \in [Ages -> Nat]
    BY <2>1
  <2> QED
    BY <1>1, <1>3, <2>2, Parts
<1>7. TypeOK'
  BY <1>3, <1>4, <1>5, <1>6, Parts DEF TypeOK
<1>8. \A j \in Keys : count'[j] = 0 => ttl'[j] = NoTTL
  BY <1>1, <1>3, <1>5, Parts
<1>9. \A j \in resent' : Expiring(j)' # {}
  BY <1>3, <1>4, StillExpiring DEF Incr
<1>10. ASSUME NEW s \in Requests PROVE req'[s].pc # "idle" => req'[s].key \in Keys
  BY <1>1, <1>4, Parts DEF k
<1>11. ASSUME NEW s \in Requests, req'[s].pc = "Expire", req'[s].key \notin resent'
       PROVE  /\ count'[req'[s].key] > 0 /\ ttl'[req'[s].key] = NoTTL
              /\ \A t \in Requests \ {s} : req'[t].pc = "Expire" => req'[t].key # req'[s].key
  <2>1. CASE s = r
    <3>1. to = "Expire" /\ req'[s].key = k /\ k \notin resent /\ count[k] = 0
      BY <1>2, <1>3, <1>4, <1>11, <2>1 DEF k
    <3>2. count'[k] > 0 /\ ttl'[k] = NoTTL
      BY <1>1, <1>3, <1>5, <3>1, Parts
    <3>3. ASSUME NEW t \in Requests \ {s}, req'[t].pc = "Expire" PROVE req'[t].key # k
      <4>1. req[t].pc = "Expire" /\ req'[t].key = req[t].key
        BY <1>4, <2>1, <3>3
      <4> QED
        BY <3>1, <4>1, Parts
    <3> QED
      BY <3>1, <3>2, <3>3
  <2>2. CASE s # r
    <3>1. /\ req[s].pc = "Expire" /\ req'[s].key = req[s].key /\ req[s].key \notin resent
          /\ req[s].key \in Keys
      BY <1>3, <1>4, <1>11, <2>2, Parts
    <3>2. count[req[s].key] > 0 /\ ttl[req[s].key] = NoTTL
      BY <3>1, Parts
    <3>3. count'[req[s].key] > 0 /\ ttl'[req[s].key] = NoTTL
      BY <1>1, <1>3, <1>5, <3>1, <3>2
    <3>4. to = "Expire" => k # req[s].key
      BY <1>2, <3>2
    <3>5. ASSUME NEW t \in Requests \ {s}, req'[t].pc = "Expire"
          PROVE  req'[t].key # req[s].key
      <4>1. CASE t = r
        BY <1>4, <3>4, <3>5, <4>1 DEF k
      <4>2. CASE t # r
        BY <1>4, <3>1, <3>5, <4>2, Parts
      <4> QED
        BY <4>1, <4>2
    <3> QED
      BY <3>1, <3>3, <3>5
  <2> QED
    BY <2>1, <2>2
<1> QED
  BY <1>7, <1>8, <1>9, <1>10, <1>11 DEF WInv

\* A failed INCR may have counted; the key it made gets no TTL.
LEMMA IncrFailsStep ==
    ASSUME WInv, NEW r \in Requests, IncrFails(r) PROVE WInv'
<1> DEFINE m == Bounded(count[req[r].key] + 1)
<1>1. m \in 1..MaxCount
  BY Parts, BoundedCount DEF IncrFails
<1>2. count' \in {count, [count EXCEPT ![req[r].key] = m]}
  BY DEF IncrFails
<1> HIDE DEF m
<1>3. /\ count' \in [Keys -> 0..MaxCount]
      /\ \A k \in Keys : count'[k] = count[k] \/ count'[k] = m
  <2>1. CASE count' = count
    BY <2>1, Parts
  <2>2. CASE count' = [count EXCEPT ![req[r].key] = m]
    <3>1. count \in [Keys -> 0..MaxCount] /\ m \in 0..MaxCount
      BY <1>1, Parts
    <3> QED
      BY <2>2, <3>1
  <2> QED
    BY <1>2, <2>1, <2>2
<1>4. req' = [req EXCEPT ![r].pc = "next"] /\ UNCHANGED <<ttl, admitted, resent>>
  BY DEF IncrFails, Goto
<1>5. /\ req' \in [Requests -> Request]
      /\ \A s \in Requests : /\ req'[s].key = req[s].key
                             /\ req'[s].pc = IF s = r THEN "next" ELSE req[s].pc
  BY <1>4, Parts, GotoKeeps
<1>6. \A k \in Keys : /\ count'[k] = 0 => count[k] = 0
                      /\ count[k] > 0 => count'[k] > 0
  BY <1>1, <1>3, Parts
<1>7. TypeOK'
  BY <1>3, <1>4, <1>5, Parts DEF TypeOK
<1>8. \A k \in Keys : count'[k] = 0 => ttl'[k] = NoTTL
  BY <1>4, <1>6, Parts
<1>9. ASSUME NEW s \in Requests
      PROVE  /\ req'[s].pc # "idle" => req'[s].key \in Keys
             /\ req'[s].pc = "Expire" /\ req'[s].key \notin resent' =>
                  /\ count'[req'[s].key] > 0
                  /\ ttl'[req'[s].key] = NoTTL
                  /\ \A t \in Requests \ {s} :
                       req'[t].pc = "Expire" => req'[t].key # req'[s].key
  BY <1>4, <1>5, <1>6, Parts DEF IncrFails
<1>10. \A k \in resent' : Expiring(k)' # {}
  BY <1>4, <1>5, StillExpiring DEF IncrFails
<1> QED
  BY <1>7, <1>8, <1>9, <1>10 DEF WInv

\* An INCR whose reply is lost counts, and leaves the request where it was.
LEMMA IncrResentStep ==
    ASSUME WInv, NEW r \in Requests, IncrResent(r) PROVE WInv'
<1> DEFINE m == Bounded(count[req[r].key] + 1)
<1>1. m \in 1..MaxCount
  BY Parts, BoundedCount DEF IncrResent
<1>2. count' = [count EXCEPT ![req[r].key] = m] /\ UNCHANGED <<ttl, req, admitted, resent>>
  BY DEF IncrResent
<1> HIDE DEF m
<1>3. /\ count' \in [Keys -> 0..MaxCount]
      /\ \A k \in Keys : count'[k] = count[k] \/ count'[k] = m
  <2>1. count \in [Keys -> 0..MaxCount] /\ m \in 0..MaxCount
    BY <1>1, Parts
  <2> QED
    BY <1>2, <2>1
<1>4. \A k \in Keys : /\ count'[k] = 0 => count[k] = 0
                      /\ count[k] > 0 => count'[k] > 0
  BY <1>1, <1>3, Parts
<1>5. \A k \in resent' : Expiring(k)' # {}
  BY <1>2, StillExpiring
<1> QED
  BY <1>2, <1>3, <1>4, <1>5 DEF WInv, TypeOK

\* An EXPIRE, sent once or again, sets the TTL of a key that is there.
LEMMA SetTTLStep ==
    ASSUME WInv, NEW k \in Keys, ttl' \in {SetTTL(k), ttl}, UNCHANGED count
    PROVE  /\ ttl' \in [Keys -> {NoTTL} \union 1..Window]
           /\ \A j \in Keys \ {k} : ttl'[j] = ttl[j]
           /\ \A j \in Keys : ttl'[j] \in {ttl[j], Window}
           /\ \A j \in Keys : count'[j] = 0 => ttl'[j] = NoTTL
<1>1. ttl' = ttl \/ (count[k] # 0 /\ ttl' = [ttl EXCEPT ![k] = Window])
  BY DEF SetTTL
<1>2. Window \in {NoTTL} \union 1..Window
  OBVIOUS
<1> QED
  BY <1>1, <1>2 DEF WInv, TypeOK

\* An EXPIRE that none has been sent again beside is the last one of its key.
LEMMA ExpireStep ==
    ASSUME WInv, NEW r \in Requests, Expire(r) PROVE WInv'
<1>1. /\ req[r].pc = "Expire" /\ req[r].key \in Keys
      /\ ttl' \in {SetTTL(req[r].key), ttl}
      /\ req' = [req EXCEPT ![r].pc = "next"]
      /\ resent' = {k \in resent : Expiring(k) \ {r} # {}}
      /\ UNCHANGED <<count, admitted>>
  BY Parts DEF Expire, Goto
<1>2. /\ req' \in [Requests -> Request]
      /\ \A s \in Requests : /\ req'[s].key = req[s].key
                             /\ req'[s].pc = IF s = r THEN "next" ELSE req[s].pc
  BY <1>1, Parts, GotoKeeps
<1>3. /\ ttl' \in [Keys -> {NoTTL} \union 1..Window]
      /\ \A k \in Keys \ {req[r].key} : ttl'[k] = ttl[k]
      /\ \A k \in Keys : count'[k] = 0 => ttl'[k] = NoTTL
  BY <1>1, SetTTLStep
<1>4. TypeOK'
  BY <1>1, <1>2, <1>3 DEF WInv, TypeOK
<1>5. ASSUME NEW k \in resent' PROVE Expiring(k)' # {}
  BY <1>1, <1>2 DEF Expiring
<1>6. ASSUME NEW s \in Requests PROVE req'[s].pc # "idle" => req'[s].key \in Keys
  BY <1>1, <1>2, Parts
<1>7. ASSUME NEW s \in Requests, req'[s].pc = "Expire", req'[s].key \notin resent'
      PROVE  /\ count'[req'[s].key] > 0 /\ ttl'[req'[s].key] = NoTTL
             /\ \A t \in Requests \ {s} : req'[t].pc = "Expire" => req'[t].key # req'[s].key
  <2>1. /\ s # r /\ req[s].pc = "Expire" /\ req'[s].key = req[s].key
        /\ req[s].key \in Keys
    BY <1>2, <1>7, Parts
  <2>2. req[s].key \notin resent
    BY <1>1, <1>7, <2>1 DEF Expiring
  <2>3. /\ count[req[s].key] > 0 /\ ttl[req[s].key] = NoTTL
        /\ \A t \in Requests \ {s} : req[t].pc = "Expire" => req[t].key # req[s].key
    BY <2>1, <2>2, Parts
  <2>4. req[s].key # req[r].key
    BY <1>1, <2>1, <2>3
  <2> QED
    BY <1>1, <1>2, <1>3, <2>1, <2>3, <2>4
<1> QED
  BY <1>3, <1>4, <1>5, <1>6, <1>7 DEF WInv

\* An EXPIRE that is sent again upsets its own key only.
LEMMA ExpireResentStep ==
    ASSUME WInv, NEW r \in Requests, ExpireResent(r) PROVE WInv'
<1>1. /\ req[r].pc = "Expire" /\ req[r].key \in Keys
      /\ ttl' \in {SetTTL(req[r].key), ttl}
      /\ resent' = resent \union {req[r].key}
      /\ UNCHANGED <<count, req, admitted>>
  BY Parts DEF ExpireResent
<1>2. /\ ttl' \in [Keys -> {NoTTL} \union 1..Window]
      /\ \A k \in Keys \ {req[r].key} : ttl'[k] = ttl[k]
      /\ \A k \in Keys : count'[k] = 0 => ttl'[k] = NoTTL
  BY <1>1, SetTTLStep
<1>3. TypeOK'
  BY <1>1, <1>2 DEF WInv, TypeOK
<1>4. ASSUME NEW k \in resent' PROVE Expiring(k)' # {}
  BY <1>1 DEF WInv, Expiring
<1>5. ASSUME NEW s \in Requests, req[s].pc = "Expire", req[s].key \notin resent'
      PROVE  /\ count[req[s].key] > 0 /\ ttl'[req[s].key] = NoTTL
             /\ \A t \in Requests \ {s} : req[t].pc = "Expire" => req[t].key # req[s].key
  BY <1>1, <1>2, <1>5, Parts
<1> QED
  BY <1>1, <1>2, <1>3, <1>4, <1>5 DEF WInv

\* An answered request leaves nothing behind.
LEMMA EndStep ==
    ASSUME WInv, NEW r \in Requests, Refuse(r) \/ Serve(r) PROVE WInv'
<1>1. /\ req' = [req EXCEPT ![r] = Idle] /\ UNCHANGED <<count, ttl, admitted, resent>>
      /\ req[r].pc # "Expire"
  BY DEF Refuse, Serve
<1>2. req' \in [Requests -> Request]
  BY <1>1 DEF WInv, TypeOK, Request, Idle
<1>3. \A s \in Requests : req'[s] = IF s = r THEN Idle ELSE req[s]
  BY <1>1 DEF WInv, TypeOK
<1>4. \A k \in resent' : Expiring(k)' # {}
  BY <1>1, <1>3, StillExpiring
<1> QED
  BY <1>1, <1>2, <1>3, <1>4 DEF WInv, TypeOK, Idle

\* Time passes: a key without a TTL stays.
LEMMA TickStep == ASSUME WInv, Tick PROVE WInv'
<1>1. count' \in [Keys -> 0..MaxCount] /\ ttl' \in [Keys -> {NoTTL} \union 1..Window]
  BY DEF WInv, TypeOK, Tick
<1>2. admitted' \in [Keys -> [Ages -> Nat]]
  <2> SUFFICES ASSUME NEW k \in Keys, NEW age \in Ages
               PROVE  (IF age = 0 THEN 0 ELSE admitted[k][age - 1]) \in Nat
    BY DEF Tick
  <2>1. admitted[k] \in [Ages -> Nat] /\ (age # 0 => age - 1 \in Ages)
    BY DEF WInv, TypeOK, Ages
  <2> QED
    BY <2>1
<1>3. req' = req /\ resent' = resent
  BY DEF Tick
<1>4. TypeOK'
  BY <1>1, <1>2, <1>3 DEF WInv, TypeOK
<1>5. ASSUME NEW k \in Keys
      PROVE  /\ ttl[k] = NoTTL => count'[k] = count[k] /\ ttl'[k] = NoTTL
             /\ count'[k] = 0 => ttl'[k] = NoTTL
  BY DEF WInv, TypeOK, Tick
<1>6. ASSUME NEW r \in Requests, req[r].pc = "Expire", req[r].key \notin resent
      PROVE  /\ count'[req[r].key] > 0
             /\ ttl'[req[r].key] = NoTTL
             /\ \A s \in Requests \ {r} :
                  req[s].pc = "Expire" => req[s].key # req[r].key
  BY <1>5, <1>6, Parts
<1>7. \A r \in Requests : req[r].pc # "idle" => req[r].key \in Keys
  BY Parts
<1>8. \A k \in Keys : count'[k] = 0 => ttl'[k] = NoTTL
  BY <1>5
<1>9. \A k \in resent' : Expiring(k)' # {}
  BY <1>3, StillExpiring
<1> QED
  BY <1>3, <1>4, <1>6, <1>7, <1>8, <1>9 DEF WInv

-----------------------------------------------------------------------------
(* What is let through                                                      *)

\* A counter says at most the limit.
LEMMA CountedType ==
    ASSUME WInv, NEW k \in Keys
    PROVE  /\ Counted(k) \in 0..Limit
           /\ count[k] = 0 => Counted(k) = 0
           /\ count[k] # 0 => Counted(k) # 0
BY Parts DEF Counted, Exceeds, WInv, TypeOK, MaxCount

\* Ages, and the history at each.
LEMMA AgesType ==
    ASSUME WInv, NEW k \in Keys
    PROVE  /\ 0 \in Ages /\ Window - 1 \in Ages
           /\ \A age \in Ages : age \in Nat /\ admitted[k][age] \in Nat
           /\ \A age \in Ages \ {0} : age - 1 \in Ages
           /\ ttl[k] # NoTTL => ttl[k] \in 1..Window /\ Window - ttl[k] \in Ages
<1>1. admitted[k] \in [Ages -> Nat] /\ ttl[k] \in {NoTTL} \union 1..Window
  BY DEF WInv, TypeOK
<1> QED
  BY <1>1 DEF Ages

\* A counter that does not let more through than it counts stays true.
LEMMA Counts ==
    ASSUME WInv, WInv', NEW k \in Keys, Accounted(k),
           ttl'[k] = ttl[k], Counted(k) <= Counted(k)', admitted'[k] = admitted[k]
    PROVE  Accounted(k)'
<1>1. Counted(k) \in Int /\ Counted(k)' \in Int
  BY CountedType DEF WInv, TypeOK, Counted
<1> QED
  BY <1>1, AgesType DEF Accounted

\* A request that is let through is one that was counted.
LEMMA IncrAccounted ==
    ASSUME WInv, WInv', AInv, NEW r \in Requests, Incr(r) PROVE AInv'
<1>0. PICK k \in Keys : k = req[r].key /\ count[k] \in 0..MaxCount
  BY Parts DEF Incr
<1>1. PICK n : k = req[r].key /\ count[k] \in 0..MaxCount /\ n = Bounded(count[k] + 1)
  BY <1>0
<1>2. /\ count' = [count EXCEPT ![k] = n]
      /\ ttl' = ttl
      /\ admitted' = IF Exceeds(n) THEN admitted
                     ELSE [admitted EXCEPT ![k] = [age \in Ages |-> admitted[k][age] + 1]]
  BY <1>1 DEF Incr
<1>3. /\ count'[k] = n /\ \A j \in Keys \ {k} : count'[j] = count[j]
      /\ \A j \in Keys \ {k} : admitted'[j] = admitted[j]
  BY <1>1, <1>2 DEF WInv, TypeOK
<1>4. ASSUME NEW j \in Keys \ {k} PROVE Accounted(j)'
  BY <1>2, <1>3 DEF AInv, Accounted, Counted
<1>5. CASE Exceeds(n)
  <2>1. Counted(k)' = Limit
    BY <1>3, <1>5 DEF Counted, Exceeds
  <2>2. Counted(k) \in 0..Limit
    BY <1>1, CountedType
  <2>3. Accounted(k)'
    BY <1>1, <1>2, <1>5, <2>1, <2>2, Counts DEF AInv
  <2> QED
    BY <1>4, <2>3 DEF AInv
<1>6. CASE ~Exceeds(n)
  <2>1. Counted(k) = count[k] /\ Counted(k)' = count[k] + 1
    BY <1>1, <1>3, <1>6 DEF Counted, Exceeds, Bounded, MaxCount
  <2>2. \A age \in Ages : admitted'[k][age] = admitted[k][age] + 1
    BY <1>1, <1>2, <1>6 DEF WInv, TypeOK
  <2>3. Accounted(k)'
    <3>1. Accounted(k) /\ ttl'[k] = ttl[k]
      BY <1>1, <1>2 DEF AInv
    <3> QED
      BY <1>1, <2>1, <2>2, <3>1, AgesType DEF Accounted
  <2> QED
    BY <1>4, <2>3 DEF AInv
<1> QED
  BY <1>5, <1>6

\* An INCR that nobody hears of counts a request that is not let through.
LEMMA LostAccounted ==
    ASSUME WInv, WInv', AInv, NEW r \in Requests, IncrFails(r) \/ IncrResent(r) PROVE AInv'
<1> DEFINE m == Bounded(count[req[r].key] + 1)
<1>1. /\ req[r].key \in Keys /\ count[req[r].key] \in 0..MaxCount
      /\ m = Bounded(count[req[r].key] + 1)
  BY Parts DEF IncrFails, IncrResent
<1>2. /\ count' \in {count, [count EXCEPT ![req[r].key] = m]}
      /\ UNCHANGED <<ttl, admitted>>
  BY DEF IncrFails, IncrResent
<1> HIDE DEF m
<1>3. ASSUME NEW k \in Keys PROVE Counted(k) <= Counted(k)'
  <2>1. count[k] \in 0..MaxCount /\ count'[k] \in {count[k], Bounded(count[k] + 1)}
    BY <1>1, <1>2 DEF WInv, TypeOK
  <2> QED
    BY <2>1 DEF Counted, Exceeds, Bounded, MaxCount
<1> QED
  BY <1>2, <1>3, Counts DEF AInv

\* A window that gets its end, or another one, has let through, since the last tick, what its
\* counter says.
LEMMA ExpireAccounted ==
    ASSUME WInv, WInv', AInv, NEW r \in Requests, Expire(r) \/ ExpireResent(r)
    PROVE  AInv'
<1>1. /\ UNCHANGED <<count, admitted>>
      /\ req[r].key \in Keys
      /\ ttl' \in {SetTTL(req[r].key), ttl}
  BY Parts DEF Expire, ExpireResent
<1>2. ASSUME NEW k \in Keys PROVE ttl'[k] \in {ttl[k], Window}
  BY <1>1, SetTTLStep
<1>3. ASSUME NEW k \in Keys PROVE Accounted(k)'
  <2>1. Accounted(k) /\ Counted(k)' = Counted(k) /\ admitted' = admitted
    BY <1>1 DEF AInv, Counted
  <2> QED
    BY <1>2, <2>1, AgesType DEF Accounted
<1> QED
  BY <1>3 DEF AInv

\* The counter before the present one has let Limit through, in a window of
\* time at least; time carries it away as fast as it brings the next one.
LEMMA TickAccounted ==
    ASSUME WInv, WInv', AInv, Tick PROVE AInv'
<1> SUFFICES ASSUME NEW k \in Keys PROVE Accounted(k)'
  BY DEF AInv
<1>1. Accounted(k)
  BY DEF AInv
<1>2. \A age \in Ages : admitted'[k][age] = IF age = 0 THEN 0 ELSE admitted[k][age - 1]
  BY DEF Tick
<1>3. /\ ttl'[k] = IF ttl[k] \in {NoTTL, 1} THEN NoTTL ELSE ttl[k] - 1
      /\ count'[k] = IF ttl[k] = 1 THEN 0 ELSE count[k]
  BY DEF Tick
<1>4. /\ Counted(k) \in 0..Limit /\ Counted(k)' \in 0..Limit
      /\ ttl[k] # 1 => Counted(k)' = Counted(k)
  BY <1>3, CountedType DEF Counted
<1>5. \A age \in Ages \ {0} : admitted'[k][age - 1] <= admitted'[k][age]
  <2> SUFFICES ASSUME NEW age \in Ages \ {0}
               PROVE  admitted'[k][age - 1] <= admitted'[k][age]
    OBVIOUS
  <2>1. age \in Nat /\ age - 1 \in Ages /\ admitted[k][age - 1] \in Nat
    BY AgesType
  <2>2. CASE age = 1
    BY <1>2, <2>1, <2>2
  <2>3. CASE age # 1
    <3>1. age - 1 \in Ages \ {0}
      BY <2>1, <2>3
    <3> QED
      BY <1>1, <1>2, <2>1, <3>1 DEF Accounted
  <2> QED
    BY <2>2, <2>3
<1>6. admitted'[k][0] <= Counted(k)'
  BY <1>2, <1>4, AgesType
<1>7. ttl'[k] # NoTTL => admitted'[k][Window - ttl'[k]] <= Counted(k)'
  <2> SUFFICES ASSUME ttl'[k] # NoTTL
               PROVE  admitted'[k][Window - ttl'[k]] <= Counted(k)'
    OBVIOUS
  <2>1. /\ ttl[k] # NoTTL /\ ttl[k] # 1 /\ ttl'[k] = ttl[k] - 1
        /\ ttl[k] \in 1..Window /\ Window - ttl[k] \in Ages
    BY <1>3, AgesType
  <2>2. /\ Window - ttl'[k] \in Ages \ {0}
        /\ (Window - ttl'[k]) - 1 = Window - ttl[k]
    BY <2>1 DEF Ages
  <2>3. admitted'[k][Window - ttl'[k]] = admitted[k][Window - ttl[k]]
    BY <1>2, <2>2
  <2> QED
    BY <1>1, <1>4, <2>1, <2>3 DEF Accounted
<1>8. admitted'[k][Window - 1] <= Counted(k)' + Limit
  <2>1. admitted'[k][Window - 1] \in Nat /\ admitted[k][Window - 1] \in Nat
    BY AgesType DEF WInv, TypeOK
  <2>2. CASE Window = 1
    BY <1>2, <1>4, <2>2, AgesType
  <2>3. CASE Window # 1
    <3>1. Window - 1 \in Ages \ {0}
      BY <2>3, AgesType
    <3>2. admitted'[k][Window - 1] <= admitted[k][Window - 1]
      BY <1>1, <1>2, <3>1 DEF Accounted
    <3>3. CASE ttl[k] = 1
      <4>1. admitted[k][Window - 1] <= Counted(k)
        BY <1>1, <3>3 DEF Accounted
      <4> QED
        BY <1>4, <2>1, <3>2, <4>1
    <3>4. CASE ttl[k] # 1
      BY <1>1, <1>4, <2>1, <3>2, <3>4 DEF Accounted
    <3> QED
      BY <3>3, <3>4
  <2> QED
    BY <2>2, <2>3
<1> QED
  BY <1>5, <1>6, <1>7, <1>8 DEF Accounted

-----------------------------------------------------------------------------
(* Theorems                                                                 *)

\* However requests, crashes, resent commands and expiring keys interleave, an
\* EXPIRE still to come belongs to the key it will find, unless one of the key
\* was sent again and its like are not over yet (ratelimit.go:37-51).
THEOREM RateLimitInvariance == Spec => []WInv
<1>1. Init => WInv
  <2> SUFFICES ASSUME Init PROVE WInv
    OBVIOUS
  <2>1. /\ count \in [Keys -> 0..MaxCount] /\ ttl \in [Keys -> {NoTTL} \union 1..Window]
        /\ \A k \in Keys : ttl[k] = NoTTL
    BY DEF Init
  <2>2. req \in [Requests -> Request] /\ \A r \in Requests : req[r].pc = "idle"
    BY DEF Init, Request, Idle
  <2>3. admitted \in [Keys -> [Ages -> Nat]]
    BY DEF Init
  <2>4. resent = {}
    BY DEF Init
  <2> QED
    BY <2>1, <2>2, <2>3, <2>4 DEF WInv, TypeOK
<1>2. WInv /\ [Next]_vars => WInv'
  <2>1. ASSUME WInv, UNCHANGED vars PROVE WInv'
    BY <2>1 DEF WInv, TypeOK, Expiring, vars
  <2>2. ASSUME WInv, Crash PROVE WInv'
    BY <2>2 DEF WInv, TypeOK, Crash, Request, Idle
  <2> QED
    BY <2>1, <2>2, ArriveStep, IncrStep, IncrFailsStep, IncrResentStep, ExpireStep,
       ExpireResentStep, EndStep, TickStep
       DEF Next, Handle
<1> QED
  BY <1>1, <1>2, PTL DEF Spec

\* Nothing a client does and no failure but a repeated EXPIRE moves the end of a
\* window that has one, and that only while its like are under way
\* (ratelimit.go:48-51).
THEOREM WindowEndStays == Spec => WindowKeepsItsEnd
<1> DEFINE Kept == \A k \in Keys \ resent : ttl[k] # NoTTL => ttl'[k] <= ttl[k]
<1>1. WInv /\ [Next]_vars => [Kept]_vars
  <2> SUFFICES ASSUME WInv, Next PROVE Kept
    OBVIOUS
  <2>1. ASSUME ttl' = ttl PROVE Kept
    BY <2>1 DEF WInv, TypeOK
  <2>2. ASSUME NEW r \in Requests, Expire(r) PROVE Kept
    <3>1. req[r].pc = "Expire" /\ req[r].key \in Keys /\ UNCHANGED count
      BY <2>2, Parts DEF Expire
    <3>2. req[r].key \notin resent => ttl[req[r].key] = NoTTL
      BY <3>1, Parts
    <3>3. \A k \in Keys \ {req[r].key} : ttl'[k] = ttl[k]
      BY <2>2, <3>1, SetTTLStep DEF Expire
    <3> QED
      BY <3>2, <3>3 DEF WInv, TypeOK
  <2>3. CASE Tick
    BY <2>3 DEF WInv, TypeOK, Tick
  <2>4. ASSUME NEW r \in Requests, ExpireResent(r) PROVE Kept
    <3>1. req[r].pc = "Expire" /\ req[r].key \in Keys /\ UNCHANGED count
      BY <2>4, Parts DEF ExpireResent
    <3>2. req[r].key \notin resent => ttl[req[r].key] = NoTTL
      BY <3>1, Parts
    <3>3. \A k \in Keys \ {req[r].key} : ttl'[k] = ttl[k]
      BY <2>4, <3>1, SetTTLStep DEF ExpireResent
    <3> QED
      BY <3>2, <3>3 DEF WInv, TypeOK
  <2> QED
    BY <2>1, <2>2, <2>3, <2>4 DEF Next, Handle, Arrive, Incr, IncrFails, IncrResent, Refuse,
       Serve, Crash
<1> QED
  BY <1>1, RateLimitInvariance, PTL DEF Spec, WindowKeepsItsEnd

\* What a client got through is accounted for by its counter and the one before
\* (ratelimit.go:36-54).
THEOREM Accounting == Spec => []AInv
<1>1. Init => AInv
  <2> SUFFICES ASSUME Init, NEW k \in Keys PROVE Accounted(k)
    BY DEF AInv
  <2>1. ttl[k] = NoTTL /\ count[k] = 0 /\ \A age \in Ages : admitted[k][age] = 0
    BY DEF Init
  <2>2. Counted(k) = 0
    BY <2>1 DEF Counted, Exceeds
  <2>3. 0 \in Ages /\ Window - 1 \in Ages /\ \A age \in Ages \ {0} : age - 1 \in Ages
    BY DEF Ages
  <2> QED
    BY <2>1, <2>2, <2>3 DEF Accounted
<1>2. WInv /\ WInv' /\ AInv /\ [Next]_vars => AInv'
  <2> SUFFICES ASSUME WInv, WInv', AInv, [Next]_vars PROVE AInv'
    OBVIOUS
  <2>1. ASSUME UNCHANGED <<count, ttl, admitted>> PROVE AInv'
    BY <2>1 DEF AInv, Accounted, Counted
  <2> QED
    BY <2>1, IncrAccounted, LostAccounted, ExpireAccounted, TickAccounted
       DEF Next, Handle, vars, Arrive, Refuse, Serve, Crash
<1> QED
  BY <1>1, <1>2, RateLimitInvariance, PTL DEF Spec

\* However its requests interleave and whatever is lost, a client gets through
\* at most twice the limit in a window of time, for any limit and any window
\* (ratelimit.go:36-54).
THEOREM TwiceTheLimit == Spec => []AtMostTwiceTheLimit
<1>1. WInv /\ AInv => AtMostTwiceTheLimit
  <2> SUFFICES ASSUME WInv, AInv, NEW k \in Keys
               PROVE  admitted[k][Window - 1] <= 2 * Limit
    BY DEF AtMostTwiceTheLimit
  <2>1. admitted[k][Window - 1] \in Nat /\ Counted(k) \in 0..Limit
    BY AgesType, CountedType
  <2> QED
    BY <2>1 DEF AInv, Accounted
<1> QED
  BY <1>1, RateLimitInvariance, Accounting, PTL
=============================================================================
