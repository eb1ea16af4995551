----------------------------- MODULE GracefulStop -----------------------------
(***************************************************************************)
(* What gracefulShutdown promises (cmd/api/main.go:18-48), whatever its    *)
(* goroutines, channels and timers: a request that has been taken is       *)
(* answered on its connection, and with the database there, unless the     *)
(* time given to it is over or the process is killed; then, and only then, *)
(* does the process end.                                                   *)
(***************************************************************************)
CONSTANT Conns

VARIABLES
    state,     \* "up", "stopping", "closed", "ended" or, by force, "aborted"
    waiting,   \* connections whose client waits for an answer
    cut,       \* connections closed under a request nobody had taken yet
    expired    \* is the time over that a stop leaves to requests?

vars == <<state, waiting, cut, expired>>

Running == state \in {"up", "stopping", "closed"}

\* Once the database is let go, requests are taken only if the time is over.
TakeRequest(c) ==
    /\ state \in {"up", "stopping"} \/ (state = "closed" /\ expired)
    /\ waiting' = waiting \union {c}
    /\ UNCHANGED <<state, cut, expired>>

Answer(c) ==
    /\ Running /\ c \in waiting
    /\ waiting' = waiting \ {c}
    /\ UNCHANGED <<state, cut, expired>>

Cut(c) ==
    /\ state = "stopping" /\ c \notin waiting
    /\ cut' = cut \union {c}
    /\ UNCHANGED <<state, waiting, expired>>

\* The handler has answered nobody.
Forget(c) ==
    /\ Running /\ c \in cut
    /\ cut' = cut \ {c}
    /\ UNCHANGED <<state, waiting, expired>>

BeginStop ==
    /\ state = "up"
    /\ state' = "stopping"
    /\ UNCHANGED <<waiting, cut, expired>>

Expire ==
    /\ state \in {"stopping", "closed"}
    /\ expired' = TRUE
    /\ UNCHANGED <<state, waiting, cut>>

ReleaseDatabase ==
    /\ state = "stopping"
    /\ waiting = {} \/ expired
    /\ state' = "closed"
    /\ UNCHANGED <<waiting, cut, expired>>

End ==
    /\ state = "closed"
    /\ state' = "ended"
    /\ UNCHANGED <<waiting, cut, expired>>

\* A kill, or log.Fatal.
Abort ==
    /\ Running
    /\ state' = "aborted"
    /\ UNCHANGED <<waiting, cut, expired>>

Init ==
    /\ state = "up"
    /\ waiting = {} /\ cut = {}
    /\ expired = FALSE

Next ==
    \/ BeginStop \/ Expire \/ ReleaseDatabase \/ End \/ Abort
    \/ \E c \in Conns : TakeRequest(c) \/ Answer(c) \/ Cut(c) \/ Forget(c)

Spec == Init /\ [][Next]_vars
=============================================================================
