------------------------ MODULE ServerLifecycleProofs ------------------------
(***************************************************************************)
(* Theorems about ServerLifecycle, for any number of connections and any   *)
(* grace period.                                                           *)
(***************************************************************************)
EXTENDS ServerLifecycle, TLAPS

USE GraceAssumption

-----------------------------------------------------------------------------
(* Steps                                                                    *)

\* Every step of the main goroutine preserves the invariant.
LEMMA MainSteps == LInv /\ MainStep => LInv'
<1> SUFFICES ASSUME LInv, MainStep PROVE LInv'
  OBVIOUS
<1> USE DEF LInv, TypeOK, Closed, Pending, Alive, server
<1>1. CASE Spawn
  BY <1>1 DEF Spawn
<1>2. CASE Listen
  BY <1>2 DEF Listen
<1>3. CASE ListenFails
  BY <1>3 DEF ListenFails
<1>4. CASE ListenReturns
  BY <1>4 DEF ListenReturns
<1>5. CASE Exit
  BY <1>5 DEF Exit
<1> QED
  BY <1>1, <1>2, <1>3, <1>4, <1>5 DEF MainStep

\* So does every step of gracefulShutdown; the pool is closed only when no
\* connection is pending or the deadline has passed.
LEMMA WatcherSteps == LInv /\ WatcherStep => LInv'
<1> SUFFICES ASSUME LInv, WatcherStep PROVE LInv'
  OBVIOUS
<1> USE DEF LInv, TypeOK, Closed, Pending, Alive, server
<1>1. CASE Notify
  BY <1>1 DEF Notify
<1>2. CASE AllowForce
  BY <1>2 DEF AllowForce
<1>3. CASE BeginShutdown
  BY <1>3 DEF BeginShutdown, Timeout
<1>4. CASE BeginDrain
  BY <1>4 DEF BeginDrain
<1>5. CASE ClosePool
  BY <1>5 DEF ClosePool, ShutdownReturns
<1>6. CASE SendDone
  BY <1>6 DEF SendDone
<1>7. ASSUME NEW c \in Conns, CloseIdle(c) PROVE LInv'
  BY <1>7 DEF CloseIdle
<1> QED
  BY <1>1, <1>2, <1>3, <1>4, <1>5, <1>6, <1>7 DEF WatcherStep

\* Connections and handlers preserve it: a closed pool with time left has no
\* pending connection, and the accept loop is over.
LEMMA ConnSteps == ASSUME NEW c \in Conns PROVE LInv /\ ConnStep(c) => LInv'
<1> SUFFICES ASSUME LInv, ConnStep(c) PROVE LInv'
  OBVIOUS
<1> USE DEF LInv, TypeOK, Closed, Pending, Alive
<1>1. CASE Open(c)
  BY <1>1 DEF Open
<1>2. CASE Age(c)
  BY <1>2 DEF Age
<1>3. CASE ReadRequest(c)
  BY <1>3 DEF ReadRequest
<1>4. CASE StartHandler(c)
  BY <1>4 DEF StartHandler
<1>5. CASE StatementRefused(c)
  BY <1>5 DEF StatementRefused
<1>6. CASE Answer(c)
  BY <1>6 DEF Answer
<1>7. CASE HangUp(c)
  BY <1>7 DEF HangUp
<1> QED
  BY <1>1, <1>2, <1>3, <1>4, <1>5, <1>6, <1>7 DEF ConnStep

\* Signals and time preserve it.
LEMMA OutsideSteps == LInv /\ (Signal \/ Tick) => LInv'
BY DEF LInv, TypeOK, Closed, Pending, Alive, server, Signal, Tick

-----------------------------------------------------------------------------
(* Theorems                                                                 *)

\* The invariant of a process holds from its start (main.go:50) to its end.
THEOREM LifecycleInvariance == Spec => []LInv
<1>1. Init => LInv
  <2> SUFFICES ASSUME Init PROVE LInv
    OBVIOUS
  <2>1. TypeOK
    <3>1. timer \in 0..Grace
      BY DEF Init
    <3>2. /\ conn \in [Conns -> {"none", "new", "idle", "active", "cut"}]
          /\ handler \in [Conns -> {"none", "read", "running", "refused"}]
      BY DEF Init
    <3> QED
      BY <3>1, <3>2, Zenon DEF Init, TypeOK
  <2>2. ~stopping /\ ~done /\ main = "start" /\ watcher = "none"
        /\ exit = "running" /\ pool = "open"
    BY DEF Init
  <2>3. \A c \in Conns : conn[c] = "none" /\ handler[c] = "none"
    BY DEF Init
  <2> QED
    BY <2>1, <2>2, <2>3 DEF LInv, Closed
<1>2. LInv /\ [Next]_vars => LInv'
  <2>1. LInv /\ UNCHANGED vars => LInv'
    BY DEF LInv, TypeOK, Closed, Pending, vars
  <2> QED
    BY <2>1, MainSteps, WatcherSteps, ConnSteps, OutsideSteps DEF Next
<1> QED
  BY <1>1, <1>2, PTL DEF Spec

\* No request whose client waits on its connection finds the pool closed before
\* the 30 seconds are over (main.go:35-42), whenever signals and requests come.
THEOREM PoolOutlives == Spec => []PoolOutlivesRequests
<1>1. LInv => PoolOutlivesRequests
  BY DEF LInv, TypeOK, Closed, Pending, PoolOutlivesRequests
<1> QED
  BY <1>1, LifecycleInvariance, PTL

\* main returns only after the pool is closed, and leaves no client waiting that
\* has had less than the 30 seconds (main.go:96-98).
THEOREM GracefulExit == Spec => []ExitIsGraceful
<1>1. LInv => ExitIsGraceful
  BY DEF LInv, TypeOK, Closed, Pending, ExitIsGraceful
<1> QED
  BY <1>1, LifecycleInvariance, PTL

\* From the start to the end one of main, gracefulShutdown and the clock can move
\* on, whatever the connections do (main.go:30-47, 91-97).
THEOREM SomebodyMovesOn == Spec => []NoDeadlock
<1>1. LInv => NoDeadlock
  BY DEF LInv, TypeOK, NoDeadlock, ShutdownReturns
<1> QED
  BY <1>1, LifecycleInvariance, PTL

-----------------------------------------------------------------------------
(* Refinement                                                               *)

\* What the abstract state says of the process.
LEMMA StateCases ==
  ASSUME TypeOK
  PROVE  /\ State = "ended" <=> exit = "normal"
         /\ State = "aborted" <=> exit \in {"fatal", "killed"}
         /\ State = "closed" <=> Alive /\ pool = "closed"
         /\ State = "stopping" <=> Alive /\ pool = "open" /\ stopping
         /\ State = "up" <=> Alive /\ pool = "open" /\ ~stopping
         /\ State \in {"up", "stopping", "closed", "ended", "aborted"}
<1>1. CASE exit = "normal"
  BY <1>1 DEF State, Alive
<1>2. CASE exit \in {"fatal", "killed"}
  BY <1>2 DEF State, Alive
<1>3. CASE Alive /\ pool = "closed"
  BY <1>3 DEF State, Alive
<1>4. CASE Alive /\ pool = "open" /\ stopping
  BY <1>4 DEF State, Alive
<1>5. CASE Alive /\ pool = "open" /\ ~stopping
  BY <1>5 DEF State, Alive
<1> QED
  BY <1>1, <1>2, <1>3, <1>4, <1>5 DEF TypeOK, Alive

\* Steps the promise does not see: the goroutines pass the marks on their way,
\* and connections come, go silent and leave between requests.
LEMMA HiddenSteps ==
  ASSUME LInv,
         \/ Spawn \/ Listen \/ ListenReturns
         \/ Notify \/ AllowForce \/ BeginDrain \/ SendDone
         \/ \E c \in Conns : Open(c) \/ Age(c) \/ ReadRequest(c)
                             \/ StatementRefused(c) \/ HangUp(c)
  PROVE  UNCHANGED Promise!vars
<1>1. UNCHANGED <<exit, pool, stopping, timer>>
  BY DEF Spawn, Listen, ListenReturns, Notify, AllowForce, BeginDrain, SendDone,
         Open, Age, ReadRequest, StatementRefused, HangUp, server
<1>2. UNCHANGED State
  BY <1>1 DEF State, Alive
<1>3. UNCHANGED Expired
  BY <1>1 DEF Expired
<1>4. ASSUME NEW d \in Conns
      PROVE  (conn'[d] = "active" <=> conn[d] = "active")
             /\ (conn'[d] = "cut" <=> conn[d] = "cut")
  BY DEF LInv, TypeOK, Spawn, Listen, ListenReturns, Notify, AllowForce, BeginDrain,
         SendDone, Open, Age, ReadRequest, StatementRefused, HangUp, server
<1>5. UNCHANGED Waiting /\ UNCHANGED Cut
  BY <1>4 DEF Waiting, Cut
<1> QED
  BY <1>2, <1>3, <1>5 DEF Promise!vars

\* Steps that change no connection change nobody's waiting.
LEMMA SameClients == UNCHANGED conn => UNCHANGED Waiting /\ UNCHANGED Cut
BY DEF Waiting, Cut

\* Signals and a listener that fails: the process is killed, or the signal is
\* taken note of.
LEMMA AbortSteps ==
  ASSUME LInv, ListenFails \/ Signal
  PROVE  Promise!Next \/ UNCHANGED Promise!vars
<1>1. UNCHANGED <<pool, stopping, timer, conn>> /\ Alive
  BY DEF ListenFails, Signal, server
<1>2. UNCHANGED Expired /\ UNCHANGED Waiting /\ UNCHANGED Cut
  BY <1>1, SameClients DEF Expired
<1>3. CASE UNCHANGED exit
  <2>1. UNCHANGED State
    BY <1>1, <1>3 DEF State, Alive
  <2> QED
    BY <1>2, <2>1 DEF Promise!vars
<1>4. CASE exit' \in {"fatal", "killed"}
  <2>1. State' = "aborted"
    BY <1>4 DEF State, Alive
  <2>2. State \in {"up", "stopping", "closed"}
    BY <1>1, StateCases DEF LInv, Alive
  <2> QED
    BY <1>2, <2>1, <2>2 DEF Promise!Next, Promise!Abort, Promise!Running
<1> QED
  BY <1>3, <1>4 DEF ListenFails, Signal

\* gracefulShutdown: it announces the stop, releases the database when nobody
\* waits or the time is over, and main ends only after that.
LEMMA StopSteps ==
  ASSUME LInv, BeginShutdown \/ ClosePool \/ Exit
  PROVE  Promise!Next
<1>1. UNCHANGED Waiting /\ UNCHANGED Cut /\ Alive
  BY SameClients DEF BeginShutdown, ClosePool, Exit, server
<1>2. CASE BeginShutdown
  <2>1. pool = "open" /\ ~stopping
    BY <1>2 DEF BeginShutdown, LInv, TypeOK, Closed
  <2>2. State = "up" /\ ~Expired
    BY <1>1, <2>1, StateCases DEF LInv, Expired
  <2>3. State' = "stopping" /\ ~Expired'
    BY <1>1, <1>2, <2>1 DEF BeginShutdown, Timeout, State, Alive, Expired
  <2> QED
    BY <1>1, <2>2, <2>3 DEF Promise!Next, Promise!BeginStop, Expired
<1>3. CASE ClosePool
  <2>1. pool = "open" /\ stopping
    BY <1>3 DEF ClosePool, ShutdownReturns, LInv, TypeOK, Closed
  <2>2. State = "stopping" /\ State' = "closed"
    BY <1>3, <2>1 DEF ClosePool, State, Alive
  <2>3. UNCHANGED Expired
    BY <1>3 DEF ClosePool, Expired
  <2>4. Waiting = {} \/ Expired
    BY <1>3, <2>1 DEF ClosePool, ShutdownReturns, Pending, Waiting, Expired
  <2> QED
    BY <1>1, <2>2, <2>3, <2>4 DEF Promise!Next, Promise!ReleaseDatabase
<1>4. CASE Exit
  <2>1. pool = "closed"
    BY <1>4 DEF Exit, LInv, TypeOK
  <2>2. State = "closed" /\ State' = "ended"
    BY <1>4, <2>1 DEF Exit, State, Alive
  <2>3. UNCHANGED Expired
    BY <1>4 DEF Exit, server, Expired
  <2> QED
    BY <1>1, <2>2, <2>3 DEF Promise!Next, Promise!End
<1> QED
  BY <1>2, <1>3, <1>4

\* Time: the last tick ends what was promised to the requests.
LEMMA TimeStep ==
  ASSUME LInv, Tick
  PROVE  Promise!Next \/ UNCHANGED Promise!vars
<1>1. UNCHANGED State /\ UNCHANGED Waiting /\ UNCHANGED Cut
  BY SameClients DEF Tick, server, State, Alive
<1>2. State \in {"stopping", "closed"}
  BY StateCases DEF Tick, LInv, TypeOK
<1>3. CASE timer' = 0
  <2>1. Expired' = TRUE
    BY <1>3 DEF Tick, server, Expired
  <2> QED
    BY <1>1, <1>2, <2>1 DEF Promise!Next, Promise!Expire
<1>4. CASE timer' # 0
  <2>1. UNCHANGED Expired
    BY <1>4 DEF Tick, server, Expired
  <2> QED
    BY <1>1, <2>1 DEF Promise!vars
<1> QED
  BY <1>3, <1>4

\* The sweep closes no connection a client waits on: it cuts one whose request
\* nobody has taken, or one without any.
LEMMA SweepStep ==
  ASSUME LInv, NEW c \in Conns, CloseIdle(c)
  PROVE  Promise!Next \/ UNCHANGED Promise!vars
<1>1. UNCHANGED State /\ UNCHANGED Expired
  BY DEF CloseIdle, State, Alive, Expired
<1>2. State = "stopping"
  <2>1. pool = "open" /\ stopping
    BY DEF CloseIdle, LInv, TypeOK, Closed
  <2> QED
    BY <2>1, StateCases DEF CloseIdle, LInv
<1>3. UNCHANGED Waiting
  BY DEF CloseIdle, LInv, TypeOK, Waiting
<1>4. c \notin Waiting
  BY DEF CloseIdle, Waiting
<1>5. CASE handler[c] = "none"
  <2>1. UNCHANGED Cut
    BY <1>5 DEF CloseIdle, LInv, TypeOK, Cut
  <2> QED
    BY <1>1, <1>3, <2>1 DEF Promise!vars
<1>6. CASE handler[c] # "none"
  <2>1. Cut' = Cut \union {c}
    BY <1>6 DEF CloseIdle, LInv, TypeOK, Cut
  <2> QED
    BY <1>1, <1>2, <1>3, <1>4, <2>1 DEF Promise!Next, Promise!Cut
<1> QED
  BY <1>5, <1>6

\* A handler starts on a connection that is still open only while the database is
\* there or the time is over.
LEMMA StartStep ==
  ASSUME LInv, NEW c \in Conns, StartHandler(c)
  PROVE  Promise!Next \/ UNCHANGED Promise!vars
<1>1. UNCHANGED State /\ UNCHANGED Expired
  BY DEF StartHandler, State, Alive, Expired
<1>2. UNCHANGED Cut
  BY DEF StartHandler, LInv, TypeOK, Cut
<1>3. CASE conn[c] = "cut"
  <2>1. UNCHANGED Waiting
    BY <1>3 DEF StartHandler, LInv, TypeOK, Waiting
  <2> QED
    BY <1>1, <1>2, <2>1 DEF Promise!vars
<1>4. CASE conn[c] # "cut"
  <2>1. Waiting' = Waiting \union {c}
    BY <1>4 DEF StartHandler, LInv, TypeOK, Waiting
  <2>2. State \in {"up", "stopping"} \/ (State = "closed" /\ Expired)
    <3>1. CASE pool = "open"
      BY <3>1, StateCases DEF StartHandler, LInv, TypeOK
    <3>2. CASE pool = "closed"
      <4>1. c \in Pending
        BY <1>4 DEF StartHandler, LInv, TypeOK, Pending
      <4>2. timer = 0 /\ stopping
        BY <3>2, <4>1 DEF LInv, TypeOK, Closed
      <4> QED
        BY <3>2, <4>2, StateCases DEF StartHandler, LInv, Expired
    <3> QED
      BY <3>1, <3>2 DEF LInv, TypeOK
  <2> QED
    BY <1>1, <1>2, <2>1, <2>2 DEF Promise!Next, Promise!TakeRequest
<1> QED
  BY <1>3, <1>4

\* A handler returns: its client has the answer, unless the sweep had cut it off.
LEMMA AnswerStep ==
  ASSUME LInv, NEW c \in Conns, Answer(c)
  PROVE  Promise!Next \/ UNCHANGED Promise!vars
<1>1. UNCHANGED State /\ UNCHANGED Expired
  BY DEF Answer, State, Alive, Expired
<1>2. State \in {"up", "stopping", "closed"}
  BY StateCases DEF Answer, LInv, TypeOK
<1>3. CASE conn[c] = "active"
  <2>1. c \in Waiting /\ Waiting' = Waiting \ {c}
    BY <1>3 DEF Answer, LInv, TypeOK, Waiting
  <2>2. UNCHANGED Cut
    BY <1>3 DEF Answer, LInv, TypeOK, Cut
  <2> QED
    BY <1>1, <1>2, <2>1, <2>2 DEF Promise!Next, Promise!Answer, Promise!Running
<1>4. CASE conn[c] = "cut"
  <2>1. c \in Cut /\ Cut' = Cut \ {c}
    BY <1>4 DEF Answer, LInv, TypeOK, Cut
  <2>2. UNCHANGED Waiting
    BY <1>4 DEF Answer, LInv, TypeOK, Waiting
  <2> QED
    BY <1>1, <1>2, <2>1, <2>2 DEF Promise!Next, Promise!Forget, Promise!Running
<1>5. CASE conn[c] \notin {"active", "cut"}
  <2>1. UNCHANGED Waiting /\ UNCHANGED Cut
    BY <1>5 DEF Answer, LInv, TypeOK, Waiting, Cut
  <2> QED
    BY <1>1, <2>1 DEF Promise!vars
<1> QED
  BY <1>3, <1>4, <1>5

\* Every step keeps the promise or is hidden from it.
LEMMA StepImpl == LInv /\ [Next]_vars => [Promise!Next]_(Promise!vars)
<1> SUFFICES ASSUME LInv, [Next]_vars PROVE [Promise!Next]_(Promise!vars)
  OBVIOUS
<1>1. CASE MainStep
  BY <1>1, HiddenSteps, AbortSteps, StopSteps DEF MainStep
<1>2. CASE WatcherStep
  BY <1>2, HiddenSteps, StopSteps, SweepStep DEF WatcherStep
<1>3. ASSUME NEW c \in Conns, ConnStep(c) PROVE [Promise!Next]_(Promise!vars)
  BY <1>3, HiddenSteps, StartStep, AnswerStep DEF ConnStep
<1>4. CASE Signal \/ Tick
  BY <1>4, AbortSteps, TimeStep
<1>5. CASE UNCHANGED vars
  BY <1>5 DEF vars, State, Alive, Waiting, Cut, Expired, Promise!vars
<1> QED
  BY <1>1, <1>2, <1>3, <1>4, <1>5 DEF Next

\* The three kinds of goroutines together keep the promise of a graceful stop
\* (main.go:18-48): requests are answered with the database there unless the time
\* is over, and the process ends after that only, or by force.
THEOREM Implements == Spec => ImplementsGracefulStop
<1>1. Init => Promise!Init
  BY DEF Init, Promise!Init, State, Alive, Waiting, Cut, Expired
<1> QED
  BY <1>1, StepImpl, LifecycleInvariance, PTL DEF Spec, ImplementsGracefulStop, Promise!Spec
=============================================================================
