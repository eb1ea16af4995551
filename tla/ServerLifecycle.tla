--------------------------- MODULE ServerLifecycle ---------------------------
(***************************************************************************)
(* How a process serves and stops (cmd/api/main.go, internal/server).      *)
(* Three kinds of goroutines share the HTTP server and the pool of         *)
(* database connections: main, which sits in ListenAndServe and then waits *)
(* for done; the goroutine gracefulShutdown; and one for each connection,  *)
(* which runs the handlers.  Signals come from outside at any time.        *)
(*                                                                         *)
(* net/http and database/sql are modelled from how main.go and server.go   *)
(* use them: Shutdown stops the accept loop, then closes connections it    *)
(* finds idle until none is left or its context ends; a pool that is       *)
(* closed lets the statement under way finish and fails the next one.      *)
(***************************************************************************)
EXTENDS Naturals

CONSTANTS
    Conns,     \* connections that may be open at a time
    Grace      \* the 30 seconds of the shutdown context, in ticks

ASSUME GraceAssumption == Grace \in Nat \ {0}

VARIABLES
    main,      \* where the main goroutine stands
    watcher,   \* where the goroutine gracefulShutdown stands
    exit,      \* how the process ended, or "running"
    stopping,  \* the server's inShutdown flag
    conn,      \* connections, as Shutdown sees them
    handler,   \* what the goroutine of each connection is doing
    pool,      \* "open" or "closed"
    timer,     \* ticks left to the shutdown context
    done       \* the channel: has the value been sent?

vars == <<main, watcher, exit, stopping, conn, handler, pool, timer, done>>
server == <<stopping, conn, handler, pool>>

Alive == exit = "running"

-----------------------------------------------------------------------------
(* The main goroutine                                                       *)

\* go gracefulShutdown(srv, log, done)
Spawn ==
    /\ Alive /\ main = "start"
    /\ main' = "spawned"
    /\ watcher' = "spawned"
    /\ UNCHANGED <<exit, server, timer, done>>

\* ListenAndServe accepts connections, unless Shutdown was called before it.
Listen ==
    /\ Alive /\ main = "spawned" /\ ~stopping
    /\ main' = "listening"
    /\ UNCHANGED <<watcher, exit, server, timer, done>>

\* The port is taken, or the accept loop breaks: log.Fatal.
ListenFails ==
    /\ Alive
    /\ main = "spawned" \/ (main = "listening" /\ ~stopping)
    /\ exit' = "fatal"
    /\ UNCHANGED <<main, watcher, server, timer, done>>

\* ListenAndServe returns ErrServerClosed once Shutdown has been called.
ListenReturns ==
    /\ Alive /\ main \in {"spawned", "listening"} /\ stopping
    /\ main' = "waiting"
    /\ UNCHANGED <<watcher, exit, server, timer, done>>

\* Mutant: main returns as soon as ListenAndServe has.
ExitAtOnce ==
    /\ Alive /\ main = "waiting"
    /\ exit' = "normal"
    /\ UNCHANGED <<main, watcher, server, timer, done>>

\* <-done, and main returns; the process ends with every goroutine in it.
Exit ==
    /\ Alive /\ main = "waiting" /\ done
    /\ exit' = "normal"
    /\ UNCHANGED <<main, watcher, server, timer, done>>

-----------------------------------------------------------------------------
(* The goroutine gracefulShutdown                                           *)

\* signal.NotifyContext: from here on a signal does not kill the process.
Notify ==
    /\ Alive /\ watcher = "spawned"
    /\ watcher' = "armed"
    /\ UNCHANGED <<main, exit, server, timer, done>>

\* SIGINT or SIGTERM.  It kills before NotifyContext and after stop(); in
\* between, the first one ends <-ctx.Done() and others change nothing.
Signal ==
    /\ Alive
    /\ \/ /\ watcher = "armed"
          /\ watcher' = "signalled"
          /\ UNCHANGED exit
       \/ /\ watcher \notin {"armed", "signalled"}
          /\ exit' = "killed"
          /\ UNCHANGED watcher
    /\ UNCHANGED <<main, server, timer, done>>

\* stop() restores the default action of the signals.
AllowForce ==
    /\ Alive /\ watcher = "signalled"
    /\ watcher' = "unarmed"
    /\ UNCHANGED <<main, exit, server, timer, done>>

\* context.WithTimeout(context.Background(), 30*time.Second)
Timeout == Grace

\* The context gets its deadline; Shutdown closes the listeners.
BeginShutdown ==
    /\ Alive /\ watcher = "unarmed"
    /\ watcher' = "shutdown"
    /\ stopping' = TRUE
    /\ timer' = Timeout
    /\ UNCHANGED <<main, exit, conn, handler, pool, done>>

\* Shutdown has waited for the accept loop, and goes on to the connections.
BeginDrain ==
    /\ Alive /\ watcher = "shutdown" /\ main # "listening"
    /\ watcher' = "draining"
    /\ UNCHANGED <<main, exit, server, timer, done>>

\* Mutant: Close in place of Shutdown, which cuts requests too.
CloseAny(c) ==
    /\ Alive /\ watcher = "draining" /\ conn[c] \in {"idle", "active"}
    /\ conn' = [conn EXCEPT ![c] = IF handler[c] = "none" THEN "none" ELSE "cut"]
    /\ UNCHANGED <<main, watcher, exit, stopping, handler, pool, timer, done>>
\* The sweep of Shutdown, one connection: an idle one is closed and forgotten,
\* also when its goroutine has just read a request from it.
CloseIdle(c) ==
    /\ Alive /\ watcher = "draining" /\ conn[c] = "idle"
    /\ conn' = [conn EXCEPT ![c] = IF handler[c] = "none" THEN "none" ELSE "cut"]
    /\ UNCHANGED <<main, watcher, exit, stopping, handler, pool, timer, done>>

\* Connections Shutdown still waits for.
Pending == {c \in Conns : conn[c] \notin {"none", "cut"}}

\* Mutants: it does not wait for them; its context has no deadline.
StopWaiting == watcher = "draining"
WaitForever == watcher = "draining" /\ Pending = {}
\* Shutdown returns: all connections are closed, or the context has ended.
ShutdownReturns == watcher = "draining" /\ (Pending = {} \/ timer = 0)

\* An error of Shutdown is logged and the resources are closed all the same.
\* Server.Close stands in for the embedded http.Server's: connections stay.
ClosePool ==
    /\ Alive /\ ShutdownReturns
    /\ watcher' = "closed"
    /\ pool' = "closed"
    /\ UNCHANGED <<main, exit, stopping, conn, handler, timer, done>>

\* Mutant: gracefulShutdown returns without a word.
EndSilently ==
    /\ Alive /\ watcher = "closed"
    /\ watcher' = "finished"
    /\ UNCHANGED <<main, exit, server, timer, done>>
\* done <- true; the channel has room for it.
SendDone ==
    /\ Alive /\ watcher = "closed"
    /\ watcher' = "finished"
    /\ done' = TRUE
    /\ UNCHANGED <<main, exit, server, timer>>

-----------------------------------------------------------------------------
(* Connections and handlers                                                 *)

\* The accept loop hands over a connection; it counts as new.
Open(c) ==
    /\ Alive /\ main = "listening" /\ conn[c] = "none" /\ handler[c] = "none"
    /\ conn' = [conn EXCEPT ![c] = "new"]
    /\ UNCHANGED <<main, watcher, exit, stopping, handler, pool, timer, done>>

\* A new connection that stays silent for 5 seconds counts as idle.
Age(c) ==
    /\ Alive /\ conn[c] = "new"
    /\ conn' = [conn EXCEPT ![c] = "idle"]
    /\ UNCHANGED <<main, watcher, exit, stopping, handler, pool, timer, done>>

\* A request has been read, and the connection is not marked active yet.
ReadRequest(c) ==
    /\ Alive /\ conn[c] \in {"new", "idle"} /\ handler[c] = "none"
    /\ handler' = [handler EXCEPT ![c] = "read"]
    /\ UNCHANGED <<main, watcher, exit, stopping, conn, pool, timer, done>>

\* setState(StateActive) and the handler.
StartHandler(c) ==
    /\ Alive /\ handler[c] = "read"
    /\ handler' = [handler EXCEPT ![c] = "running"]
    /\ conn' = [conn EXCEPT ![c] = IF @ = "cut" THEN "cut" ELSE "active"]
    /\ UNCHANGED <<main, watcher, exit, stopping, pool, timer, done>>

\* The handler comes to a statement after the pool was closed.  (A statement on
\* an open pool changes nothing here: UserAuth has those.)
StatementRefused(c) ==
    /\ Alive /\ handler[c] = "running" /\ pool = "closed"
    /\ handler' = [handler EXCEPT ![c] = "refused"]
    /\ UNCHANGED <<main, watcher, exit, stopping, conn, pool, timer, done>>

\* The handler returns.  The connection is kept for another request, unless the
\* server is stopping.
Answer(c) ==
    /\ Alive /\ handler[c] \in {"running", "refused"}
    /\ handler' = [handler EXCEPT ![c] = "none"]
    /\ conn' = [conn EXCEPT ![c] = IF @ = "active" /\ ~stopping THEN "idle" ELSE "none"]
    /\ UNCHANGED <<main, watcher, exit, stopping, pool, timer, done>>

\* The client goes away, or the server's idle or read timeout closes the
\* connection.  A handler that runs is waited for even so.
HangUp(c) ==
    /\ Alive /\ conn[c] \in {"new", "idle"} /\ handler[c] = "none"
    /\ conn' = [conn EXCEPT ![c] = "none"]
    /\ UNCHANGED <<main, watcher, exit, stopping, handler, pool, timer, done>>

Tick ==
    /\ Alive /\ stopping /\ timer > 0
    /\ timer' = timer - 1
    /\ UNCHANGED <<main, watcher, exit, server, done>>

-----------------------------------------------------------------------------

Init ==
    /\ main = "start"
    /\ watcher = "none"
    /\ exit = "running"
    /\ stopping = FALSE
    /\ conn = [c \in Conns |-> "none"]
    /\ handler = [c \in Conns |-> "none"]
    /\ pool = "open"
    /\ timer = Grace
    /\ done = FALSE

MainStep == Spawn \/ Listen \/ ListenFails \/ ListenReturns \/ Exit
WatcherStep ==
    \/ Notify \/ AllowForce \/ BeginShutdown \/ BeginDrain \/ ClosePool \/ SendDone
    \/ \E c \in Conns : CloseIdle(c)
ConnStep(c) ==
    \/ Open(c) \/ Age(c) \/ ReadRequest(c) \/ StartHandler(c)
    \/ StatementRefused(c) \/ Answer(c) \/ HangUp(c)

Next == MainStep \/ WatcherStep \/ Signal \/ Tick \/ \E c \in Conns : ConnStep(c)

\* The runtime schedules the two goroutines, and time passes.  Nothing makes a
\* handler return: a statement has no timeout of its own.
Spec == Init /\ [][Next]_vars /\ WF_vars(MainStep) /\ WF_vars(WatcherStep) /\ WF_vars(Tick)

-----------------------------------------------------------------------------
(* Properties                                                               *)

\* Every variable has the type its declaration announces.
TypeOK ==
    /\ main \in {"start", "spawned", "listening", "waiting"}
    /\ watcher \in {"none", "spawned", "armed", "signalled", "unarmed", "shutdown",
                    "draining", "closed", "finished"}
    /\ exit \in {"running", "normal", "fatal", "killed"}
    /\ stopping \in BOOLEAN
    /\ conn \in [Conns -> {"none", "new", "idle", "active", "cut"}]
    /\ handler \in [Conns -> {"none", "read", "running", "refused"}]
    /\ pool \in {"open", "closed"}
    /\ timer \in 0..Grace
    /\ done \in BOOLEAN

\* A request whose client still waits on its connection finds the pool closed
\* only after the 30 seconds it was given are over (main.go:30-42).
PoolOutlivesRequests ==
    \A c \in Conns : conn[c] = "active" /\ handler[c] = "refused" => timer = 0

\* When main returns, the pool has been closed and no client is left waiting,
\* but for the requests that took the whole 30 seconds (main.go:96-98).
ExitIsGraceful ==
    exit = "normal" => /\ pool = "closed"
                       /\ timer > 0 => \A c \in Conns : conn[c] # "active"

\* main waits for done, gracefulShutdown for the accept loop that main runs in and
\* for the handlers, which wait for nobody's leave: from the start to the end,
\* but while the program serves, one of the two or the clock can move on
\* (main.go:30-47, 91-97).
NoDeadlock ==
    Alive /\ watcher # "armed" =>
        \/ main \in {"start", "spawned"}
        \/ main = "listening" /\ stopping
        \/ main = "waiting" /\ done
        \/ watcher \in {"spawned", "signalled", "unarmed", "closed"}
        \/ watcher = "shutdown" /\ main # "listening"
        \/ ShutdownReturns
        \/ stopping /\ timer > 0

\* The first signal ends the process, also when handlers never return
\* (main.go:32-47), and a listener that was never opened (main.go:91-97).
SignalEndsProcess == watcher = "signalled" ~> ~Alive

-----------------------------------------------------------------------------
(* What the safety properties rest on                                       *)

\* Once the pool is closed nothing is pending and nothing can come in.
Closed ==
    pool = "closed" =>
        /\ watcher \in {"closed", "finished"}
        /\ timer > 0 => Pending = {}

\* Inductive: the two goroutines of main.go:50-99 stay in step, and a
\* connection without a goroutine has no handler.
LInv ==
    /\ TypeOK
    /\ main = "start" <=> watcher = "none"
    /\ stopping <=> watcher \in {"shutdown", "draining", "closed", "finished"}
    /\ watcher \in {"draining", "closed", "finished"} => main # "listening"
    /\ watcher \in {"closed", "finished"} => pool = "closed"
    /\ done <=> watcher = "finished"
    /\ exit = "normal" => done
    /\ Closed
    /\ \A c \in Conns : /\ conn[c] = "none" => handler[c] = "none"
                        /\ handler[c] = "refused" => pool = "closed"

-----------------------------------------------------------------------------
(* The abstract specification                                               *)

State ==
    CASE exit = "normal" -> "ended"
      [] exit \in {"fatal", "killed"} -> "aborted"
      [] Alive /\ pool = "closed" -> "closed"
      [] Alive /\ pool # "closed" -> IF stopping THEN "stopping" ELSE "up"

Waiting == {c \in Conns : conn[c] = "active"}
Cut == {c \in Conns : conn[c] = "cut"}
Expired == stopping /\ timer = 0

Promise == INSTANCE GracefulStop
    WITH state <- State, waiting <- Waiting, cut <- Cut, expired <- Expired

\* Whenever signals and requests come, the three kinds of goroutines together
\* keep the promise of a graceful stop.
ImplementsGracefulStop == Promise!Spec
=============================================================================
