-------------------------- MODULE ServiceLifecycle --------------------------
(***************************************************************************)
(* One life of the server process: cmd/chirpy/main.go, Service.Run and     *)
(* Service.Close. Three kinds of goroutines run at once: main inside       *)
(* ListenAndServe, the one that waits for the interrupt and calls Shutdown,*)
(* and one per accepted request. http.Server is modelled from how Run uses *)
(* it: Shutdown closes the listener, which makes ListenAndServe return at  *)
(* once, and itself goes on waiting for the requests.                      *)
(***************************************************************************)
CONSTANT Request

VARIABLES main,       \* where main() is
          listener,   \* "unbound", "open" or "closed"
          interrupt,  \* SIGINT has arrived: ctx is done
          shutdown,   \* the goroutine started by Run
          db,         \* the *sql.DB pool
          handler     \* request -> its progress

vars == <<main, listener, interrupt, shutdown, db, handler>>

Init ==
    /\ main = "listen" /\ listener = "unbound"
    /\ interrupt = FALSE /\ shutdown = "waiting"
    /\ db = "open"
    /\ handler = [r \in Request |-> "none"]

Alive == main # "exited"

\* ListenAndServe binds the port and serves, ...
Listen ==
    /\ main = "listen" /\ shutdown = "waiting"
    /\ main' = "serve" /\ listener' = "open"
    /\ UNCHANGED <<interrupt, shutdown, db, handler>>

\* ... or fails: Run returns the error and log.Fatal exits, past the deferred Close.
ListenFails ==
    /\ main = "listen"
    /\ main' = "exited"
    /\ UNCHANGED <<listener, interrupt, shutdown, db, handler>>

\* An error of Accept while it serves ends the process the same way, and the
\* requests in flight with it.
ServeFails ==
    /\ main = "serve" /\ shutdown = "waiting"
    /\ main' = "exited" /\ listener' = "closed"
    /\ handler' = [r \in Request |-> IF handler[r] = "running" THEN "lost" ELSE handler[r]]
    /\ UNCHANGED <<interrupt, shutdown, db>>

Interrupt ==
    /\ Alive /\ ~interrupt
    /\ interrupt' = TRUE
    /\ UNCHANGED <<main, listener, shutdown, db, handler>>

\* httpServer.Shutdown(context.Background()): closes the listener, then waits.
Shutdown ==
    /\ Alive /\ interrupt /\ shutdown = "waiting"
    /\ shutdown' = "draining" /\ listener' = "closed"
    /\ UNCHANGED <<main, interrupt, db, handler>>

Drained ==
    /\ Alive /\ shutdown = "draining"
    /\ \A r \in Request : handler[r] # "running"
    /\ shutdown' = "drained"
    /\ UNCHANGED <<main, listener, interrupt, db, handler>>

\* Mutants: Run returns on the interrupt itself; Run waits for Shutdown.
ReturnsOnInterrupt ==
    /\ main \in {"listen", "serve"} /\ interrupt
    /\ main' = "close"
    /\ UNCHANGED <<listener, interrupt, shutdown, db, handler>>
ReturnsOnceDrained ==
    /\ main \in {"listen", "serve"} /\ shutdown = "drained"
    /\ main' = "close"
    /\ UNCHANGED <<listener, interrupt, shutdown, db, handler>>

\* ListenAndServe returns ErrServerClosed as soon as Shutdown has begun, and Run nil.
ServeReturns ==
    /\ main \in {"listen", "serve"} /\ shutdown # "waiting"
    /\ main' = "close"
    /\ UNCHANGED <<listener, interrupt, shutdown, db, handler>>

\* main's deferred runnable.Close().
Close ==
    /\ main = "close"
    /\ db' = "closed" /\ main' = "return"
    /\ UNCHANGED <<listener, interrupt, shutdown, handler>>

\* main returns: the process ends with whatever still runs.
Exit ==
    /\ main = "return"
    /\ main' = "exited"
    /\ handler' = [r \in Request |-> IF handler[r] = "running" THEN "cut" ELSE handler[r]]
    /\ UNCHANGED <<listener, interrupt, shutdown, db>>

Accept(r) ==
    /\ Alive /\ listener = "open" /\ handler[r] = "none"
    /\ handler' = [handler EXCEPT ![r] = "running"]
    /\ UNCHANGED <<main, listener, interrupt, shutdown, db>>

\* A handler finishes; once the pool is closed its statements fail.
Finish(r) ==
    /\ Alive /\ handler[r] = "running"
    /\ handler' = [handler EXCEPT ![r] = IF db = "open" THEN "served" ELSE "failed"]
    /\ UNCHANGED <<main, listener, interrupt, shutdown, db>>

MainStep     == Listen \/ ListenFails \/ ServeReturns \/ Close \/ Exit
ShutdownStep == Shutdown \/ Drained
Next == MainStep \/ ServeFails \/ ShutdownStep \/ Interrupt \/ \E r \in Request : Accept(r) \/ Finish(r)

\* The Go scheduler runs main and the shutdown goroutine; a handler may hang, and
\* Accept need not fail.
Spec == Init /\ [][Next]_vars /\ WF_vars(MainStep) /\ WF_vars(ShutdownStep)

-----------------------------------------------------------------------------
\* The pool is closed only after the port is: no request is accepted by a
\* server that cannot reach its database any more.
PoolOutlivesListener == db = "closed" => listener # "open"

\* An interrupt ends the process, even while a handler hangs.
InterruptStops == interrupt ~> main = "exited"

\* Graceful shutdown: a request that was accepted before the interrupt took
\* effect is answered, with its database, before the process ends. What is lost
\* to a failing listener is another matter.
RequestsAreDrained == \A r \in Request : handler[r] \notin {"cut", "failed"}
=============================================================================
