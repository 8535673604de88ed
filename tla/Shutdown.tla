------------------------------- MODULE Shutdown -------------------------------
(***************************************************************************)
(* How the process serves and how it stops (runServe in serve.go, from the *)
(* moment the ports are bound): three listeners, the shutdown goroutine    *)
(* that stops them one after the other and drains the LRO workers, and the *)
(* main goroutine that joins them and decides the exit code.               *)
(*                                                                         *)
(* From the libraries: a stopped server waits for its handlers and only    *)
(* then lets Serve return; Serve on a server stopped before returns        *)
(* ErrServerStopped; a listener that fails leaves its open connections     *)
(* served; closing the connection pool waits for the connections in use.   *)
(* The reconciler stops by itself and nobody waits for it: it is left out. *)
(***************************************************************************)
EXTENDS Naturals

CONSTANTS
    Workers,    \* slots of the LRO worker pool
    MaxCalls    \* calls in flight at one listener

ASSUME ShutdownAssumption == MaxCalls \in Nat \ {0}

Listeners == {"diag", "internal", "public"}

VARIABLES
    ctx,        \* has the root context been cancelled?
    server,     \* listener -> state of its server; "refusing" is stopped before
                \* Serve, "off" not configured
    result,     \* listener -> what Serve returned: Pending, ok, crash or early
    calls,      \* listener -> handlers running
    worker,     \* slot -> none, between (statements) or db (holds a connection)
    stage,      \* where the shutdown goroutine is
    expired,    \* has the drain deadline passed?
    errCh,      \* internalErrCh: Pending, ok or crash
    main,       \* serving, joining, closing (deferred calls) or exited
    exit        \* the error runServe returns: Pending, ok, crash or early

vars == <<ctx, server, result, calls, worker, stage, expired, errCh, main, exit>>

Pending == "pending"
Running == main # "exited"
Alive(w) == worker[w] # "none"

-----------------------------------------------------------------------------
(* Listeners and their handlers.                                           *)

Signal ==
    /\ Running /\ ~ctx
    /\ ctx' = TRUE
    /\ UNCHANGED <<server, result, calls, worker, stage, expired, errCh, main, exit>>

Serve(s) ==
    /\ Running /\ server[s] = "new"
    /\ server' = [server EXCEPT ![s] = "serving"]
    /\ UNCHANGED <<ctx, result, calls, worker, stage, expired, errCh, main, exit>>

\* Accept fails: Serve returns, the open connections stay.
ListenerFails(s) ==
    /\ Running /\ server[s] = "serving"
    /\ server' = [server EXCEPT ![s] = "failed"]
    /\ result' = [result EXCEPT ![s] = "crash"]
    /\ UNCHANGED <<ctx, calls, worker, stage, expired, errCh, main, exit>>

\* Serve returns nil once the stop is complete, ErrServerStopped if the stop
\* came first.
ServeReturns(s) ==
    /\ Running /\ result[s] = Pending
    /\ server[s] \in {"stopped", "refusing"}
    /\ result' = [result EXCEPT ![s] = IF server[s] = "stopped" THEN "ok" ELSE "early"]
    /\ UNCHANGED <<ctx, server, calls, worker, stage, expired, errCh, main, exit>>

Arrive(s) ==
    /\ Running /\ server[s] \in {"serving", "failed"}
    /\ calls[s] < MaxCalls
    /\ calls' = [calls EXCEPT ![s] = @ + 1]
    /\ UNCHANGED <<ctx, server, result, worker, stage, expired, errCh, main, exit>>

Return(s) ==
    /\ Running /\ calls[s] > 0
    /\ calls' = [calls EXCEPT ![s] = @ - 1]
    /\ UNCHANGED <<ctx, server, result, worker, stage, expired, errCh, main, exit>>

-----------------------------------------------------------------------------
(* LRO workers: started by mutations, which only the internal listener     *)
(* serves; a worker takes a connection for each statement or transaction.  *)

Run(w) ==
    /\ Running /\ calls["internal"] > 0 /\ worker[w] = "none"
    /\ worker' = [worker EXCEPT ![w] = "between"]
    /\ UNCHANGED <<ctx, server, result, calls, stage, expired, errCh, main, exit>>

Acquire(w) ==
    /\ Running /\ main # "closing" /\ worker[w] = "between"
    /\ worker' = [worker EXCEPT ![w] = "db"]
    /\ UNCHANGED <<ctx, server, result, calls, stage, expired, errCh, main, exit>>

Release(w) ==
    /\ Running /\ worker[w] = "db"
    /\ worker' = [worker EXCEPT ![w] = "between"]
    /\ UNCHANGED <<ctx, server, result, calls, stage, expired, errCh, main, exit>>

Finish(w) ==
    /\ Running /\ worker[w] = "between"
    /\ worker' = [worker EXCEPT ![w] = "none"]
    /\ UNCHANGED <<ctx, server, result, calls, stage, expired, errCh, main, exit>>

-----------------------------------------------------------------------------
(* The shutdown goroutine.                                                 *)

\* Mutant: the workers are drained before the public listener is stopped and
\* while the internal one still serves.
NextStageDrainFirst(s) ==
    CASE s = "waiting" -> "diag" [] s = "diag" -> "drain" [] s = "drain" -> "internal"
      [] s = "internal" -> "public" [] s = "public" -> "closed"

NextStage(s) ==
    CASE s = "waiting" -> "diag" [] s = "diag" -> "internal" [] s = "internal" -> "public"
      [] s = "public" -> "drain" [] s = "drain" -> "closed"

\* Entering the stage of a listener calls its GracefulStop (or Shutdown).
Halted(srv, s) ==
    IF s \in Listeners
    THEN [srv EXCEPT ![s] = CASE @ = "new" -> "refusing"
                              [] @ \in {"serving", "failed"} -> "stopping"
                              [] OTHER -> @]
    ELSE srv

\* The stop is complete when no handler runs.
Stopped(srv, s) ==
    IF s \in Listeners /\ srv[s] = "stopping" THEN [srv EXCEPT ![s] = "stopped"] ELSE srv

\* Mutant: Wait does not wait.
StageOverAnyway(s) ==
    CASE s = "waiting" -> ctx
      [] s \in Listeners -> calls[s] = 0
      [] s = "drain" -> TRUE
      [] s = "closed" -> FALSE

StageOver(s) ==
    CASE s = "waiting" -> ctx
      [] s \in Listeners -> calls[s] = 0
      [] s = "drain" -> expired \/ \A w \in Workers : ~Alive(w)
      [] s = "closed" -> FALSE

ShutdownStep ==
    /\ Running /\ StageOver(stage)
    /\ stage' = NextStage(stage)
    /\ server' = Halted(Stopped(server, stage), stage')
    /\ UNCHANGED <<ctx, result, calls, worker, expired, errCh, main, exit>>

\* The 15 seconds of drainCtx are over.
DeadlinePasses ==
    /\ Running /\ stage = "drain" /\ ~expired
    /\ expired' = TRUE
    /\ UNCHANGED <<ctx, server, result, calls, worker, stage, errCh, main, exit>>

-----------------------------------------------------------------------------
(* The internal goroutine and the main goroutine.                          *)

\* Mutant: a failed internal listener does not stop the process.
runInternalListenerAlone ==
    /\ Running /\ result["internal"] # Pending /\ errCh = Pending
    /\ errCh' = IF result["internal"] = "crash" THEN "crash" ELSE "ok"
    /\ UNCHANGED <<ctx, server, result, calls, worker, stage, expired, main, exit>>

\* ErrServerStopped is no error here; any other one cancels the context.
runInternalListener ==
    /\ Running /\ result["internal"] # Pending /\ errCh = Pending
    /\ errCh' = IF result["internal"] = "crash" THEN "crash" ELSE "ok"
    /\ ctx' = (ctx \/ result["internal"] = "crash")
    /\ UNCHANGED <<server, result, calls, worker, stage, expired, main, exit>>

\* grpcSrv.Serve has returned: cancel().
MainCancels ==
    /\ main = "serving" /\ result["public"] # Pending
    /\ main' = "joining"
    /\ ctx' = TRUE
    /\ UNCHANGED <<server, result, calls, worker, stage, expired, errCh, exit>>

\* Mutant: only the public listener's error counts.
serveResultPublic(publicErr, internalErr) == publicErr

\* The public listener's error first, else the internal one's.
serveResult(publicErr, internalErr) ==
    IF publicErr # "ok" THEN publicErr ELSE internalErr

\* <-shutdownDone, <-internalErrCh
MainJoins ==
    /\ main = "joining" /\ stage = "closed" /\ errCh # Pending
    /\ main' = "closing"
    /\ exit' = serveResult(result["public"], errCh)
    /\ UNCHANGED <<ctx, server, result, calls, worker, stage, expired, errCh>>

\* Deferred calls (pool.Close waits for connections in use), then main exits.
MainExits ==
    /\ main = "closing"
    /\ \A w \in Workers : worker[w] # "db"
    /\ main' = "exited"
    /\ UNCHANGED <<ctx, server, result, calls, worker, stage, expired, errCh, exit>>

\* Nothing runs after the exit.
Exited == main = "exited" /\ UNCHANGED vars

-----------------------------------------------------------------------------
\* metricsAddr may be empty: then there is no diagnostic listener.
Init ==
    /\ ctx = FALSE
    /\ \E diag \in {"new", "off"} :
          server = [s \in Listeners |-> IF s = "diag" THEN diag ELSE "new"]
    /\ result = [s \in Listeners |-> Pending]
    /\ calls = [s \in Listeners |-> 0]
    /\ worker = [w \in Workers |-> "none"]
    /\ stage = "waiting" /\ expired = FALSE
    /\ errCh = Pending /\ main = "serving" /\ exit = Pending

Next ==
    \/ Signal
    \/ \E s \in Listeners : \/ Serve(s) \/ ListenerFails(s) \/ ServeReturns(s)
                            \/ Arrive(s) \/ Return(s)
    \/ \E w \in Workers : Run(w) \/ Acquire(w) \/ Release(w) \/ Finish(w)
    \/ ShutdownStep \/ DeadlinePasses
    \/ runInternalListener \/ MainCancels \/ MainJoins \/ MainExits
    \/ Exited

\* Goroutines are scheduled, handlers return, statements end, time passes.
\* Nothing says that a worker finishes, nor that anybody calls.
Fairness ==
    /\ \A s \in Listeners : WF_vars(Serve(s)) /\ WF_vars(ServeReturns(s)) /\ WF_vars(Return(s))
    /\ \A w \in Workers : WF_vars(Release(w))
    /\ WF_vars(ShutdownStep) /\ WF_vars(DeadlinePasses)
    /\ WF_vars(runInternalListener) /\ WF_vars(MainCancels)
    /\ WF_vars(MainJoins) /\ WF_vars(MainExits)

Spec == Init /\ [][Next]_vars /\ Fairness

-----------------------------------------------------------------------------
(* Properties.                                                             *)

Crashed == \E s \in {"internal", "public"} : result[s] = "crash"

TypeOK ==
    /\ ctx \in BOOLEAN /\ expired \in BOOLEAN
    /\ server \in [Listeners -> {"new", "serving", "failed", "stopping", "stopped", "refusing", "off"}]
    /\ result \in [Listeners -> {Pending, "ok", "crash", "early"}]
    /\ calls \in [Listeners -> 0 .. MaxCalls]
    /\ worker \in [Workers -> {"none", "between", "db"}]
    /\ stage \in Listeners \cup {"waiting", "drain", "closed"}
    /\ errCh \in {Pending, "ok", "crash"}
    /\ main \in {"serving", "joining", "closing", "exited"}
    /\ exit \in {Pending, "ok", "crash", "early"}

\* The exit status tells why the process stopped: it is a failure if one of
\* the two API listeners failed, in whatever order failure, signal and stop
\* came, or if the stop overtook the public Serve; otherwise it is a success.
ExitTellsWhy ==
    main = "exited" =>
        /\ Crashed => exit = "crash" \/ (result["public"] = "early" /\ exit = "early")
        /\ ~Crashed => exit = result["public"]

\* When the drain begins no handler runs and none will, so no worker is
\* started behind its back: operations.Wait waits for all of them.
NobodyStartsLate ==
    stage \in {"drain", "closed"} => \A s \in Listeners : calls[s] = 0

\* The process exits with a worker alive only after the drain deadline.
NoWorkerLost ==
    main = "exited" /\ ~expired => \A w \in Workers : ~Alive(w)

\* A signal, or the failure of either API listener, ends in the exit of the
\* whole process, even if workers never finish.
StopEnds == (ctx \/ Crashed) ~> (main = "exited")

\* serve_internal_listener_test.go:46-49: a graceful stop, ErrServerStopped
\* included, is not an error: a process stopped by a signal exits with success.
CleanStopIsClean == main = "exited" /\ ~Crashed => exit = "ok"
=============================================================================
