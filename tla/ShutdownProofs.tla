---------------------------- MODULE ShutdownProofs ----------------------------
(***************************************************************************)
(* Proofs about Shutdown, for any number of workers and of calls.  The     *)
(* shutdown goroutine leaves stopped servers behind it, so nothing arrives *)
(* where it has been; a result is written once, so what the main goroutine *)
(* puts together at the end is what happened.                              *)
(***************************************************************************)
EXTENDS Shutdown, TLAPS

\* The listeners that the shutdown goroutine has behind it.
Behind(s) ==
    CASE s \in {"waiting", "diag"} -> {} [] s = "internal" -> {"diag"}
      [] s = "public" -> {"diag", "internal"} [] OTHER -> Listeners

ServerInv(s) ==
    /\ server[s] \in {"new", "refusing", "off", "stopped"} => calls[s] = 0
    /\ server[s] \in {"new", "serving"} => result[s] = Pending
    /\ s \in Behind(stage) => server[s] \in {"stopped", "refusing", "off"}
    /\ s = stage => server[s] \in {"stopping", "refusing", "off"}
    /\ s \notin Behind(stage) \cup {stage} =>
          server[s] \in {"new", "serving", "failed", "off"}
    /\ server[s] = "off" => s = "diag"

\* What errCh and the exit code are made of.
ResultInv ==
    /\ errCh # Pending => result["internal"] # Pending
    /\ errCh # Pending => (errCh = "crash" <=> result["internal"] = "crash")
    /\ errCh = "crash" \/ main # "serving" => ctx
    /\ main # "serving" => result["public"] # Pending
    /\ main \in {"serving", "joining"} => exit = Pending
    /\ main \in {"closing", "exited"} =>
          /\ stage = "closed" /\ errCh # Pending
          /\ exit = serveResult(result["public"], errCh)

WorkerInv == stage = "closed" /\ ~expired => \A w \in Workers : ~Alive(w)

ShutdownInv == TypeOK /\ (\A s \in Listeners : ServerInv(s)) /\ ResultInv /\ WorkerInv

-----------------------------------------------------------------------------
LEMMA ShutdownStart == Init => ShutdownInv
  <1> SUFFICES ASSUME Init PROVE ShutdownInv
    OBVIOUS
  <1>1. TypeOK
    <2>1. 0 \in 0 .. MaxCalls
      BY ShutdownAssumption
    <2>2. server \in [Listeners -> {"new", "off"}]
      BY DEF Init
    <2> QED BY <2>1, <2>2 DEF Init, TypeOK, Listeners, Pending
  <1>2. \A s \in Listeners : ServerInv(s)
    BY DEF Init, ServerInv, Behind, Listeners, Pending
  <1>3. ResultInv /\ WorkerInv
    BY DEF Init, ResultInv, WorkerInv, Pending
  <1> QED BY <1>1, <1>2, <1>3 DEF ShutdownInv

\* A stage is entered: its server is stopped, and the one before it is done.
LEMMA StageStep == ASSUME ShutdownInv, ShutdownStep PROVE ShutdownInv'
  <1>1. /\ stage \in {"waiting", "diag", "internal", "public", "drain"}
        /\ server \in [Listeners -> {"new", "serving", "failed", "stopping", "stopped",
                                     "refusing", "off"}]
    BY DEF ShutdownInv, TypeOK, ShutdownStep, StageOver, Listeners
  <1>2. /\ stage' = NextStage(stage)
        /\ server' = Halted(Stopped(server, stage), stage')
        /\ StageOver(stage)
        /\ UNCHANGED <<ctx, result, calls, worker, expired, errCh, main, exit>>
    BY DEF ShutdownStep
  <1>3. stage' \in {"diag", "internal", "public", "drain", "closed"}
    BY <1>1, <1>2 DEF NextStage
  <1>4. /\ server' \in [Listeners -> {"new", "serving", "failed", "stopping", "stopped",
                                      "refusing", "off"}]
        /\ \A s \in Listeners :
              server'[s] = IF s = stage' THEN CASE server[s] = "new" -> "refusing"
                               [] server[s] \in {"serving", "failed"} -> "stopping"
                               [] OTHER -> server[s]
                           ELSE IF s = stage /\ server[s] = "stopping" THEN "stopped"
                           ELSE server[s]
    BY <1>1, <1>2 DEF Halted, Stopped, NextStage, Listeners
  <1>5. TypeOK'
    BY <1>2, <1>3, <1>4 DEF ShutdownInv, TypeOK, Listeners
  <1>6. ASSUME NEW s \in Listeners PROVE ServerInv(s)'
    <2>1. ServerInv(s) /\ s \in {"diag", "internal", "public"}
      BY DEF ShutdownInv, Listeners
    <2>2. s = stage => calls[s] = 0
      BY <1>2, <2>1 DEF StageOver, Listeners
    <2>3. s \in Behind(stage') <=> s \in Behind(stage) \/ s = stage
      BY <1>1, <1>2, <2>1 DEF Behind, NextStage, Listeners
    <2>4. s = stage' => s \notin Behind(stage) /\ s # stage
      BY <1>1, <1>2, <2>1 DEF Behind, NextStage, Listeners
    <2>5. s \in Behind(stage) => s # stage'
      BY <2>4
    <2>6. UNCHANGED <<calls, result>>
      BY <1>2
    <2>7. CASE s = stage'
      <3>1. server'[s] \in {"stopping", "refusing", "off"}
        BY <1>4, <2>1, <2>4, <2>7 DEF ServerInv
      <3>2. server'[s] = "refusing" => server[s] = "new" \/ server[s] = "refusing"
        BY <1>4, <2>7
      <3>3. server'[s] = "off" => server[s] = "off"
        BY <1>4, <2>7
      <3>4. s \notin Behind(stage')
        BY <2>3, <2>4, <2>7
      <3> QED BY <2>1, <2>6, <2>7, <3>1, <3>2, <3>3, <3>4 DEF ServerInv
    <2>8. CASE s # stage' /\ s = stage
      <3>1. server'[s] \in {"stopped", "refusing", "off"}
        BY <1>4, <2>1, <2>8 DEF ServerInv
      <3>2. server'[s] = "off" => server[s] = "off"
        BY <1>4, <2>8
      <3> QED BY <2>1, <2>2, <2>3, <2>6, <2>8, <3>1, <3>2 DEF ServerInv
    <2>9. CASE s # stage' /\ s # stage
      <3>1. server'[s] = server[s]
        BY <1>4, <2>9
      <3> QED BY <2>1, <2>3, <2>6, <2>9, <3>1 DEF ServerInv
    <2> QED BY <2>7, <2>8, <2>9
  <1>7. ResultInv'
    BY <1>2 DEF ShutdownInv, ResultInv, serveResult, StageOver, Listeners
  <1>8. WorkerInv'
    <2>1. stage' = "closed" => stage = "drain"
      BY <1>1, <1>2 DEF NextStage
    <2>2. stage = "drain" => expired \/ \A w \in Workers : ~Alive(w)
      BY <1>2 DEF StageOver, Listeners
    <2> QED BY <1>2, <2>1, <2>2 DEF WorkerInv, Alive
  <1> QED BY <1>5, <1>6, <1>7, <1>8 DEF ShutdownInv

\* Steps of the listeners leave the goroutines alone.
LEMMA ListenerStep ==
  ASSUME ShutdownInv, NEW s \in Listeners,
         Serve(s) \/ ListenerFails(s) \/ ServeReturns(s) \/ Arrive(s) \/ Return(s)
  PROVE  ShutdownInv'
  <1>1. UNCHANGED <<ctx, worker, stage, expired, errCh, main, exit>>
    BY DEF Serve, ListenerFails, ServeReturns, Arrive, Return
  <1>2. /\ server \in [Listeners -> {"new", "serving", "failed", "stopping", "stopped",
                                     "refusing", "off"}]
        /\ result \in [Listeners -> {Pending, "ok", "crash", "early"}]
        /\ calls \in [Listeners -> 0 .. MaxCalls]
        /\ MaxCalls \in Nat
    BY ShutdownAssumption DEF ShutdownInv, TypeOK
  <1>3. /\ server' \in [Listeners -> {"new", "serving", "failed", "stopping", "stopped",
                                      "refusing", "off"}]
        /\ result' \in [Listeners -> {Pending, "ok", "crash", "early"}]
    BY <1>2 DEF Serve, ListenerFails, ServeReturns, Arrive, Return
  <1>4. calls' \in [Listeners -> 0 .. MaxCalls]
    <2>1. CASE Arrive(s)
      <3>1. calls[s] + 1 \in 0 .. MaxCalls
        BY <1>2, <2>1 DEF Arrive
      <3> QED BY <1>2, <2>1, <3>1 DEF Arrive
    <2>2. CASE Return(s)
      <3>1. calls[s] - 1 \in 0 .. MaxCalls
        BY <1>2, <2>2 DEF Return
      <3> QED BY <1>2, <2>2, <3>1 DEF Return
    <2>3. CASE Serve(s) \/ ListenerFails(s) \/ ServeReturns(s)
      BY <1>2, <2>3 DEF Serve, ListenerFails, ServeReturns
    <2> QED BY <2>1, <2>2, <2>3
  <1>5. TypeOK'
    BY <1>1, <1>3, <1>4 DEF ShutdownInv, TypeOK
  <1>6. \A t \in Listeners : result[t] # Pending => result'[t] = result[t]
    BY <1>2 DEF ShutdownInv, ServerInv, Serve, ListenerFails, ServeReturns, Arrive, Return
  <1>7. ResultInv'
    BY <1>1, <1>6 DEF ShutdownInv, ResultInv, serveResult, Listeners
  <1>8. WorkerInv'
    BY <1>1 DEF ShutdownInv, WorkerInv, Alive
  <1>9. ASSUME NEW t \in Listeners, t # s PROVE ServerInv(t)'
    <2>1. UNCHANGED <<server[t], result[t], calls[t]>>
      BY <1>2, <1>9 DEF Serve, ListenerFails, ServeReturns, Arrive, Return
    <2> QED BY <1>1, <2>1 DEF ShutdownInv, ServerInv
  <1>10. ServerInv(s)'
    <2>1. ServerInv(s)
      BY DEF ShutdownInv
    <2>2. CASE Serve(s)
      <3>1. server[s] = "new" /\ server'[s] = "serving" /\ UNCHANGED <<result, calls>>
        BY <1>2, <2>2 DEF Serve
      <3> QED BY <1>1, <2>1, <3>1 DEF ServerInv
    <2>3. CASE ListenerFails(s)
      <3>1. server[s] = "serving" /\ server'[s] = "failed" /\ UNCHANGED calls
        BY <1>2, <2>3 DEF ListenerFails
      <3> QED BY <1>1, <2>1, <3>1 DEF ServerInv
    <2>4. CASE ServeReturns(s)
      <3>1. server[s] \in {"stopped", "refusing"} /\ UNCHANGED <<server, calls>>
        BY <2>4 DEF ServeReturns
      <3> QED BY <1>1, <2>1, <3>1 DEF ServerInv
    <2>5. CASE Arrive(s)
      <3>1. server[s] \in {"serving", "failed"} /\ UNCHANGED <<server, result>>
        BY <2>5 DEF Arrive
      <3> QED BY <1>1, <2>1, <3>1 DEF ServerInv
    <2>6. CASE Return(s)
      <3>1. /\ calls[s] > 0 /\ calls[s] \in 0 .. MaxCalls
            /\ UNCHANGED <<server, result>>
        BY <1>2, <2>6 DEF Return
      <3>2. server[s] \notin {"new", "refusing", "off", "stopped"}
        BY <1>2, <2>1, <3>1 DEF ServerInv
      <3> QED BY <1>1, <2>1, <3>1, <3>2 DEF ServerInv
    <2> QED BY <2>2, <2>3, <2>4, <2>5, <2>6
  <1> QED BY <1>5, <1>7, <1>8, <1>9, <1>10 DEF ShutdownInv

\* The shutdown goroutine has no listener behind it that lets anybody in.
LEMMA BehindIsQuiet ==
  ASSUME ShutdownInv, NEW s \in Listeners, s \in Behind(stage) PROVE calls[s] = 0
  BY DEF ShutdownInv, ServerInv

\* Workers are started by handlers, so none once the internal listener is behind.
LEMMA WorkerStep ==
  ASSUME ShutdownInv, NEW w \in Workers, Run(w) \/ Acquire(w) \/ Release(w) \/ Finish(w)
  PROVE  ShutdownInv'
  <1>1. UNCHANGED <<ctx, server, result, calls, stage, expired, errCh, main, exit>>
    BY DEF Run, Acquire, Release, Finish
  <1>2. worker' \in [Workers -> {"none", "between", "db"}]
    BY DEF ShutdownInv, TypeOK, Run, Acquire, Release, Finish
  <1>3. TypeOK' /\ ResultInv' /\ \A s \in Listeners : ServerInv(s)'
    BY <1>1, <1>2 DEF ShutdownInv, TypeOK, ResultInv, ServerInv
  <1>4. stage # "closed" \/ ~Run(w)
    <2>1. stage = "closed" => calls["internal"] = 0
      BY BehindIsQuiet DEF Behind, Listeners
    <2> QED BY <2>1 DEF Run
  <1>5. WorkerInv'
    <2> SUFFICES ASSUME stage = "closed", ~expired, NEW v \in Workers
                 PROVE  worker'[v] = "none"
      BY <1>1 DEF WorkerInv, Alive
    <2>1. worker[v] = "none" /\ worker[w] = "none"
      BY DEF ShutdownInv, WorkerInv, Alive
    <2> QED BY <1>4, <2>1 DEF Acquire, Release, Finish
  <1> QED BY <1>3, <1>5 DEF ShutdownInv

\* The goroutines: each writes its own result, once.
LEMMA MainStep ==
  ASSUME ShutdownInv,
         Signal \/ DeadlinePasses \/ runInternalListener \/ MainCancels \/ MainJoins
           \/ MainExits \/ UNCHANGED vars
  PROVE  ShutdownInv'
  <1>1. UNCHANGED <<server, result, calls, worker, stage>>
    BY DEF Signal, DeadlinePasses, runInternalListener, MainCancels, MainJoins,
       MainExits, vars
  <1>2. TypeOK'
    <2>1. /\ result \in [Listeners -> {Pending, "ok", "crash", "early"}]
          /\ errCh \in {Pending, "ok", "crash"}
          /\ result["public"] \in {Pending, "ok", "crash", "early"}
      BY DEF ShutdownInv, TypeOK, Listeners
    <2>2. errCh' \in {Pending, "ok", "crash"}
      BY <2>1 DEF Signal, DeadlinePasses, runInternalListener, MainCancels, MainJoins,
         MainExits, vars
    <2>3. exit' \in {Pending, "ok", "crash", "early"}
      BY <2>1 DEF ShutdownInv, TypeOK, Signal, DeadlinePasses, runInternalListener,
         MainCancels, MainJoins, MainExits, vars, serveResult
    <2>4. ctx' \in BOOLEAN /\ expired' \in BOOLEAN
      BY <2>1 DEF ShutdownInv, TypeOK, Signal, DeadlinePasses, runInternalListener,
         MainCancels, MainJoins, MainExits, vars
    <2>5. main' \in {"serving", "joining", "closing", "exited"}
      BY DEF ShutdownInv, TypeOK, Signal, DeadlinePasses, runInternalListener,
         MainCancels, MainJoins, MainExits, vars
    <2> QED BY <1>1, <2>2, <2>3, <2>4, <2>5 DEF ShutdownInv, TypeOK
  <1>3. \A s \in Listeners : ServerInv(s)'
    BY <1>1 DEF ShutdownInv, ServerInv
  <1>4. ResultInv'
    BY <1>1 DEF ShutdownInv, ResultInv, TypeOK, Pending, serveResult, Signal,
       DeadlinePasses, runInternalListener, MainCancels, MainJoins, MainExits, vars
  <1>5. WorkerInv'
    <2>1. expired' \in BOOLEAN /\ (expired => expired')
      BY DEF ShutdownInv, TypeOK, Signal, DeadlinePasses, runInternalListener,
         MainCancels, MainJoins, MainExits, vars
    <2> QED BY <1>1, <2>1 DEF ShutdownInv, WorkerInv, Alive
  <1> QED BY <1>2, <1>3, <1>4, <1>5 DEF ShutdownInv

LEMMA ShutdownNext == ShutdownInv /\ [Next]_vars => ShutdownInv'
  BY ListenerStep, WorkerStep, StageStep, MainStep DEF Next, Exited

LEMMA ShutdownAlways == Spec => []ShutdownInv
  BY ShutdownStart, ShutdownNext, PTL DEF Spec

-----------------------------------------------------------------------------
\* The states of runServe's goroutines and servers.
THEOREM TypeCorrect == Spec => []TypeOK
  BY ShutdownAlways, PTL DEF ShutdownInv

\* runServe returns the crash of a listener whatever else happened, and no error that
\* did not happen.
THEOREM ExitIsTruthful == Spec => []ExitTellsWhy
  <1>1. ShutdownInv => ExitTellsWhy
    <2> SUFFICES ASSUME ShutdownInv, main = "exited"
                 PROVE  /\ Crashed => \/ exit = "crash"
                                      \/ result["public"] = "early" /\ exit = "early"
                        /\ ~Crashed => exit = result["public"]
      BY DEF ExitTellsWhy
    <2>1. /\ exit = serveResult(result["public"], errCh)
          /\ errCh = "crash" <=> result["internal"] = "crash"
          /\ errCh \in {"ok", "crash"}
          /\ result["public"] \in {"ok", "crash", "early"}
      BY DEF ShutdownInv, ResultInv, TypeOK, Listeners, Pending
    <2> QED BY <2>1 DEF serveResult, Crashed
  <1> QED BY <1>1, ShutdownAlways, PTL

\* GracefulStop of all servers comes before operations.Wait.
THEOREM DrainIsLast == Spec => []NobodyStartsLate
  <1>1. ShutdownInv => NobodyStartsLate
    BY BehindIsQuiet DEF NobodyStartsLate, Behind, Listeners
  <1> QED BY <1>1, ShutdownAlways, PTL

\* Only the drain deadline lets the process exit beside a worker.
THEOREM WorkersAreDrained == Spec => []NoWorkerLost
  <1>1. ShutdownInv => NoWorkerLost
    BY DEF ShutdownInv, ResultInv, WorkerInv, NoWorkerLost
  <1> QED BY <1>1, ShutdownAlways, PTL

-----------------------------------------------------------------------------
(* What StopEnds rests on: a stop that is not over can take a step that    *)
(* Fairness promises, and no step undoes what such a step has done.  That  *)
(* both together end the process is liveness, which only TLC checks.       *)

\* Once the process has been told to stop, or an API listener has failed, it can go on
\* until it has exited: the shutdown goroutine waits for handlers, the drain deadline or
\* nothing, the main goroutine for it and for results that will come, the deferred
\* pool.Close for statements.  Nobody waits for a worker, a caller or one another.
StopCanGoOn ==
    (ctx \/ Crashed) /\ Running =>
        \/ StageOver(stage)                                         \* ShutdownStep
        \/ stage \in Listeners /\ calls[stage] > 0                  \* Return
        \/ stage = "drain" /\ ~expired                              \* DeadlinePasses
        \/ \E s \in {"internal", "public"} :                        \* ServeReturns
              server[s] \in {"stopped", "refusing"} /\ result[s] = Pending
        \/ result["internal"] # Pending /\ errCh = Pending          \* runInternalListener
        \/ main = "serving" /\ result["public"] # Pending           \* MainCancels
        \/ main = "joining" /\ stage = "closed" /\ errCh # Pending  \* MainJoins
        \/ main = "closing" /\ \E w \in Workers : worker[w] = "db"   \* Release
        \/ main = "closing" /\ \A w \in Workers : worker[w] # "db"   \* MainExits

\* A listener that the shutdown goroutine waits for, or has behind it, has fewer and
\* fewer handlers; the stages follow one another what Serve and the internal
\* goroutine reported and the exit code stay; pool.Close waits for fewer and fewer workers.
StopOnlyAdvances ==
    [][/\ ctx => ctx'
       /\ Behind(stage) \subseteq Behind(stage')
       /\ \A s \in Listeners :
             /\ s \in Behind(stage) \cup {stage} => calls'[s] <= calls[s]
             /\ result[s] # Pending => result'[s] = result[s]
       /\ errCh # Pending => errCh' = errCh
       /\ exit # Pending => exit' = exit
       /\ main = "closing" =>
             \A w \in Workers : worker'[w] = "db" => worker[w] = "db"]_vars

\* GracefulStop in runServe cannot deadlock with the goroutines it waits for.
THEOREM StopIsNeverStuck == Spec => []StopCanGoOn
  <1>1. ShutdownInv => StopCanGoOn
    <2> SUFFICES ASSUME ShutdownInv, ctx \/ Crashed, Running
                 PROVE  StopCanGoOn
      BY DEF StopCanGoOn
    <2>1. /\ stage \in Listeners \cup {"waiting", "drain", "closed"}
          /\ main \in {"serving", "joining", "closing"}
          /\ \A s \in Listeners : calls[s] \in 0 .. MaxCalls
      BY DEF ShutdownInv, TypeOK, Running
    <2>2. CASE ~ctx
      <3>1. main = "serving" /\ errCh # "crash"
        BY <2>1, <2>2 DEF ShutdownInv, ResultInv
      <3>2. result["internal"] = "crash" => errCh = Pending
        BY <3>1 DEF ShutdownInv, ResultInv
      <3>3. result["internal"] = "crash" \/ result["public"] = "crash"
        BY <2>2 DEF Crashed
      <3> QED BY <3>1, <3>2, <3>3 DEF StopCanGoOn, Pending
    <2>3. CASE ctx /\ stage = "waiting"
      <3>1. StageOver(stage)
        BY <2>3 DEF StageOver, Listeners
      <3> QED BY <3>1 DEF StopCanGoOn
    <2>4. CASE stage \in Listeners
      <3>1. calls[stage] > 0 \/ calls[stage] = 0
        BY <2>1, <2>4, ShutdownAssumption
      <3>2. calls[stage] = 0 => StageOver(stage)
        BY <2>4 DEF StageOver, Listeners
      <3> QED BY <2>4, <3>1, <3>2 DEF StopCanGoOn
    <2>5. CASE stage = "drain"
      BY <2>5 DEF StopCanGoOn, StageOver, Listeners
    <2>6. CASE stage = "closed"
      <3>1. \A s \in {"internal", "public"} : server[s] \in {"stopped", "refusing"}
        <4>1. \A s \in {"internal", "public"} : s \in Listeners /\ s \in Behind(stage)
          BY <2>6 DEF Behind, Listeners
        <4>2. \A s \in {"internal", "public"} : ServerInv(s)
          BY <4>1 DEF ShutdownInv
        <4> QED BY <4>1, <4>2 DEF ServerInv
      <3>2. CASE main = "serving"
        BY <3>1, <3>2 DEF StopCanGoOn
      <3>3. CASE main = "joining"
        BY <2>6, <3>1, <3>3 DEF StopCanGoOn
      <3>4. CASE main = "closing"
        BY <3>4 DEF StopCanGoOn
      <3> QED BY <2>1, <3>2, <3>3, <3>4
    <2> QED BY <2>1, <2>2, <2>3, <2>4, <2>5, <2>6
  <1> QED BY <1>1, ShutdownAlways, PTL

\* What the shutdown of runServe has got done stays done.
THEOREM StopIsMonotone == Spec => StopOnlyAdvances
  <1> DEFINE Advances ==
                /\ ctx => ctx'
                /\ Behind(stage) \subseteq Behind(stage')
                /\ \A s \in Listeners :
                      /\ s \in Behind(stage) \cup {stage} => calls'[s] <= calls[s]
                      /\ result[s] # Pending => result'[s] = result[s]
                /\ errCh # Pending => errCh' = errCh
                /\ exit # Pending => exit' = exit
                /\ main = "closing" =>
                      \A w \in Workers : worker'[w] = "db" => worker[w] = "db"
  <1>1. ShutdownInv /\ [Next]_vars => [Advances]_vars
    <2> SUFFICES ASSUME ShutdownInv, Next PROVE Advances
      OBVIOUS
    <2>1. /\ \A s \in Listeners : calls[s] \in Nat
          /\ calls \in [Listeners -> Nat]
          /\ result \in [Listeners -> {Pending, "ok", "crash", "early"}]
          /\ worker \in [Workers -> {"none", "between", "db"}]
      BY ShutdownAssumption DEF ShutdownInv, TypeOK
    <2>2. ASSUME NEW s \in Listeners,
                 Serve(s) \/ ListenerFails(s) \/ ServeReturns(s) \/ Arrive(s) \/ Return(s)
          PROVE  Advances
      <3>1. UNCHANGED <<ctx, worker, stage, errCh, main, exit>>
        BY <2>2 DEF Serve, ListenerFails, ServeReturns, Arrive, Return
      <3>2. ASSUME NEW t \in Listeners
            PROVE  /\ t \in Behind(stage) \cup {stage} => calls'[t] <= calls[t]
                   /\ result[t] # Pending => result'[t] = result[t]
        <4>1. t \in Behind(stage) \cup {stage} => server[t] \notin {"serving", "failed"}
          BY DEF ShutdownInv, ServerInv
        <4>2. t \in Behind(stage) \cup {stage} => calls'[t] <= calls[t]
          BY <2>1, <2>2, <4>1 DEF Serve, ListenerFails, ServeReturns, Arrive, Return
        <4>3. result[t] # Pending => result'[t] = result[t]
          BY <2>1, <2>2 DEF ShutdownInv, ServerInv, Serve, ListenerFails, ServeReturns,
             Arrive, Return
        <4> QED BY <4>2, <4>3
      <3> QED BY <3>1, <3>2
    <2>3. ASSUME NEW w \in Workers, Run(w) \/ Acquire(w) \/ Release(w) \/ Finish(w)
          PROVE  Advances
      <3>1. UNCHANGED <<ctx, result, calls, stage, errCh, main, exit>>
        BY <2>3 DEF Run, Acquire, Release, Finish
      <3>2. ASSUME main = "closing", NEW v \in Workers, worker'[v] = "db"
            PROVE  worker[v] = "db"
        BY <2>1, <2>3, <3>2 DEF Run, Acquire, Release, Finish
      <3> QED BY <2>1, <3>1, <3>2
    <2>4. ASSUME ShutdownStep PROVE Advances
      <3>1. stage \in {"waiting", "diag", "internal", "public", "drain"}
        BY <2>4 DEF ShutdownInv, TypeOK, ShutdownStep, StageOver, Listeners
      <3>2. Behind(stage) \subseteq Behind(stage')
        BY <2>4, <3>1 DEF ShutdownStep, NextStage, Behind, Listeners
      <3> QED BY <2>1, <2>4, <3>2 DEF ShutdownStep
    <2>5. ASSUME Signal \/ DeadlinePasses \/ runInternalListener \/ MainCancels \/ MainJoins
                   \/ MainExits \/ Exited
          PROVE  Advances
      <3>1. UNCHANGED <<calls, result, worker, stage>>
        BY <2>5 DEF Signal, DeadlinePasses, runInternalListener, MainCancels, MainJoins,
           MainExits, Exited, vars
      <3>2. ctx => ctx'
        BY <2>5 DEF Signal, DeadlinePasses, runInternalListener, MainCancels, MainJoins,
           MainExits, Exited, vars
      <3>3. errCh # Pending => errCh' = errCh
        BY <2>5 DEF Signal, DeadlinePasses, runInternalListener, MainCancels, MainJoins,
           MainExits, Exited, vars
      <3>4. exit # Pending => exit' = exit
        BY <2>5 DEF ShutdownInv, ResultInv, Signal, DeadlinePasses, runInternalListener,
           MainCancels, MainJoins, MainExits, Exited, vars
      <3> QED BY <2>1, <3>1, <3>2, <3>3, <3>4
    <2> QED BY <2>2, <2>3, <2>4, <2>5 DEF Next
  <1> QED BY <1>1, ShutdownAlways, PTL DEF Spec, StopOnlyAdvances

===============================================================================
