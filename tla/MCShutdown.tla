----------------------------- MODULE MCShutdown -----------------------------
(* One call in flight per listener and two workers: enough for a worker that *)
(* finishes beside one that outlives the drain.                              *)
EXTENDS Shutdown

CONSTANTS w1, w2
MCWorkers == {w1, w2}
=============================================================================
