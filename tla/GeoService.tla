----------------------------- MODULE GeoService -----------------------------
(***************************************************************************)
(* An admin mutation of the catalog from request to settled operation:     *)
(* the region and zone use cases, the worker goroutine operations.Run      *)
(* starts for each request, the writer transaction it runs, Cancel, the    *)
(* death of the process, and the reconciler that settles what dead workers *)
(* left behind.                                                            *)
(*                                                                         *)
(* A request inserts the operation row and starts its worker.  The worker  *)
(* runs one writer transaction (module Catalog), then writes the outcome   *)
(* into the row with a compare-and-set on `done' (module Operations); any  *)
(* other step may come between.  Cancel settles the row and does not stop  *)
(* the worker.  A worker may vanish before either of its two steps: the    *)
(* process dies, the worker pool's backlog overflows, or the retries of    *)
(* the terminal write run out.  Then the row stays done = false until it is*)
(* older than the grace period and the reconciler settles it by what it    *)
(* reads in the catalog, in two steps: read, then compare-and-set.         *)
(*                                                                         *)
(* Abstracted: the 100-row batches and the 30 s period of the reconciler   *)
(* (it may take any one orphan at any time), its locks (the compare-and-set*)
(* is enough), RecoverAll before serving (the same action, earlier).       *)
(***************************************************************************)
EXTENDS Catalog

CONSTANTS
    Principals,         \* trusted callers of the admin API
    Anonymous,          \* the callers among them with an empty id
    ActorUnknown,       \* the audit actor of an anonymous caller
    Unset,              \* an empty column of the operations table
    GraceCoversWorkers, \* the grace period exceeds the life of any worker
    MaxCrashes          \* bound: how often the process may die

VARIABLES
    operations,     \* table operations
    worker,         \* operation -> its worker goroutine
    verdict,        \* operation -> what the reconciler has read about it
    expired,        \* operations older than the reconciler's grace period
    up,             \* the process runs
    crashes         \* deaths so far

INSTANCE Operations
    WITH Metadata <- Requests, Answers <- RegionRow \cup ZoneRow \cup {Absent}

vars == <<regions, zones, outbox, operations, worker, verdict, expired, up, crashes>>

ASSUME GeoAssumption ==
    /\ Unset \notin ErrorCodes \cup RegionRow \cup ZoneRow \cup {Absent}
    /\ Absent \notin OperationRow
    /\ Anonymous \subseteq Principals
    /\ Actors = Principals \cup {ActorUnknown}
    /\ GraceCoversWorkers \in BOOLEAN
    /\ MaxCrashes \in Nat

-----------------------------------------------------------------------------
(* Workers and reconciler verdicts: a stage and the outcome to write.      *)

Result == [error : ErrorCodes \cup {Unset},
           response : RegionRow \cup ZoneRow \cup {Absent, Unset}]

NoResult == [error |-> Unset, response |-> Unset]
Failure(code) == [error |-> code, response |-> Unset]
Success(row) == [error |-> Unset, response |-> row]

Worker == [stage : {"none", "queued", "ran", "gone"}, result : Result]
Verdict == [stage : {"none", "read"}, result : Result]

NoWorker == [stage |-> "none", result |-> NoResult]
Queued == [stage |-> "queued", result |-> NoResult]
Ran(result) == [stage |-> "ran", result |-> result]
Gone == [stage |-> "gone", result |-> NoResult]

NoVerdict == [stage |-> "none", result |-> NoResult]
Read(result) == [stage |-> "read", result |-> result]

Alive(o) == worker[o].stage \in {"queued", "ran"}

\* The command of an operation: the worker closure and the metadata hold it.
Cmd(o) == operations[o].metadata

\* operations.Run hands the request's principal over to the worker's context; that is
\* not in src/, and p here is simply the principal the operation row was stored with.
actorFromCtx(p) == IF p \in Anonymous THEN ActorUnknown ELSE p

-----------------------------------------------------------------------------
(* Requests.                                                               *)

\* Checked before the operation row exists; Update takes an empty region id as
\* "leave unchanged", Create refuses it.
WellFormed(c) ==
    c.kind = "Zone" /\ c.verb = "Create" => c.region # NoRegion

Submit(o, p, c) ==
    /\ up
    /\ WellFormed(c)
    /\ CreateOp(o, p, c)
    /\ worker' = [worker EXCEPT ![o] = Queued]
    /\ UNCHANGED <<catalogVars, verdict, expired, up, crashes>>

Cancel(p, o) ==
    /\ up
    /\ CancelRow(o, p)
    /\ UNCHANGED <<catalogVars, worker, verdict, expired, up, crashes>>

-----------------------------------------------------------------------------
(* The worker of an operation.                                             *)

Scheduled(o) == worker[o].stage = "queued"

\* The writer's transaction is over and the worker holds what it will report.
Reports(o, result) ==
    /\ worker' = [worker EXCEPT ![o] = Ran(result)]
    /\ UNCHANGED <<operations, verdict, expired, up, crashes>>

CommitCmd(o) == Commit(Cmd(o), actorFromCtx(operations[o].owner), o)

WriterCommits(o) ==
    /\ Scheduled(o)
    /\ CommitCmd(o)
    /\ Reports(o, Success(Written(Cmd(o))))

WriterRefused(o) ==
    /\ Scheduled(o)
    /\ \E code \in Refusals : Refused(Cmd(o), code) /\ Reports(o, Failure(code))
    /\ UNCHANGED catalogVars

\* Mutant: after a lost reply to the commit the statement is sent again, and the
\* refusal of the second one is reported.
WriterRetries(o) ==
    /\ Scheduled(o)
    /\ \/ UNCHANGED catalogVars /\ Reports(o, Failure("Internal"))
       \/ CommitCmd(o) /\ Reports(o, Failure("AlreadyExists"))

\* Nothing is committed: the context has ended, the statement or its connection failed
\* (dberr.Wrap), or Begin, the outbox or COMMIT did; "Internal" stands for
\* DeadlineExceeded too.  Or COMMIT was done and its reply lost: pgx's error is no
\* sentinel, and ToStatus makes it INTERNAL.
WriterFails(o) ==
    /\ Scheduled(o)
    /\ \/ /\ UNCHANGED catalogVars
          /\ \E code \in {"Internal", "Canceled"} : Reports(o, Failure(code))
       \/ CommitCmd(o) /\ Reports(o, Failure("Internal"))

\* MarkDone or MarkError; a row settled meanwhile by Cancel or by the reconciler
\* stays as it is, and the worker ends either way.
WorkerFinishes(o) ==
    /\ worker[o].stage = "ran"
    /\ Settle(o, worker[o].result.error, worker[o].result.response)
    /\ worker' = [worker EXCEPT ![o] = Gone]
    /\ UNCHANGED <<catalogVars, verdict, expired, up, crashes>>

\* Backlog overflow before the transaction, or retries of the terminal write
\* exhausted after it.
WorkerVanishes(o) ==
    /\ Alive(o)
    /\ worker' = [worker EXCEPT ![o] = Gone]
    /\ UNCHANGED <<catalogVars, operations, verdict, expired, up, crashes>>

-----------------------------------------------------------------------------
(* The process.                                                            *)

Crash ==
    /\ up /\ crashes < MaxCrashes
    /\ up' = FALSE
    /\ crashes' = crashes + 1
    /\ worker' = [o \in Ops |-> IF Alive(o) THEN Gone ELSE worker[o]]
    /\ verdict' = [o \in Ops |-> NoVerdict]
    /\ UNCHANGED <<catalogVars, operations, expired>>

Restart ==
    /\ ~up
    /\ up' = TRUE
    /\ UNCHANGED <<catalogVars, operations, worker, verdict, expired, crashes>>

-----------------------------------------------------------------------------
(* The reconciler.                                                         *)

\* Mutant: no grace period for operations whose worker is alive.
ExpireAnyway(o) ==
    /\ Running(o) /\ o \notin expired
    /\ expired' = expired \cup {o}
    /\ UNCHANGED <<catalogVars, operations, worker, verdict, up, crashes>>

\* An unfinished operation grows older than the grace period.  Nothing in the
\* code keeps a worker from living longer than that: GraceCoversWorkers is the
\* assumption under which the constant was chosen.
Expire(o) ==
    /\ Running(o) /\ o \notin expired
    /\ GraceCoversWorkers => ~Alive(o)
    /\ expired' = expired \cup {o}
    /\ UNCHANGED <<catalogVars, operations, worker, verdict, up, crashes>>

\* Mutant: an absent resource taken for success, as for a Delete.
ResolveAlike(c) == Success(Stored(c))

\* The terminal outcome read off the catalog.
Resolve(c) ==
    IF c.verb = "Delete"
    THEN IF Stored(c) = Absent THEN Success(Absent) ELSE Failure("Interrupted")
    ELSE IF Stored(c) # Absent THEN Success(Stored(c)) ELSE Failure("Interrupted")

\* Mutant: the reconciler starts the worker of an orphan again.
ReconcilerRedrives(o) ==
    /\ up /\ Running(o) /\ o \in expired /\ ~Alive(o)
    /\ worker' = [worker EXCEPT ![o] = Queued]
    /\ UNCHANGED <<catalogVars, operations, verdict, expired, up, crashes>>

\* Mutant: one kind of metadata missing from the resolver's switch (Skip).
ReconcilerSkipsDeletes(o) ==
    /\ up /\ Running(o) /\ o \in expired /\ verdict[o].stage = "none"
    /\ Cmd(o).verb # "Delete"
    /\ verdict' = [verdict EXCEPT ![o] = Read(Resolve(Cmd(o)))]
    /\ UNCHANGED <<catalogVars, operations, worker, expired, up, crashes>>

\* Mutant: the sweep takes operations of any age.
ReconcilerReadsAnyAge(o) ==
    /\ up /\ Running(o) /\ verdict[o].stage = "none"
    /\ verdict' = [verdict EXCEPT ![o] = Read(Resolve(Cmd(o)))]
    /\ UNCHANGED <<catalogVars, operations, worker, expired, up, crashes>>

ReconcilerReads(o) ==
    /\ up /\ Running(o) /\ o \in expired /\ verdict[o].stage = "none"
    /\ verdict' = [verdict EXCEPT ![o] = Read(Resolve(Cmd(o)))]
    /\ UNCHANGED <<catalogVars, operations, worker, expired, up, crashes>>

ReconcilerSettles(o) ==
    /\ up /\ verdict[o].stage = "read"
    /\ Settle(o, verdict[o].result.error, verdict[o].result.response)
    /\ verdict' = [verdict EXCEPT ![o] = NoVerdict]
    /\ UNCHANGED <<catalogVars, worker, expired, up, crashes>>

-----------------------------------------------------------------------------

Init ==
    /\ CatalogInit
    /\ OperationsInit
    /\ worker = [o \in Ops |-> NoWorker]
    /\ verdict = [o \in Ops |-> NoVerdict]
    /\ expired = {}
    /\ up = TRUE
    /\ crashes = 0

WorkerRuns(o) == WriterCommits(o) \/ WriterRefused(o) \/ WriterFails(o)

Next ==
    \/ \E o \in Ops :
          \/ \E p \in Principals : Cancel(p, o) \/ \E c \in Requests : Submit(o, p, c)
          \/ WriterCommits(o) \/ WriterRefused(o) \/ WriterFails(o)
          \/ WorkerFinishes(o) \/ WorkerVanishes(o)
          \/ Expire(o) \/ ReconcilerReads(o) \/ ReconcilerSettles(o)
    \/ Crash
    \/ Restart

Spec == Init /\ [][Next]_vars

\* A queued worker is scheduled, a finished transaction is reported, time passes,
\* the supervisor restarts the process and the reconciler's sweep comes round.
\* Nothing forces a request, a Cancel, a failure or a crash.
Fairness ==
    /\ WF_vars(Restart)
    /\ \A o \in Ops :
          /\ WF_vars(WorkerRuns(o)) /\ WF_vars(WorkerFinishes(o))
          /\ WF_vars(Expire(o))
          /\ WF_vars(ReconcilerReads(o)) /\ WF_vars(ReconcilerSettles(o))

FairSpec == Spec /\ Fairness

-----------------------------------------------------------------------------
(* Properties.                                                             *)

TypeOK ==
    /\ CatalogTypeOK
    /\ OperationsTypeOK
    /\ worker \in [Ops -> Worker]
    /\ verdict \in [Ops -> Verdict]
    /\ expired \subseteq Ops
    /\ up \in BOOLEAN
    /\ crashes \in 0 .. MaxCrashes

\* No operation changes the catalog twice: neither the reconciler nor a restart
\* re-runs a worker, and a lost reply is not answered by a second attempt.
AtMostOneEffect ==
    \A i, j \in DOMAIN outbox : outbox[i].op = outbox[j].op => i = j

\* An operation that ended in AlreadyExists, NotFound or FailedPrecondition has
\* changed nothing, whoever settled it and whatever its worker did since.
RefusedLeavesNoTrace ==
    \A o \in Ops : Settled(o) /\ operations[o].error \in Refusals => ~WrittenBy(o)

\* The response of a finished Create or Update is a row the catalog really held,
\* as the audit trail shows: also when the reconciler wrote the response from a
\* read that other operations have overtaken.
SuccessIsWitnessed ==
    \A o \in Ops : Succeeded(o) /\ Cmd(o).verb # "Delete" =>
        \E i \in DOMAIN outbox :
            /\ About(outbox[i], Cmd(o).kind, Cmd(o).id)
            /\ outbox[i].row = operations[o].response

\* If the grace period covers every worker: nobody else having named the resource
\* of a Create, its operation says the truth about it.  Success means the row was
\* written by it, Interrupted that it never was and never will be.
Alone(o) ==
    \A q \in Ops \ {o} : Exists(q) =>
        <<Cmd(q).kind, Cmd(q).id>> # <<Cmd(o).kind, Cmd(o).id>>

LoneCreateIsTruthful ==
    \A o \in Ops : Settled(o) /\ Cmd(o).verb = "Create" /\ Alone(o) =>
        /\ Succeeded(o) => WrittenBy(o)
        /\ operations[o].error = "Interrupted" => ~WrittenBy(o)

\* If the grace period covers every worker: an operation that changes the catalog
\* after it has settled was cancelled; no other outcome is overtaken by its own
\* worker.
LateEffectMeansCancelled ==
    [][\A o \in Ops : Settled(o) /\ ~WrittenBy(o) /\ WrittenBy(o)'
           => operations[o].error = "Canceled"]_vars

\* Every accepted operation settles in the end: by its worker, by Cancel, or by
\* the reconciler after the worker, or the whole process, has died.
EveryOperationSettles == \A o \in Ops : Exists(o) ~> Settled(o)

\* The service keeps the promise of OperationLifecycle.
PhaseOf(o) ==
    CASE ~Exists(o)                                        -> "none"
      [] Running(o)                                        -> "running"
      [] Succeeded(o)                                      -> "succeeded"
      [] Settled(o) /\ operations[o].error \in Refusals    -> "refused"
      [] Settled(o) /\ operations[o].error = "Canceled"    -> "cancelled"
      [] OTHER                                             -> "uncertain"

Phases == [o \in Ops |-> PhaseOf(o)]
Applied == {o \in Ops : WrittenBy(o)}

Lifecycle == INSTANCE OperationLifecycle WITH phase <- Phases, applied <- Applied

KeepsLifecycle == Lifecycle!Spec

\* A success nobody but the operation's own worker can have reported, because the
\* operation settled before the grace period was over, is the worker's own effect.
SuccessIsOwn ==
    \A o \in Ops : Succeeded(o) /\ o \notin expired => WrittenBy(o)

\* Both operations Create the same resource.
CreateAlike(o, q) ==
    /\ Cmd(o).verb = "Create" /\ Cmd(q).verb = "Create"
    /\ Cmd(o).kind = Cmd(q).kind /\ Cmd(o).id = Cmd(q).id

WasDeleted(c) ==
    \E i \in DOMAIN outbox : About(outbox[i], c.kind, c.id) /\ outbox[i].type = "DELETED"


\* It is true of operations that never outlive the grace period unfinished, however
\* many crashes and reconciliations of others there are: the reconciler's guess is
\* the only way for a second Create to win.
TimelyCreateWins ==
    \A o, q \in Ops \ expired :
        o # q /\ Succeeded(o) /\ Succeeded(q) /\ CreateAlike(o, q) => WasDeleted(Cmd(o))
=============================================================================
