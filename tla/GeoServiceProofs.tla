--------------------------- MODULE GeoServiceProofs ---------------------------
(***************************************************************************)
(* Theorems about GeoService, for every set of operations, principals and  *)
(* requests, every number of crashes, and with or without the assumption   *)
(* about the grace period.                                                 *)
(***************************************************************************)
EXTENDS GeoService, CatalogProofs

\* The outcomes a worker can carry are results of the operations table.
LEMMA Outcomes ==
    /\ \A code \in ErrorCodes : Failure(code) \in Result
    /\ \A row \in RegionRow \cup ZoneRow \cup {Absent} : Success(row) \in Result
    /\ NoResult \in Result
    /\ Refusals \subseteq ErrorCodes
BY DEF Failure, Success, NoResult, Result, Refusals, ErrorCodes

\* The stages of a worker are distinct.
LEMMA Stages ==
    /\ NoWorker \in Worker /\ Queued \in Worker /\ Gone \in Worker
    /\ NoVerdict \in Verdict
    /\ \A r \in Result : Ran(r) \in Worker /\ Read(r) \in Verdict
BY Outcomes DEF NoWorker, Queued, Gone, Ran, Worker, NoVerdict, Read, Verdict

\* An accepted operation's metadata is the command that was requested.
LEMMA CommandOfOperation ==
    ASSUME OperationsTypeOK, NEW o \in Ops, Exists(o)
    PROVE  /\ Cmd(o) \in Requests
           /\ operations[o].owner \in Principals
           /\ actorFromCtx(operations[o].owner) \in Actors
BY GeoAssumption
DEF OperationsTypeOK, Exists, Cmd, OperationRow, actorFromCtx

\* A terminal write keeps the table well typed.
LEMMA SettleKeepsTypes ==
    ASSUME OperationsTypeOK, NEW o \in Ops, NEW r \in Result,
           Settle(o, r.error, r.response)
    PROVE  OperationsTypeOK'
<1>1. CASE Running(o)
  <2>1. operations[o] \in OperationRow
    BY <1>1 DEF OperationsTypeOK, Running, Exists
  <2>2. [operations[o] EXCEPT !.done = TRUE, !.error = r.error,
                              !.response = r.response] \in OperationRow
    BY <2>1 DEF OperationRow, Result
  <2> QED BY <1>1, <2>1, <2>2 DEF Settle, OperationsTypeOK
<1>2. CASE ~Running(o)
  BY <1>2 DEF Settle, OperationsTypeOK
<1> QED BY <1>1, <1>2

-----------------------------------------------------------------------------
(* Type correctness, with the catalog's own invariant: the command a worker *)
(* commits comes from the operations table, the actor from its owner.       *)

BaseInv == TypeOK /\ CatalogInv

\* A worker's commit is a transaction of the catalog.
LEMMA CommitCmdKeepsCatalog ==
    ASSUME BaseInv, NEW o \in Ops, Exists(o), CommitCmd(o)
    PROVE  CatalogInv'
BY CommandOfOperation, CommitKeepsCatalog DEF CommitCmd, BaseInv, TypeOK

\* A worker whose turn it is has an operation row.
WorkersHaveRows == \A o \in Ops : worker[o].stage # "none" => Exists(o)

\* The row a worker has written is a payload an operation can answer.
LEMMA WrittenIsARow ==
    ASSUME BaseInv, NEW o \in Ops, Exists(o), Admissible(Cmd(o))
    PROVE  Written(Cmd(o)) \in RegionRow \cup ZoneRow \cup {Absent}
BY CommandOfOperation, CommandKinds, WrittenRegion, WrittenZone DEF BaseInv, TypeOK

\* What the resolver decides is a result of the operations table, or a skip.
LEMMA ResolveIsAResult ==
    ASSUME BaseInv, NEW c \in Requests
    PROVE  Resolve(c) \in Result
<1>1. Stored(c) \in RegionRow \cup ZoneRow \cup {Absent}
  BY CommandKinds DEF Stored, BaseInv, TypeOK, CatalogTypeOK
<1>2. "Interrupted" \in ErrorCodes
  BY DEF ErrorCodes
<1> QED BY <1>1, <1>2, Outcomes DEF Resolve

\* Submit (Create, Update, Delete of a use case) keeps the types.
LEMMA SubmitKeepsTypes ==
    ASSUME BaseInv, NEW o \in Ops, NEW p \in Principals, NEW c \in Requests,
           Submit(o, p, c)
    PROVE  BaseInv'
<1>1. CatalogInv'
  BY StutterKeepsCatalog DEF Submit, BaseInv
<1>2. OperationsTypeOK'
  BY DEF Submit, CreateOp, BaseInv, TypeOK, OperationsTypeOK, OperationRow
<1>3. worker' \in [Ops -> Worker]
  BY Stages DEF Submit, BaseInv, TypeOK
<1> QED BY <1>1, <1>2, <1>3 DEF Submit, BaseInv, TypeOK, CatalogInv

\* Cancel keeps the types.
LEMMA CancelKeepsTypes ==
    ASSUME BaseInv, NEW o \in Ops, NEW p \in Principals, Cancel(p, o)
    PROVE  BaseInv'
<1>1. CatalogInv'
  BY StutterKeepsCatalog DEF Cancel, BaseInv
<1>2. OperationsTypeOK'
  <2>1. operations[o] \in OperationRow
    BY DEF Cancel, CancelRow, Cancellable, ownerMatches, Exists, BaseInv, TypeOK,
           OperationsTypeOK
  <2>2. [operations[o] EXCEPT !.done = TRUE, !.error = "Canceled"] \in OperationRow
    BY <2>1 DEF OperationRow, ErrorCodes
  <2> QED BY <2>1, <2>2 DEF Cancel, CancelRow, BaseInv, TypeOK, OperationsTypeOK
<1> QED BY <1>1, <1>2 DEF Cancel, BaseInv, TypeOK, CatalogInv

\* A step of a worker's transaction: what it may do to the catalog, and the result
\* it holds afterwards.
LEMMA WorkerRunsKeepsTypes ==
    ASSUME BaseInv, WorkersHaveRows, NEW o \in Ops, WorkerRuns(o)
    PROVE  BaseInv'
<1>1. Exists(o) /\ Cmd(o) \in Requests
  BY CommandOfOperation
  DEF WorkersHaveRows, WorkerRuns, WriterCommits, WriterRefused, WriterFails, Scheduled,
      BaseInv, TypeOK
<1>2. CatalogInv'
  BY <1>1, CommitCmdKeepsCatalog, StutterKeepsCatalog
  DEF WorkerRuns, WriterCommits, WriterRefused, WriterFails, BaseInv
<1>3. ASSUME NEW r \in Result, Reports(o, r)
      PROVE  /\ worker' \in [Ops -> Worker]
             /\ OperationsTypeOK' /\ verdict' \in [Ops -> Verdict]
             /\ expired' \subseteq Ops /\ up' \in BOOLEAN /\ crashes' \in 0 .. MaxCrashes
  BY <1>3, Stages DEF Reports, BaseInv, TypeOK, OperationsTypeOK
<1>4. \E r \in Result : Reports(o, r)
  <2>1. CASE WriterCommits(o)
    <3>1. Success(Written(Cmd(o))) \in Result
      BY <1>1, <2>1, WrittenIsARow, Outcomes DEF WriterCommits, CommitCmd, Commit
    <3> QED BY <2>1, <3>1 DEF WriterCommits
  <2>2. CASE WriterRefused(o)
    BY <2>2, Outcomes DEF WriterRefused
  <2>3. CASE WriterFails(o)
    BY <2>3, Outcomes DEF WriterFails, ErrorCodes
  <2> QED BY <2>1, <2>2, <2>3 DEF WorkerRuns
<1> QED BY <1>2, <1>3, <1>4 DEF BaseInv, TypeOK, CatalogInv

\* The steps that change neither the catalog nor a transaction's result.
LEMMA SettlingKeepsTypes ==
    ASSUME BaseInv, NEW o \in Ops,
           \/ WorkerFinishes(o) \/ WorkerVanishes(o) \/ Expire(o)
           \/ ReconcilerReads(o) \/ ReconcilerSettles(o)
    PROVE  BaseInv'
<1>1. CatalogInv'
  BY StutterKeepsCatalog
  DEF WorkerFinishes, WorkerVanishes, Expire, ReconcilerReads, ReconcilerSettles, BaseInv
<1>2. CASE WorkerFinishes(o)
  <2>1. worker[o].result \in Result
    BY DEF BaseInv, TypeOK, Worker
  <2> QED
    BY <1>1, <1>2, <2>1, SettleKeepsTypes, Stages
    DEF WorkerFinishes, BaseInv, TypeOK, CatalogInv
<1>3. CASE WorkerVanishes(o)
  BY <1>1, <1>3, Stages DEF WorkerVanishes, BaseInv, TypeOK, CatalogInv, OperationsTypeOK
<1>4. CASE Expire(o)
  BY <1>1, <1>4 DEF Expire, BaseInv, TypeOK, CatalogInv, OperationsTypeOK
<1>5. CASE ReconcilerReads(o)
  <2>1. Read(Resolve(Cmd(o))) \in Verdict
    BY <1>5, ResolveIsAResult, CommandOfOperation, Stages
    DEF ReconcilerReads, Running, BaseInv, TypeOK
  <2> QED
    BY <1>1, <1>5, <2>1 DEF ReconcilerReads, BaseInv, TypeOK, CatalogInv, OperationsTypeOK
<1>6. CASE ReconcilerSettles(o)
  <2>1. verdict[o].result \in Result
    BY DEF BaseInv, TypeOK, Verdict
  <2> QED
    BY <1>1, <1>6, <2>1, SettleKeepsTypes, Stages
    DEF ReconcilerSettles, BaseInv, TypeOK, CatalogInv
<1> QED BY <1>2, <1>3, <1>4, <1>5, <1>6

\* Crash, restart and the passing of time keep the types.
LEMMA ProcessKeepsTypes ==
    ASSUME BaseInv, Crash \/ Restart
    PROVE  BaseInv'
<1>1. CatalogInv'
  BY StutterKeepsCatalog DEF Crash, Restart, BaseInv
<1>2. CASE Crash
  <2>1. crashes' \in 0 .. MaxCrashes
    BY <1>2, GeoAssumption DEF Crash, BaseInv, TypeOK
  <2> QED
    BY <1>1, <1>2, <2>1, Stages DEF Crash, BaseInv, TypeOK, CatalogInv, OperationsTypeOK
<1>3. CASE Restart
  BY <1>1, <1>3 DEF Restart, BaseInv, TypeOK, CatalogInv, OperationsTypeOK
<1> QED BY <1>2, <1>3

-----------------------------------------------------------------------------
(* Effects: which operation wrote what.                                    *)

\* Every audit event belongs to an operation that was accepted.
EventsHaveRows == \A i \in DOMAIN outbox : Exists(outbox[i].op)

\* A worker that has not run has written nothing, and what settled its operation
\* meanwhile was no refusal of the catalog.
QueuedIsUnwritten ==
    \A o \in Ops : Scheduled(o) => ~WrittenBy(o) /\ operations[o].error \notin Refusals

\* A worker that is about to report a refusal has written nothing.
RefusalIsUnwritten ==
    \A o \in Ops : worker[o].stage = "ran" /\ worker[o].result.error \in Refusals
                      => ~WrittenBy(o)

\* The reconciler reports no refusal: it interrupts or succeeds.
VerdictsAreNoRefusals ==
    \A o \in Ops : verdict[o].result.error \in {Unset, "Interrupted"}

EffectInv ==
    /\ WorkersHaveRows
    /\ EventsHaveRows
    /\ QueuedIsUnwritten
    /\ RefusalIsUnwritten
    /\ VerdictsAreNoRefusals
    /\ AtMostOneEffect
    /\ RefusedLeavesNoTrace

\* What a terminal write does to every row of the table.
LEMMA SettleChangesOneRow ==
    ASSUME OperationsTypeOK, NEW o \in Ops, NEW r \in Result,
           Settle(o, r.error, r.response), NEW q \in Ops
    PROVE  /\ Exists(q)' <=> Exists(q)
           /\ operations'[q].owner = operations[q].owner
           /\ operations'[q].metadata = operations[q].metadata
           /\ operations'[q] # operations[q] =>
                 q = o /\ Running(o) /\ operations'[q].error = r.error
                 /\ operations'[q].response = r.response /\ operations'[q].done
<1>1. CASE Running(o) /\ q = o
  <2>1. operations[o] \in OperationRow
    BY <1>1 DEF OperationsTypeOK, Running, Exists
  <2>2. operations'[o] = [operations[o] EXCEPT !.done = TRUE, !.error = r.error,
                                               !.response = r.response]
    BY <1>1, <2>1 DEF Settle, OperationsTypeOK
  <2>3. operations'[o] \in OperationRow
    BY <2>1, <2>2 DEF OperationRow, Result
  <2> QED BY <1>1, <2>1, <2>2, <2>3, GeoAssumption DEF OperationRow, Exists
<1>2. CASE ~(Running(o) /\ q = o)
  BY <1>2 DEF Settle, OperationsTypeOK, Exists
<1> QED BY <1>1, <1>2

\* A commit adds one event, of its operation.
LEMMA CommitCmdWrites ==
    ASSUME BaseInv, NEW o \in Ops, Exists(o), CommitCmd(o)
    PROVE  \E L \in Nat :
              /\ DOMAIN outbox = 1 .. L
              /\ DOMAIN outbox' = 1 .. (L + 1)
              /\ \A i \in 1 .. L : outbox'[i] = outbox[i]
              /\ outbox'[L + 1] =
                    AuditEvent(Cmd(o), actorFromCtx(operations[o].owner), o)
<1>1. /\ Cmd(o) \in Requests /\ actorFromCtx(operations[o].owner) \in Actors
      /\ CatalogTypeOK
  BY CommandOfOperation DEF BaseInv, TypeOK
<1>2. /\ AuditEvent(Cmd(o), actorFromCtx(operations[o].owner), o) \in Event
      /\ outbox' = Append(outbox, AuditEvent(Cmd(o), actorFromCtx(operations[o].owner), o))
  BY <1>1, CommitKeepsTypes DEF CommitCmd
<1> QED BY <1>1, <1>2, Appended

\* While the trail stands and rows stay, so does what the trail says about operations.
LEMMA TrailStands ==
    ASSUME BaseInv, EffectInv, UNCHANGED outbox,
           \A q \in Ops : Exists(q) => /\ Exists(q)'
                                       /\ operations'[q].owner = operations[q].owner
    PROVE  /\ EventsHaveRows' /\ AtMostOneEffect'
           /\ \A q \in Ops : WrittenBy(q)' <=> WrittenBy(q)
<1>1. \A i \in DOMAIN outbox : outbox[i] \in Event
  BY DEF BaseInv, TypeOK, CatalogTypeOK
<1>2. \A i \in DOMAIN outbox : outbox[i].op \in Ops
  BY <1>1 DEF Event
<1> QED
  BY <1>2 DEF EffectInv, EventsHaveRows, AtMostOneEffect, WrittenBy, Exists

\* A new operation has no event yet.
LEMMA SubmitKeepsEffects ==
    ASSUME BaseInv, EffectInv, NEW o \in Ops, NEW p \in Principals, NEW c \in Requests,
           Submit(o, p, c)
    PROVE  EffectInv'
<1>1. /\ ~Exists(o)
      /\ operations'[o] = [owner |-> p, metadata |-> c, done |-> FALSE,
                           error |-> Unset, response |-> Unset]
      /\ \A q \in Ops \ {o} : operations'[q] = operations[q]
      /\ \A q \in Ops : worker'[q] = IF q = o THEN Queued ELSE worker[q]
      /\ UNCHANGED <<outbox, verdict>>
  BY DEF Submit, CreateOp, catalogVars, BaseInv, TypeOK, OperationsTypeOK
<1>2. operations'[o] \in OperationRow
  BY <1>1 DEF OperationRow
<1>3. Exists(o)' /\ operations'[o].error \notin Refusals
  <2>1. Exists(o)'
    BY <1>2, GeoAssumption DEF Exists
  <2>2. Unset \notin Refusals
    BY GeoAssumption, Outcomes
  <2> QED BY <1>1, <2>1, <2>2
<1>4. /\ EventsHaveRows' /\ AtMostOneEffect'
      /\ \A q \in Ops : WrittenBy(q)' <=> WrittenBy(q)
  BY <1>1, <1>3, TrailStands DEF Exists
<1>5. ~WrittenBy(o)
  BY <1>1 DEF WrittenBy, EffectInv, EventsHaveRows
<1>6. WorkersHaveRows'
  BY <1>1, <1>3 DEF EffectInv, WorkersHaveRows, Exists
<1>7. QueuedIsUnwritten'
  BY <1>1, <1>3, <1>4, <1>5 DEF EffectInv, QueuedIsUnwritten, Scheduled
<1>8. RefusalIsUnwritten' /\ VerdictsAreNoRefusals'
  BY <1>1, <1>4 DEF EffectInv, RefusalIsUnwritten, VerdictsAreNoRefusals, Queued
<1>9. RefusedLeavesNoTrace'
  BY <1>1, <1>3, <1>4 DEF EffectInv, RefusedLeavesNoTrace, Settled, Exists
<1> QED BY <1>4, <1>6, <1>7, <1>8, <1>9 DEF EffectInv

\* Cancel writes no event and touches no worker.
LEMMA CancelKeepsEffects ==
    ASSUME BaseInv, EffectInv, NEW o \in Ops, NEW p \in Principals, Cancel(p, o)
    PROVE  EffectInv'
<1>1. operations[o] \in OperationRow /\ Running(o)
  BY DEF Cancel, CancelRow, Cancellable, Running, Exists, BaseInv, TypeOK, OperationsTypeOK
<1>2. /\ operations'[o] = [operations[o] EXCEPT !.done = TRUE, !.error = "Canceled"]
      /\ \A q \in Ops \ {o} : operations'[q] = operations[q]
      /\ UNCHANGED <<outbox, worker, verdict>>
  BY <1>1 DEF Cancel, CancelRow, catalogVars, BaseInv, TypeOK, OperationsTypeOK
<1>3. operations'[o] \in OperationRow
  BY <1>1, <1>2 DEF OperationRow, ErrorCodes
<1>4. /\ Exists(o)' /\ operations'[o].owner = operations[o].owner
      /\ operations'[o].error = "Canceled"
  BY <1>1, <1>2, <1>3, GeoAssumption DEF Exists, OperationRow
<1>5. "Canceled" \notin Refusals
  BY DEF Refusals
<1>6. /\ EventsHaveRows' /\ AtMostOneEffect'
      /\ \A q \in Ops : WrittenBy(q)' <=> WrittenBy(q)
  BY <1>2, <1>4, TrailStands DEF Exists
<1>7. WorkersHaveRows'
  BY <1>2, <1>4 DEF EffectInv, WorkersHaveRows, Exists
<1>8. QueuedIsUnwritten' /\ RefusalIsUnwritten' /\ VerdictsAreNoRefusals'
  BY <1>2, <1>4, <1>5, <1>6
  DEF EffectInv, QueuedIsUnwritten, RefusalIsUnwritten, VerdictsAreNoRefusals, Scheduled
<1>9. RefusedLeavesNoTrace'
  BY <1>2, <1>4, <1>5, <1>6 DEF EffectInv, RefusedLeavesNoTrace, Settled, Exists
<1> QED BY <1>6, <1>7, <1>8, <1>9 DEF EffectInv

\* The worker's transaction: the one step that adds an event, and only while the
\* worker is queued.
LEMMA WorkerRunsKeepsEffects ==
    ASSUME BaseInv, EffectInv, NEW o \in Ops, WorkerRuns(o)
    PROVE  EffectInv'
<1>1. Scheduled(o) /\ worker[o].stage = "queued"
  BY DEF WorkerRuns, WriterCommits, WriterRefused, WriterFails, Scheduled
<1>2. Exists(o) /\ ~WrittenBy(o) /\ operations[o].error \notin Refusals
  BY <1>1 DEF EffectInv, WorkersHaveRows, QueuedIsUnwritten
<1>3. PICK r \in Result :
          /\ Reports(o, r)
          /\ \/ UNCHANGED outbox
             \/ CommitCmd(o) /\ r.error \notin Refusals
  <2>1. CASE WriterCommits(o)
    <3>1. Success(Written(Cmd(o))) \in Result
      BY <1>2, <2>1, WrittenIsARow, Outcomes DEF WriterCommits, CommitCmd, Commit
    <3>2. Success(Written(Cmd(o))).error \notin Refusals
      BY GeoAssumption, Outcomes DEF Success
    <3> QED BY <2>1, <3>1, <3>2 DEF WriterCommits
  <2>2. CASE WriterRefused(o)
    BY <2>2, Outcomes DEF WriterRefused, catalogVars
  <2>3. CASE WriterFails(o)
    <3>1. PICK code \in {"Internal", "Canceled"} :
             Reports(o, Failure(code)) /\ (UNCHANGED catalogVars \/ CommitCmd(o))
      BY <2>3 DEF WriterFails
    <3>2. Failure(code) \in Result /\ Failure(code).error \notin Refusals
      BY <3>1, Outcomes DEF ErrorCodes, Refusals, Failure
    <3> QED BY <3>1, <3>2 DEF catalogVars
  <2> QED BY <2>1, <2>2, <2>3 DEF WorkerRuns
<1>4. /\ \A q \in Ops : worker'[q] = IF q = o THEN Ran(r) ELSE worker[q]
      /\ UNCHANGED <<operations, verdict>>
  BY <1>3 DEF Reports, BaseInv, TypeOK
<1>5. WorkersHaveRows' /\ VerdictsAreNoRefusals'
  BY <1>2, <1>4 DEF EffectInv, WorkersHaveRows, VerdictsAreNoRefusals, Exists
<1>6. CASE UNCHANGED outbox
  <2>1. /\ EventsHaveRows' /\ AtMostOneEffect'
        /\ \A q \in Ops : WrittenBy(q)' <=> WrittenBy(q)
    BY <1>4, <1>6, TrailStands DEF Exists
  <2>2. QueuedIsUnwritten' /\ RefusalIsUnwritten' /\ RefusedLeavesNoTrace'
    BY <1>2, <1>4, <2>1
    DEF EffectInv, QueuedIsUnwritten, RefusalIsUnwritten, RefusedLeavesNoTrace, Scheduled,
        Ran, Settled, Exists
  <2> QED BY <1>5, <2>1, <2>2 DEF EffectInv
<1>7. CASE CommitCmd(o) /\ r.error \notin Refusals
  <2>1. PICK L \in Nat :
            /\ DOMAIN outbox = 1 .. L /\ DOMAIN outbox' = 1 .. (L + 1)
            /\ \A i \in 1 .. L : outbox'[i] = outbox[i]
            /\ outbox'[L + 1].op = o
    <3> DEFINE e == AuditEvent(Cmd(o), actorFromCtx(operations[o].owner), o)
    <3>1. e.op = o
      BY DEF AuditEvent
    <3> HIDE DEF e
    <3>2. \E L \in Nat :
              /\ DOMAIN outbox = 1 .. L /\ DOMAIN outbox' = 1 .. (L + 1)
              /\ \A i \in 1 .. L : outbox'[i] = outbox[i]
              /\ outbox'[L + 1] = e
      BY <1>2, <1>7, CommitCmdWrites DEF e
    <3> QED BY <3>1, <3>2
  <2>2. \A i \in 1 .. L : outbox[i].op # o
    BY <1>2, <2>1 DEF WrittenBy
  <2>3. \A q \in Ops : WrittenBy(q)' <=> WrittenBy(q) \/ q = o
    <3> SUFFICES ASSUME NEW q \in Ops PROVE WrittenBy(q)' <=> WrittenBy(q) \/ q = o
      OBVIOUS
    <3>1. WrittenBy(q)' => WrittenBy(q) \/ q = o
      BY <2>1 DEF WrittenBy
    <3>2. WrittenBy(q) => WrittenBy(q)'
      BY <2>1 DEF WrittenBy
    <3>3. q = o => WrittenBy(q)'
      BY <2>1 DEF WrittenBy
    <3> QED BY <3>1, <3>2, <3>3
  <2>4. EventsHaveRows'
    BY <1>2, <1>4, <2>1 DEF EffectInv, EventsHaveRows, Exists
  <2>5. AtMostOneEffect'
    BY <2>1, <2>2 DEF EffectInv, AtMostOneEffect
  <2>6. QueuedIsUnwritten' /\ RefusalIsUnwritten' /\ RefusedLeavesNoTrace'
    BY <1>2, <1>4, <1>7, <2>3
    DEF EffectInv, QueuedIsUnwritten, RefusalIsUnwritten, RefusedLeavesNoTrace, Scheduled,
        Ran, Settled, Exists
  <2> QED BY <1>5, <2>4, <2>5, <2>6 DEF EffectInv
<1> QED BY <1>3, <1>6, <1>7

\* A terminal write of a result that is a refusal only if nothing was written.
LEMMA SettleKeepsEffects ==
    ASSUME BaseInv, EffectInv, NEW o \in Ops, NEW r \in Result,
           Settle(o, r.error, r.response), UNCHANGED outbox,
           r.error \in Refusals => ~WrittenBy(o) /\ worker[o].stage = "ran",
           \A q \in Ops : \/ worker'[q] = worker[q]
                          \/ worker'[q] = Gone /\ worker[q].stage # "none",
           \A q \in Ops : verdict'[q] = verdict[q] \/ verdict'[q] = NoVerdict
    PROVE  EffectInv'
<1>1. \A q \in Ops :
          /\ Exists(q)' <=> Exists(q)
          /\ operations'[q].owner = operations[q].owner
          /\ operations'[q] # operations[q] => q = o /\ operations'[q].error = r.error
  BY SettleChangesOneRow DEF BaseInv, TypeOK
<1>2. /\ EventsHaveRows' /\ AtMostOneEffect'
      /\ \A q \in Ops : WrittenBy(q)' <=> WrittenBy(q)
  BY <1>1, TrailStands
<1>3. WorkersHaveRows'
  BY <1>1 DEF EffectInv, WorkersHaveRows
<1>4. QueuedIsUnwritten'
  BY <1>1, <1>2 DEF EffectInv, QueuedIsUnwritten, Scheduled, Gone
<1>5. RefusalIsUnwritten' /\ VerdictsAreNoRefusals'
  BY <1>2 DEF EffectInv, RefusalIsUnwritten, VerdictsAreNoRefusals, Gone, NoVerdict, NoResult
<1>6. RefusedLeavesNoTrace'
  BY <1>1, <1>2 DEF EffectInv, RefusedLeavesNoTrace, Settled, Exists
<1> QED BY <1>2, <1>3, <1>4, <1>5, <1>6 DEF EffectInv

\* Steps that change no table: a worker dies, time passes, the reconciler reads.
LEMMA QuietStepKeepsEffects ==
    ASSUME BaseInv, EffectInv, UNCHANGED <<outbox, operations>>,
           \A q \in Ops : \/ worker'[q] = worker[q]
                          \/ worker'[q] = Gone /\ worker[q].stage # "none",
           \A q \in Ops : \/ verdict'[q] \in {verdict[q], NoVerdict}
                          \/ verdict'[q].result.error \in {Unset, "Interrupted"}
    PROVE  EffectInv'
<1>1. /\ EventsHaveRows' /\ AtMostOneEffect'
      /\ \A q \in Ops : WrittenBy(q)' <=> WrittenBy(q)
  BY TrailStands DEF Exists
<1>2. WorkersHaveRows' /\ RefusedLeavesNoTrace'
  BY <1>1 DEF EffectInv, WorkersHaveRows, RefusedLeavesNoTrace, Settled, Exists
<1>3. QueuedIsUnwritten' /\ RefusalIsUnwritten'
  BY <1>1 DEF EffectInv, QueuedIsUnwritten, RefusalIsUnwritten, Scheduled, Gone
<1>4. VerdictsAreNoRefusals'
  BY DEF EffectInv, VerdictsAreNoRefusals, NoVerdict, NoResult
<1> QED BY <1>1, <1>2, <1>3, <1>4 DEF EffectInv

\* Terminal writes of worker and reconciler add no event.
LEMMA SettlingKeepsEffects ==
    ASSUME BaseInv, EffectInv, NEW o \in Ops,
           \/ WorkerFinishes(o) \/ WorkerVanishes(o) \/ Expire(o)
           \/ ReconcilerReads(o) \/ ReconcilerSettles(o)
    PROVE  EffectInv'
<1>1. CASE WorkerFinishes(o)
  <2>1. worker[o].result \in Result
    BY DEF BaseInv, TypeOK, Worker
  <2>2. worker[o].result.error \in Refusals => ~WrittenBy(o) /\ worker[o].stage = "ran"
    BY <1>1 DEF WorkerFinishes, EffectInv, RefusalIsUnwritten
  <2>3. \A q \in Ops : \/ worker'[q] = worker[q]
                       \/ worker'[q] = Gone /\ worker[q].stage # "none"
    BY <1>1 DEF WorkerFinishes, BaseInv, TypeOK
  <2> QED BY <1>1, <2>1, <2>2, <2>3, SettleKeepsEffects DEF WorkerFinishes, catalogVars
<1>2. CASE WorkerVanishes(o)
  <2>1. \A q \in Ops : \/ worker'[q] = worker[q]
                       \/ worker'[q] = Gone /\ worker[q].stage # "none"
    BY <1>2 DEF WorkerVanishes, Alive, BaseInv, TypeOK
  <2> QED BY <1>2, <2>1, QuietStepKeepsEffects DEF WorkerVanishes, catalogVars
<1>3. CASE Expire(o)
  BY <1>3, QuietStepKeepsEffects DEF Expire, catalogVars
<1>4. CASE ReconcilerReads(o)
  <2>1. Resolve(Cmd(o)).error \in {Unset, "Interrupted"}
    BY DEF Resolve, Success, Failure
  <2>2. \A q \in Ops : \/ verdict'[q] = verdict[q]
                       \/ verdict'[q].result.error \in {Unset, "Interrupted"}
    BY <1>4, <2>1 DEF ReconcilerReads, Read, BaseInv, TypeOK
  <2> QED BY <1>4, <2>2, QuietStepKeepsEffects DEF ReconcilerReads, catalogVars
<1>5. CASE ReconcilerSettles(o)
  <2>1. verdict[o].result \in Result
    BY DEF BaseInv, TypeOK, Verdict
  <2>2. verdict[o].result.error \notin Refusals
    BY GeoAssumption, Outcomes DEF EffectInv, VerdictsAreNoRefusals, Refusals
  <2>3. \A q \in Ops : verdict'[q] = verdict[q] \/ verdict'[q] = NoVerdict
    BY <1>5 DEF ReconcilerSettles, BaseInv, TypeOK
  <2> QED BY <1>5, <2>1, <2>2, <2>3, SettleKeepsEffects DEF ReconcilerSettles, catalogVars
<1> QED BY <1>1, <1>2, <1>3, <1>4, <1>5

\* Crash, restart and the passing of time add no event and start no worker.
LEMMA ProcessKeepsEffects ==
    ASSUME BaseInv, EffectInv, Crash \/ Restart
    PROVE  EffectInv'
<1>1. \A q \in Ops : \/ worker'[q] = worker[q]
                     \/ worker'[q] = Gone /\ worker[q].stage # "none"
  BY DEF Crash, Restart, Alive
<1>2. \A q \in Ops : verdict'[q] \in {verdict[q], NoVerdict}
  BY DEF Crash, Restart
<1> QED BY <1>1, <1>2, QuietStepKeepsEffects DEF Crash, Restart, catalogVars

-----------------------------------------------------------------------------
(* The invariant of the service.                                           *)

GeoInv == BaseInv /\ EffectInv

\* The invariant holds when the service starts on an empty database.
LEMMA GeoInitially == Init => GeoInv
<1> SUFFICES ASSUME Init PROVE GeoInv
  OBVIOUS
<1>1. CatalogInv /\ CatalogTypeOK
  BY CatalogInitially DEF Init, CatalogInv
<1>2. TypeOK
  BY <1>1, Stages, GeoAssumption DEF Init, OperationsInit, OperationsTypeOK, TypeOK
<1>3. DOMAIN outbox = {}
  BY DEF Init, CatalogInit
<1>4. EffectInv
  BY <1>3
  DEF Init, OperationsInit, EffectInv, WorkersHaveRows, EventsHaveRows, QueuedIsUnwritten,
      RefusalIsUnwritten, VerdictsAreNoRefusals, AtMostOneEffect, RefusedLeavesNoTrace,
      WrittenBy, Scheduled, NoWorker, NoVerdict, NoResult
<1> QED BY <1>1, <1>2, <1>4 DEF GeoInv, BaseInv

\* Every step of the service keeps the invariant.
LEMMA GeoStep == GeoInv /\ [Next]_vars => GeoInv'
<1> SUFFICES ASSUME GeoInv, [Next]_vars PROVE GeoInv'
  OBVIOUS
<1> USE DEF GeoInv
<1>1. ASSUME NEW o \in Ops, NEW p \in Principals, Cancel(p, o)
      PROVE  GeoInv'
  BY <1>1, CancelKeepsTypes, CancelKeepsEffects
<1>2. ASSUME NEW o \in Ops, NEW p \in Principals, NEW c \in Requests, Submit(o, p, c)
      PROVE  GeoInv'
  BY <1>2, SubmitKeepsTypes, SubmitKeepsEffects
<1>3. ASSUME NEW o \in Ops, WriterCommits(o) \/ WriterRefused(o) \/ WriterFails(o)
      PROVE  GeoInv'
  BY <1>3, WorkerRunsKeepsTypes, WorkerRunsKeepsEffects DEF WorkerRuns, EffectInv
<1>4. ASSUME NEW o \in Ops,
             \/ WorkerFinishes(o) \/ WorkerVanishes(o) \/ Expire(o)
             \/ ReconcilerReads(o) \/ ReconcilerSettles(o)
      PROVE  GeoInv'
  BY <1>4, SettlingKeepsTypes, SettlingKeepsEffects
<1>5. CASE Crash \/ Restart
  BY <1>5, ProcessKeepsTypes, ProcessKeepsEffects
<1>6. CASE UNCHANGED vars
  <2>1. CatalogInv'
    BY <1>6, StutterKeepsCatalog DEF vars, catalogVars, BaseInv
  <2>2. TypeOK'
    BY <1>6, <2>1 DEF vars, BaseInv, TypeOK, CatalogInv, OperationsTypeOK
  <2>3. EffectInv'
    BY <1>6, QuietStepKeepsEffects DEF vars
  <2> QED BY <2>1, <2>2, <2>3 DEF BaseInv
<1> QED BY <1>1, <1>2, <1>3, <1>4, <1>5, <1>6 DEF Next

\* The inductive invariant holds throughout.
THEOREM GeoInvariant == Spec => []GeoInv
BY GeoInitially, GeoStep, PTL DEF Spec

\* Every table, worker and verdict keeps its type, across crashes and restarts.
THEOREM TypeCorrect == Spec => []TypeOK
<1>1. GeoInv => TypeOK
  BY DEF GeoInv, BaseInv
<1> QED BY <1>1, GeoInvariant, PTL

\* No operation writes the catalog twice.
THEOREM EffectsAreUnique == Spec => []AtMostOneEffect
<1>1. GeoInv => AtMostOneEffect
  BY DEF GeoInv, EffectInv
<1> QED BY <1>1, GeoInvariant, PTL

\* AlreadyExists, NotFound and FailedPrecondition are final: nothing was written.
THEOREM RefusalsAreClean == Spec => []RefusedLeavesNoTrace
<1>1. GeoInv => RefusedLeavesNoTrace
  BY DEF GeoInv, EffectInv
<1> QED BY <1>1, GeoInvariant, PTL

\* Concurrent workers, cancellations, crashes and the reconciler leave the catalog as
\* consistent as a sequence of writer transactions does.
THEOREM ServiceKeepsCatalog ==
    Spec => [](/\ ReferentialIntegrity /\ OutboxReflectsCatalog
               /\ TrailIsALife /\ CreatesAreSeparated)
<1>1. GeoInv => /\ ReferentialIntegrity /\ OutboxReflectsCatalog
                /\ TrailIsALife /\ CreatesAreSeparated
  BY DEF GeoInv, BaseInv, CatalogInv
<1> QED BY <1>1, GeoInvariant, PTL

-----------------------------------------------------------------------------
(* The service implements OperationLifecycle.                              *)

\* The phase of an operation depends on its row alone.
LEMMA PhaseOfRow ==
    /\ \A o \in Ops : operations'[o] = operations[o] => PhaseOf(o)' = PhaseOf(o)
    /\ \A o \in Ops : Settled(o) => PhaseOf(o) \in Lifecycle!Outcome
    /\ \A o \in Ops : Running(o) => PhaseOf(o) = "running"
    /\ \A o \in Ops : ~Exists(o) => PhaseOf(o) = "none"
    /\ \A o \in Ops : PhaseOf(o) = "refused" => Settled(o) /\ operations[o].error \in Refusals
    /\ \A o \in Ops : PhaseOf(o) = "none" => ~Exists(o)
BY DEF PhaseOf, Exists, Running, Settled, Succeeded, Lifecycle!Outcome

\* The terminal write of whoever comes first is the abstract SettleOp.
LEMMA SettlingIsSettleOp ==
    ASSUME GeoInv, GeoInv', NEW o \in Ops, UNCHANGED outbox,
           \A q \in Ops \ {o} : operations'[q] = operations[q],
           operations'[o] = operations[o] \/ (Running(o) /\ Settled(o)')
    PROVE  \/ UNCHANGED <<Phases, Applied>>
           \/ Lifecycle!SettleOp(o, PhaseOf(o)') /\ PhaseOf(o)' \in Lifecycle!Outcome
<1>1. Applied' = Applied
  BY DEF Applied, WrittenBy
<1>2. \A q \in Ops \ {o} : PhaseOf(q)' = PhaseOf(q)
  BY PhaseOfRow
<1>3. CASE operations'[o] = operations[o]
  <2>1. Phases' = Phases
    BY <1>2, <1>3, PhaseOfRow DEF Phases
  <2> QED BY <1>1, <2>1
<1>4. CASE Running(o) /\ Settled(o)'
  <2>1. Phases[o] = "running" /\ PhaseOf(o)' \in Lifecycle!Outcome
    <3>1. Settled(o)' => PhaseOf(o)' \in Lifecycle!Outcome
      BY DEF PhaseOf, Exists, Running, Settled, Succeeded, Lifecycle!Outcome
    <3> QED BY <1>4, <3>1, PhaseOfRow DEF Phases
  <2>2. Phases' = [Phases EXCEPT ![o] = PhaseOf(o)']
    BY <1>2 DEF Phases
  <2>3. PhaseOf(o)' = "refused" => o \notin Applied
    <3>1. PhaseOf(o)' = "refused" => Settled(o)' /\ operations'[o].error \in Refusals
      BY DEF PhaseOf, Exists, Running, Settled, Succeeded
    <3>2. RefusedLeavesNoTrace'
      BY DEF GeoInv, EffectInv
    <3> QED BY <1>1, <3>1, <3>2 DEF RefusedLeavesNoTrace, Applied
  <2> QED BY <1>1, <2>1, <2>2, <2>3 DEF Lifecycle!SettleOp, Phases, Applied
<1> QED BY <1>3, <1>4

\* The commit of a worker is the abstract ApplyOp: it is the operation's first event,
\* and the operation has not been refused.
LEMMA CommitIsApplyOp ==
    ASSUME GeoInv, NEW o \in Ops, Scheduled(o), CommitCmd(o), UNCHANGED operations
    PROVE  Lifecycle!ApplyOp(o)
<1>1. Exists(o) /\ ~WrittenBy(o) /\ operations[o].error \notin Refusals
  BY DEF GeoInv, EffectInv, WorkersHaveRows, QueuedIsUnwritten, Scheduled
<1>2. PhaseOf(o) \notin {"none", "refused"}
  BY <1>1, PhaseOfRow
<1>3. Phases' = Phases
  BY PhaseOfRow DEF Phases
<1>4. Applied' = Applied \cup {o}
  <2>1. PICK L \in Nat :
           /\ DOMAIN outbox = 1 .. L
           /\ DOMAIN outbox' = 1 .. (L + 1)
           /\ \A i \in 1 .. L : outbox'[i] = outbox[i]
           /\ outbox'[L + 1] = AuditEvent(Cmd(o), actorFromCtx(operations[o].owner), o)
    BY <1>1, CommitCmdWrites DEF GeoInv
  <2>2. outbox'[L + 1].op = o
    BY <2>1 DEF AuditEvent
  <2>3. \A q \in Ops : WrittenBy(q)' <=> WrittenBy(q) \/ q = o
    BY <2>1, <2>2 DEF WrittenBy
  <2> QED BY <2>3 DEF Applied
<1> QED BY <1>1, <1>2, <1>3, <1>4 DEF Lifecycle!ApplyOp, Phases, Applied

\* What a step of the service is to the abstract service.
LEMMA StepsAreLifecycleSteps ==
    GeoInv /\ [Next]_vars => [Lifecycle!LifecycleNext]_<<Phases, Applied>>
<1> SUFFICES ASSUME GeoInv, [Next]_vars
             PROVE  Lifecycle!LifecycleNext \/ UNCHANGED <<Phases, Applied>>
  OBVIOUS
<1>1. GeoInv'
  BY GeoStep
<1>2. OperationsTypeOK
  BY DEF GeoInv, BaseInv, TypeOK
<1>3. ASSUME UNCHANGED <<outbox, operations>>
      PROVE  UNCHANGED <<Phases, Applied>>
  BY <1>3, PhaseOfRow DEF Phases, Applied, WrittenBy
<1>4. ASSUME NEW o \in Ops, UNCHANGED outbox,
             \A q \in Ops \ {o} : operations'[q] = operations[q],
             operations'[o] = operations[o] \/ (Running(o) /\ Settled(o)')
      PROVE  Lifecycle!LifecycleNext \/ UNCHANGED <<Phases, Applied>>
  BY <1>1, <1>4, SettlingIsSettleOp DEF Lifecycle!LifecycleNext
<1>5. ASSUME NEW o \in Ops, NEW r \in Result, Settle(o, r.error, r.response),
             UNCHANGED outbox
      PROVE  Lifecycle!LifecycleNext \/ UNCHANGED <<Phases, Applied>>
  <2>1. \A q \in Ops \ {o} : operations'[q] = operations[q]
    BY <1>2, <1>5, SettleChangesOneRow
  <2>2. operations'[o] = operations[o] \/ (Running(o) /\ Settled(o)')
    BY <1>2, <1>5, SettleChangesOneRow DEF Settled, Running
  <2> QED BY <1>4, <1>5, <2>1, <2>2
<1>6. ASSUME NEW o \in Ops, NEW p \in Principals, NEW c \in Requests, Submit(o, p, c)
      PROVE  Lifecycle!LifecycleNext
  <2>1. ~Exists(o) /\ UNCHANGED outbox
    BY <1>6 DEF Submit, CreateOp, catalogVars
  <2>2. /\ \A q \in Ops \ {o} : operations'[q] = operations[q]
        /\ operations'[o] = [owner |-> p, metadata |-> c, done |-> FALSE,
                             error |-> Unset, response |-> Unset]
    BY <1>2, <1>6 DEF Submit, CreateOp, OperationsTypeOK
  <2>3. operations'[o] \in OperationRow
    BY <2>2 DEF OperationRow
  <2>4. operations'[o] # Absent /\ ~operations'[o].done
    <3>1. ~operations'[o].done
      BY <2>2
    <3> QED BY <2>3, <3>1, GeoAssumption
  <2>5. PhaseOf(o)' = "running"
    BY <2>4 DEF PhaseOf, Exists, Running, Succeeded, Settled
  <2>6. PhaseOf(o) = "none" /\ \A q \in Ops \ {o} : PhaseOf(q)' = PhaseOf(q)
    BY <2>1, <2>2, PhaseOfRow
  <2>7. Phases' = [Phases EXCEPT ![o] = "running"]
    BY <2>5, <2>6 DEF Phases
  <2>8. Applied' = Applied
    BY <2>1 DEF Applied, WrittenBy
  <2> QED BY <2>6, <2>7, <2>8
          DEF Lifecycle!LifecycleNext, Lifecycle!AcceptOp, Phases, Applied
<1>7. ASSUME NEW o \in Ops, NEW p \in Principals, Cancel(p, o)
      PROVE  Lifecycle!LifecycleNext \/ UNCHANGED <<Phases, Applied>>
  <2>1. Running(o) /\ UNCHANGED outbox /\ operations[o] \in OperationRow
    BY <1>2, <1>7 DEF Cancel, CancelRow, Cancellable, catalogVars, Running, Exists,
                      OperationsTypeOK
  <2>2. /\ \A q \in Ops \ {o} : operations'[q] = operations[q]
        /\ operations'[o] = [operations[o] EXCEPT !.done = TRUE, !.error = "Canceled"]
    BY <1>2, <1>7, <2>1 DEF Cancel, CancelRow, OperationsTypeOK
  <2>3. Settled(o)'
    <3>1. operations'[o] \in OperationRow /\ operations'[o].done
      BY <2>1, <2>2 DEF OperationRow, ErrorCodes
    <3> QED BY <3>1, GeoAssumption DEF Settled, Exists
  <2> QED BY <1>4, <2>1, <2>2, <2>3
<1>8. ASSUME NEW o \in Ops, WriterCommits(o) \/ WriterRefused(o) \/ WriterFails(o)
      PROVE  Lifecycle!LifecycleNext \/ UNCHANGED <<Phases, Applied>>
  <2>1. /\ Scheduled(o) /\ UNCHANGED operations
        /\ CommitCmd(o) \/ UNCHANGED outbox
    BY <1>8 DEF WriterCommits, WriterRefused, WriterFails, Reports, catalogVars
  <2> QED BY <1>3, <2>1, CommitIsApplyOp DEF Lifecycle!LifecycleNext
<1>9. ASSUME NEW o \in Ops, WorkerFinishes(o)
      PROVE  Lifecycle!LifecycleNext \/ UNCHANGED <<Phases, Applied>>
  <2>1. worker[o].result \in Result
    BY DEF GeoInv, BaseInv, TypeOK, Worker
  <2> QED BY <1>5, <1>9, <2>1 DEF WorkerFinishes, catalogVars
<1>10. ASSUME NEW o \in Ops, ReconcilerSettles(o)
       PROVE  Lifecycle!LifecycleNext \/ UNCHANGED <<Phases, Applied>>
  <2>1. verdict[o].result \in Result
    BY DEF GeoInv, BaseInv, TypeOK, Verdict
  <2> QED BY <1>5, <1>10, <2>1 DEF ReconcilerSettles, catalogVars
<1>11. ASSUME \/ \E o \in Ops : WorkerVanishes(o) \/ Expire(o) \/ ReconcilerReads(o)
              \/ Crash \/ Restart \/ UNCHANGED vars
       PROVE  UNCHANGED <<Phases, Applied>>
  BY <1>3, <1>11 DEF WorkerVanishes, Expire, ReconcilerReads, Crash, Restart, vars,
                     catalogVars
<1> QED
  BY <1>6, <1>7, <1>8, <1>9, <1>10, <1>11 DEF Next

\* The use cases, the workers, Cancel, crashes and the reconciler together keep what
\* OperationLifecycle promises: one acceptance, at most one effect, one settlement, and
\* no effect of a refused operation.
THEOREM ServiceKeepsLifecycle == Spec => KeepsLifecycle
<1>1. Init => Lifecycle!LifecycleInit
  <2> SUFFICES ASSUME Init PROVE Lifecycle!LifecycleInit
    OBVIOUS
  <2>1. \A o \in Ops : PhaseOf(o) = "none" /\ ~WrittenBy(o)
    BY PhaseOfRow DEF Init, OperationsInit, CatalogInit, Exists, WrittenBy
  <2> QED BY <2>1 DEF Lifecycle!LifecycleInit, Phases, Applied
<1>2. GeoInv /\ [Next]_vars => [Lifecycle!LifecycleNext]_(Lifecycle!lifecycleVars)
  BY StepsAreLifecycleSteps DEF Lifecycle!lifecycleVars
<1> QED
  BY <1>1, <1>2, GeoInvariant, PTL DEF Spec, KeepsLifecycle, Lifecycle!Spec

-----------------------------------------------------------------------------
(* Responses are rows the catalog held: from the read or the commit to the  *)
(* terminal write a response is carried by a verdict or a worker.           *)

\* A response to c, if there is one and c is no Delete, is in the trail.
Vouched(c, response) ==
    \/ response = Unset
    \/ c.verb = "Delete"
    \/ \E i \in DOMAIN outbox : About(outbox[i], c.kind, c.id) /\ outbox[i].row = response

WitnessInv ==
    \A o \in Ops :
        /\ Exists(o) => Vouched(Cmd(o), operations[o].response)
        /\ worker[o].stage = "ran" => Vouched(Cmd(o), worker[o].result.response)
        /\ verdict[o].stage = "read" =>
              Exists(o) /\ Vouched(Cmd(o), verdict[o].result.response)

\* The trail only grows.
LEMMA TrailGrows ==
    ASSUME GeoInv, [Next]_vars
    PROVE  \A i \in DOMAIN outbox : i \in DOMAIN outbox' /\ outbox'[i] = outbox[i]
<1>1. ASSUME NEW o \in Ops, WorkerRuns(o), CommitCmd(o)
      PROVE  \A i \in DOMAIN outbox : i \in DOMAIN outbox' /\ outbox'[i] = outbox[i]
  <2>1. Exists(o)
    BY <1>1 DEF WorkerRuns, WriterCommits, WriterRefused, WriterFails, Scheduled, GeoInv,
                EffectInv, WorkersHaveRows
  <2>2. PICK L \in Nat :
           /\ DOMAIN outbox = 1 .. L
           /\ DOMAIN outbox' = 1 .. (L + 1)
           /\ \A i \in 1 .. L : outbox'[i] = outbox[i]
    BY <1>1, <2>1, CommitCmdWrites DEF GeoInv
  <2> QED BY <2>2
<1>2. \/ UNCHANGED outbox
      \/ \E o \in Ops : WorkerRuns(o) /\ CommitCmd(o)
  BY DEF Next, Submit, Cancel, WorkerRuns, WriterCommits, WriterRefused, WriterFails,
         WorkerFinishes, WorkerVanishes, Expire, ReconcilerReads, ReconcilerSettles,
         Crash, Restart, vars, catalogVars
<1> QED BY <1>1, <1>2

\* Rows are not deleted, and keep what they were asked to do.
LEMMA RowsStay ==
    ASSUME GeoInv, [Next]_vars, NEW q \in Ops, Exists(q)
    PROVE  Exists(q)' /\ Cmd(q)' = Cmd(q) /\ operations'[q].owner = operations[q].owner
<1>1. OperationsTypeOK
  BY DEF GeoInv, BaseInv, TypeOK
<1>2. operations[q] \in OperationRow
  BY <1>1 DEF OperationsTypeOK, Exists
<1>3. ASSUME UNCHANGED operations
      PROVE  Exists(q)' /\ Cmd(q)' = Cmd(q) /\ operations'[q].owner = operations[q].owner
  BY <1>3 DEF Exists, Cmd
<1>4. ASSUME NEW o \in Ops, NEW r \in Result, Settle(o, r.error, r.response)
      PROVE  Exists(q)' /\ Cmd(q)' = Cmd(q) /\ operations'[q].owner = operations[q].owner
  BY <1>1, <1>4, SettleChangesOneRow DEF Cmd
<1>5. ASSUME NEW o \in Ops, NEW p \in Principals, NEW c \in Requests, Submit(o, p, c)
      PROVE  Exists(q)' /\ Cmd(q)' = Cmd(q) /\ operations'[q].owner = operations[q].owner
  BY <1>1, <1>5 DEF Submit, CreateOp, OperationsTypeOK, Exists, Cmd
<1>6. ASSUME NEW o \in Ops, NEW p \in Principals, Cancel(p, o)
      PROVE  Exists(q)' /\ Cmd(q)' = Cmd(q) /\ operations'[q].owner = operations[q].owner
  <2>1. CASE q # o
    BY <1>1, <1>6, <2>1 DEF Cancel, CancelRow, OperationsTypeOK, Exists, Cmd
  <2>2. CASE q = o
    <3>1. operations'[q] = [operations[q] EXCEPT !.done = TRUE, !.error = "Canceled"]
      BY <1>1, <1>2, <1>6, <2>2 DEF Cancel, CancelRow, OperationsTypeOK
    <3>2. operations'[q] \in OperationRow
      BY <1>2, <3>1 DEF OperationRow, ErrorCodes
    <3> QED BY <1>2, <3>1, <3>2, GeoAssumption DEF Exists, Cmd, OperationRow
  <2> QED BY <2>1, <2>2
<1>7. ASSUME NEW o \in Ops, WorkerFinishes(o) \/ ReconcilerSettles(o)
      PROVE  \E r \in Result : Settle(o, r.error, r.response)
  BY <1>7 DEF WorkerFinishes, ReconcilerSettles, GeoInv, BaseInv, TypeOK, Worker, Verdict
<1> QED
  BY <1>3, <1>4, <1>5, <1>6, <1>7
  DEF Next, WriterCommits, WriterRefused, WriterFails, Reports, WorkerVanishes, Expire,
      ReconcilerReads, Crash, Restart, vars

LEMMA VouchedStays ==
    ASSUME GeoInv, [Next]_vars
    PROVE  \A c, r : Vouched(c, r) => Vouched(c, r)'
BY TrailGrows DEF Vouched, About

\* What an operation, its worker or a verdict holds stays vouched for.
LEMMA WitnessStays ==
    ASSUME GeoInv, WitnessInv, [Next]_vars, NEW q \in Ops,
           /\ Exists(q)' /\ ~Exists(q) => operations'[q].response = Unset
           /\ Exists(q) =>
                 \/ operations'[q].response \in {operations[q].response, Unset}
                 \/ /\ worker[q].stage = "ran"
                    /\ operations'[q].response = worker[q].result.response
                 \/ /\ verdict[q].stage = "read"
                    /\ operations'[q].response = verdict[q].result.response,
           worker'[q].stage = "ran" => \/ worker'[q] = worker[q]
                                       \/ Vouched(Cmd(q), worker[q].result.response)',
           verdict'[q].stage = "read" =>
              \/ verdict'[q] = verdict[q]
              \/ Exists(q) /\ Vouched(Cmd(q), verdict'[q].result.response)
    PROVE  /\ Exists(q)' => Vouched(Cmd(q), operations[q].response)'
           /\ worker'[q].stage = "ran" => Vouched(Cmd(q), worker[q].result.response)'
           /\ verdict'[q].stage = "read" =>
                 Exists(q)' /\ Vouched(Cmd(q), verdict[q].result.response)'
<1>1. \A r : Vouched(Cmd(q), r) /\ Exists(q) => Vouched(Cmd(q), r)'
  <2>1. \A c, r : Vouched(c, r) => Vouched(c, r)'
    BY VouchedStays
  <2>2. ASSUME Exists(q), NEW r, Vouched(Cmd(q), r)
        PROVE  Vouched(Cmd(q), r)'
    <3>1. PICK c : c = Cmd(q)
      OBVIOUS
    <3>2. c = Cmd(q)'
      BY <2>2, <3>1, RowsStay
    <3>3. Vouched(c, r)'
      BY <2>1, <2>2, <3>1
    <3> QED BY <3>2, <3>3 DEF Vouched
  <2> QED BY <2>2
<1>2. Exists(q)' => Vouched(Cmd(q), operations[q].response)'
  <2>1. CASE ~Exists(q)
    BY <2>1 DEF Vouched
  <2>2. CASE Exists(q)
    <3>1. Vouched(Cmd(q), operations'[q].response)
      BY <2>2 DEF WitnessInv, Vouched
    <3> QED BY <1>1, <2>2, <3>1 DEF Vouched
  <2> QED BY <2>1, <2>2
<1>3. worker'[q].stage = "ran" => Vouched(Cmd(q), worker[q].result.response)'
  <2>1. CASE worker'[q] = worker[q] /\ worker[q].stage = "ran"
    <3>1. Exists(q) /\ Vouched(Cmd(q), worker'[q].result.response)
      BY <2>1 DEF WitnessInv, GeoInv, EffectInv, WorkersHaveRows
    <3> QED BY <1>1, <3>1 DEF Vouched
  <2> QED BY <2>1 DEF Vouched
<1>4. verdict'[q].stage = "read" =>
         Exists(q)' /\ Vouched(Cmd(q), verdict[q].result.response)'
  <2> SUFFICES ASSUME verdict'[q].stage = "read"
               PROVE  Exists(q)' /\ Vouched(Cmd(q), verdict[q].result.response)'
    OBVIOUS
  <2>1. Exists(q) /\ Vouched(Cmd(q), verdict'[q].result.response)
    BY DEF WitnessInv
  <2>2. Exists(q)'
    BY <2>1, RowsStay
  <2> QED BY <1>1, <2>1, <2>2 DEF Vouched
<1> QED BY <1>2, <1>3, <1>4

\* The response of a row comes from its worker or from a verdict.
LEMMA ResponsesAreWritten ==
    ASSUME GeoInv, [Next]_vars, NEW q \in Ops
    PROVE  /\ Exists(q)' /\ ~Exists(q) => operations'[q].response = Unset
           /\ Exists(q) =>
                 \/ operations'[q].response \in {operations[q].response, Unset}
                 \/ /\ worker[q].stage = "ran"
                    /\ operations'[q].response = worker[q].result.response
                 \/ /\ verdict[q].stage = "read"
                    /\ operations'[q].response = verdict[q].result.response
<1> DEFINE Sourced ==
           /\ Exists(q)' /\ ~Exists(q) => operations'[q].response = Unset
           /\ Exists(q) =>
                 \/ operations'[q].response \in {operations[q].response, Unset}
                 \/ /\ worker[q].stage = "ran"
                    /\ operations'[q].response = worker[q].result.response
                 \/ /\ verdict[q].stage = "read"
                    /\ operations'[q].response = verdict[q].result.response
<1>1. OperationsTypeOK
  BY DEF GeoInv, BaseInv, TypeOK
<1>2. ASSUME operations'[q] = operations[q] PROVE Sourced
  BY <1>2 DEF Exists
<1>3. ASSUME NEW o \in Ops, NEW p \in Principals, NEW c \in Requests, Submit(o, p, c)
      PROVE  Sourced
  <2>1. CASE q = o
    <3>1. ~Exists(q) /\ operations'[q].response = Unset
      BY <1>1, <1>3, <2>1 DEF Submit, CreateOp, OperationsTypeOK
    <3> QED BY <3>1
  <2>2. CASE q # o
    BY <1>1, <1>2, <1>3, <2>2 DEF Submit, CreateOp, OperationsTypeOK
  <2> QED BY <2>1, <2>2
<1>4. ASSUME NEW o \in Ops, NEW p \in Principals, Cancel(p, o)
      PROVE  Sourced
  <2>1. CASE q = o
    <3>1. Exists(q) /\ operations[q] \in OperationRow
      BY <1>1, <1>4, <2>1 DEF Cancel, CancelRow, Cancellable, Running, Exists,
                              OperationsTypeOK
    <3>2. operations'[q] = [operations[q] EXCEPT !.done = TRUE, !.error = "Canceled"]
      BY <1>1, <1>4, <2>1 DEF Cancel, CancelRow, OperationsTypeOK
    <3>3. operations'[q].response = operations[q].response
      BY <3>1, <3>2 DEF OperationRow
    <3> QED BY <3>1, <3>3
  <2>2. CASE q # o
    BY <1>1, <1>2, <1>4, <2>2 DEF Cancel, CancelRow, OperationsTypeOK
  <2> QED BY <2>1, <2>2
<1>5. ASSUME NEW o \in Ops, NEW r \in Result, Settle(o, r.error, r.response),
             \/ worker[o].stage = "ran" /\ r = worker[o].result
             \/ verdict[o].stage = "read" /\ r = verdict[o].result
      PROVE  Sourced
  <2>1. operations'[q] # operations[q] =>
           q = o /\ Running(o) /\ operations'[q].response = r.response
    BY <1>1, <1>5, SettleChangesOneRow
  <2>2. CASE operations'[q] # operations[q]
    BY <1>5, <2>1, <2>2 DEF Running
  <2> QED BY <1>2, <2>2
<1>6. ASSUME NEW o \in Ops, WorkerFinishes(o) \/ ReconcilerSettles(o)
      PROVE  Sourced
  <2>1. worker[o].result \in Result /\ verdict[o].result \in Result
    BY DEF GeoInv, BaseInv, TypeOK, Worker, Verdict
  <2> QED BY <1>5, <1>6, <2>1 DEF WorkerFinishes, ReconcilerSettles
<1>7. Sourced
  <2> HIDE DEF Sourced
  <2> QED
    BY <1>2, <1>3, <1>4, <1>6
    DEF Next, WriterCommits, WriterRefused, WriterFails, Reports, WorkerVanishes, Expire,
        ReconcilerReads, Crash, Restart, vars
<1> QED BY <1>7

\* A worker reports a row only with the event that says so.
LEMMA WorkersReportTruly ==
    ASSUME GeoInv, [Next]_vars, NEW q \in Ops, worker'[q].stage = "ran"
    PROVE  worker'[q] = worker[q] \/ Vouched(Cmd(q), worker[q].result.response)'
<1>1. worker \in [Ops -> Worker]
  BY DEF GeoInv, BaseInv, TypeOK
<1>2. ASSUME NEW o \in Ops, NEW r \in Result, Reports(o, r), q = o
      PROVE  worker'[q].result = r
  BY <1>1, <1>2 DEF Reports, Ran
<1>3. ASSUME NEW o \in Ops, NEW r \in Result, Reports(o, r), q # o
      PROVE  worker'[q] = worker[q]
  BY <1>1, <1>3 DEF Reports
<1>4. ASSUME NEW o \in Ops, WriterCommits(o)
      PROVE  worker'[q] = worker[q] \/ Vouched(Cmd(q), worker[q].result.response)'
  <2>1. Exists(o)
    BY <1>4 DEF WriterCommits, Scheduled, GeoInv, EffectInv, WorkersHaveRows
  <2>2. Success(Written(Cmd(o))) \in Result
    BY <1>4, <2>1, WrittenIsARow, Outcomes DEF WriterCommits, CommitCmd, Commit, GeoInv
  <2>3. CASE q = o
    <3>1. worker'[q].result.response = Written(Cmd(q))
      BY <1>2, <1>4, <2>2, <2>3 DEF WriterCommits, Success
    <3>2. PICK L \in Nat :
             /\ DOMAIN outbox' = 1 .. (L + 1)
             /\ outbox'[L + 1] = AuditEvent(Cmd(o), actorFromCtx(operations[o].owner), o)
      BY <1>4, <2>1, CommitCmdWrites DEF WriterCommits, GeoInv
    <3>3. /\ L + 1 \in DOMAIN outbox'
          /\ About(outbox'[L + 1], Cmd(q).kind, Cmd(q).id)
          /\ outbox'[L + 1].row = Written(Cmd(q))
      BY <2>3, <3>2 DEF AuditEvent, About
    <3>4. Cmd(q)' = Cmd(q)
      BY <1>4 DEF WriterCommits, Reports, Cmd
    <3> QED BY <3>1, <3>3, <3>4 DEF Vouched, About
  <2> QED BY <1>3, <1>4, <2>2, <2>3 DEF WriterCommits
<1>5. ASSUME NEW o \in Ops, WriterRefused(o) \/ WriterFails(o)
      PROVE  worker'[q] = worker[q] \/ Vouched(Cmd(q), worker[q].result.response)'
  <2>1. PICK code \in ErrorCodes : Reports(o, Failure(code))
    BY <1>5, Outcomes DEF WriterRefused, WriterFails, ErrorCodes
  <2>2. Failure(code) \in Result /\ Failure(code).response = Unset
    BY Outcomes DEF Failure
  <2>3. CASE q = o
    BY <1>2, <2>1, <2>2, <2>3 DEF Vouched
  <2> QED BY <1>3, <2>1, <2>2, <2>3
<1>6. ASSUME \A o \in Ops : worker'[o] \in {worker[o], Queued, Gone}
      PROVE  worker'[q] = worker[q]
  BY <1>6 DEF Queued, Gone
<1>7. ASSUME \/ \E o \in Ops : \/ \E p \in Principals : Cancel(p, o)
                               \/ \E p \in Principals, c \in Requests : Submit(o, p, c)
                               \/ WorkerFinishes(o) \/ WorkerVanishes(o) \/ Expire(o)
                               \/ ReconcilerReads(o) \/ ReconcilerSettles(o)
             \/ Crash \/ Restart \/ UNCHANGED vars
      PROVE  \A o \in Ops : worker'[o] \in {worker[o], Queued, Gone}
  BY <1>1, <1>7 DEF Cancel, Submit, WorkerFinishes, WorkerVanishes, Expire,
                    ReconcilerReads, ReconcilerSettles, Crash, Restart, vars
<1> QED BY <1>4, <1>5, <1>6, <1>7 DEF Next

\* What the resolver answers from a stored row, the trail vouches for.
LEMMA ResolvesAreVouched ==
    ASSUME GeoInv, NEW c \in Requests
    PROVE  Vouched(c, Resolve(c).response)
<1>1. CASE c.verb = "Delete"
  BY <1>1 DEF Vouched
<1>2. CASE c.verb # "Delete" /\ Stored(c) = Absent
  <2>1. Resolve(c).response = Unset
    BY <1>2 DEF Resolve, Failure
  <2> QED BY <2>1 DEF Vouched
<1>3. CASE c.verb # "Delete" /\ Stored(c) # Absent
  <2>1. Resolve(c).response = Stored(c)
    BY <1>3 DEF Resolve, Success
  <2>2. TrailSays(c.kind, c.id, Stored(c))
    BY CommandKinds DEF Stored, GeoInv, BaseInv, CatalogInv, OutboxReflectsCatalog
  <2>3. PICK i \in DOMAIN outbox :
           About(outbox[i], c.kind, c.id) /\ outbox[i].row = Stored(c)
    BY <1>3, <2>2 DEF TrailSays
  <2> QED BY <2>1, <2>3 DEF Vouched
<1> QED BY <1>1, <1>2, <1>3

\* A fresh verdict is the resolver's answer to the command of an existing row.
LEMMA VerdictsAreRead ==
    ASSUME GeoInv, [Next]_vars, NEW q \in Ops, verdict'[q].stage = "read"
    PROVE  \/ verdict'[q] = verdict[q]
           \/ Exists(q) /\ Vouched(Cmd(q), verdict'[q].result.response)
<1>1. verdict \in [Ops -> Verdict]
  BY DEF GeoInv, BaseInv, TypeOK
<1>2. ASSUME NEW o \in Ops, ReconcilerReads(o)
      PROVE  \/ verdict'[q] = verdict[q]
             \/ Exists(q) /\ Vouched(Cmd(q), verdict'[q].result.response)
  <2>1. CASE q = o
    <3>1. Exists(q) /\ verdict'[q].result = Resolve(Cmd(q))
      BY <1>1, <1>2, <2>1 DEF ReconcilerReads, Running, Read
    <3>2. Cmd(q) \in Requests
      BY <3>1, CommandOfOperation DEF GeoInv, BaseInv, TypeOK
    <3> QED BY <3>1, <3>2, ResolvesAreVouched
  <2>2. CASE q # o
    BY <1>1, <1>2, <2>2 DEF ReconcilerReads
  <2> QED BY <2>1, <2>2
<1>3. ASSUME NEW o \in Ops, ReconcilerSettles(o)
      PROVE  verdict'[q] = verdict[q]
  BY <1>1, <1>3 DEF ReconcilerSettles, NoVerdict
<1>4. CASE Crash
  BY <1>4 DEF Crash, NoVerdict
<1>5. ASSUME \/ \E o \in Ops : \/ \E p \in Principals : Cancel(p, o)
                               \/ \E p \in Principals, c \in Requests : Submit(o, p, c)
                               \/ WriterCommits(o) \/ WriterRefused(o) \/ WriterFails(o)
                               \/ WorkerFinishes(o) \/ WorkerVanishes(o) \/ Expire(o)
             \/ Restart \/ UNCHANGED vars
      PROVE  verdict'[q] = verdict[q]
  BY <1>5 DEF Cancel, Submit, WriterCommits, WriterRefused, WriterFails, Reports,
              WorkerFinishes, WorkerVanishes, Expire, Restart, vars
<1> QED BY <1>2, <1>3, <1>4, <1>5 DEF Next

LEMMA WitnessInitially == Init => WitnessInv
BY DEF Init, OperationsInit, Exists, NoWorker, NoVerdict, WitnessInv

LEMMA WitnessStep == GeoInv /\ WitnessInv /\ [Next]_vars => WitnessInv'
<1> SUFFICES ASSUME GeoInv, WitnessInv, [Next]_vars PROVE WitnessInv'
  OBVIOUS
<1>1. ASSUME NEW q \in Ops
      PROVE  /\ Exists(q)' => Vouched(Cmd(q), operations[q].response)'
             /\ worker'[q].stage = "ran" => Vouched(Cmd(q), worker[q].result.response)'
             /\ verdict'[q].stage = "read" =>
                   Exists(q)' /\ Vouched(Cmd(q), verdict[q].result.response)'
  BY WitnessStays, ResponsesAreWritten, WorkersReportTruly, VerdictsAreRead
<1> QED BY <1>1 DEF WitnessInv, Vouched

\* The response of a finished Create or Update is a row the catalog really held, also
\* when the reconciler wrote it from a read that other operations have overtaken.
THEOREM SuccessesAreWitnessed == Spec => []SuccessIsWitnessed
<1>1. WitnessInv => SuccessIsWitnessed
  BY DEF WitnessInv, Vouched, SuccessIsWitnessed, Succeeded, Settled
<1> QED
  BY <1>1, WitnessInitially, WitnessStep, GeoInvariant, PTL DEF Spec

-----------------------------------------------------------------------------
(* What the events say of their operations.                                *)

\* Every event says what its operation was asked to do.
EventsFit ==
    \A i \in DOMAIN outbox :
        LET c == Cmd(outbox[i].op) IN
        /\ About(outbox[i], c.kind, c.id)
        /\ outbox[i].type = TypeOfEvent(c.verb)

\* The catalog changes only by the commit of an operation whose worker is queued.
LEMMA CatalogSteps ==
    ASSUME GeoInv, [Next]_vars
    PROVE  \/ UNCHANGED catalogVars
           \/ \E o \in Ops : /\ Scheduled(o) /\ Exists(o) /\ ~WrittenBy(o)
                             /\ CommitCmd(o) /\ UNCHANGED operations
<1>1. ASSUME NEW o \in Ops, WriterCommits(o) \/ WriterRefused(o) \/ WriterFails(o)
      PROVE  /\ Scheduled(o) /\ Exists(o) /\ ~WrittenBy(o) /\ UNCHANGED operations
             /\ UNCHANGED catalogVars \/ CommitCmd(o)
  <2>1. Scheduled(o) /\ UNCHANGED operations
    BY <1>1 DEF WriterCommits, WriterRefused, WriterFails, Reports
  <2>2. Exists(o) /\ ~WrittenBy(o)
    BY <2>1 DEF Scheduled, GeoInv, EffectInv, WorkersHaveRows, QueuedIsUnwritten
  <2> QED BY <1>1, <2>1, <2>2 DEF WriterCommits, WriterRefused, WriterFails
<1>2. ASSUME \/ \E o \in Ops : \/ \E p \in Principals : Cancel(p, o)
                               \/ \E p \in Principals, c \in Requests : Submit(o, p, c)
                               \/ WorkerFinishes(o) \/ WorkerVanishes(o) \/ Expire(o)
                               \/ ReconcilerReads(o) \/ ReconcilerSettles(o)
             \/ Crash \/ Restart \/ UNCHANGED vars
      PROVE  UNCHANGED catalogVars
  BY <1>2 DEF Cancel, Submit, WorkerFinishes, WorkerVanishes, Expire, ReconcilerReads,
              ReconcilerSettles, Crash, Restart, vars, catalogVars
<1> QED BY <1>1, <1>2 DEF Next

LEMMA TrailSteps ==
    ASSUME GeoInv, [Next]_vars
    PROVE  \/ UNCHANGED outbox
           \/ \E o \in Ops : /\ Scheduled(o) /\ Exists(o) /\ ~WrittenBy(o)
                             /\ CommitCmd(o) /\ UNCHANGED operations
BY CatalogSteps DEF catalogVars

\* Operations in the trail keep their commands.
LEMMA TrailCommands ==
    ASSUME GeoInv, [Next]_vars, NEW i \in DOMAIN outbox
    PROVE  /\ outbox[i].op \in Ops /\ Exists(outbox[i].op)
           /\ Cmd(outbox[i].op) \in Requests
           /\ operations'[outbox[i].op].metadata = operations[outbox[i].op].metadata
<1>1. outbox[i].op \in Ops
  <2>1. outbox[i] \in Event
    BY DEF GeoInv, BaseInv, TypeOK, CatalogTypeOK
  <2> QED BY <2>1 DEF Event
<1>2. Exists(outbox[i].op)
  BY DEF GeoInv, EffectInv, EventsHaveRows
<1>3. PICK q \in Ops : q = outbox[i].op
  BY <1>1
<1>4. operations'[q].metadata = operations[q].metadata
  BY <1>2, <1>3, RowsStay DEF Cmd
<1>5. Cmd(q) \in Requests
  BY <1>2, <1>3, CommandOfOperation DEF GeoInv, BaseInv, TypeOK
<1> QED BY <1>1, <1>2, <1>3, <1>4, <1>5

LEMMA EventsFitStep ==
    ASSUME GeoInv, EventsFit, [Next]_vars
    PROVE  EventsFit'
<1>1. CASE UNCHANGED outbox
  BY <1>1, TrailCommands DEF EventsFit, About, Cmd
<1>2. ASSUME NEW o \in Ops, Exists(o), CommitCmd(o), UNCHANGED operations
      PROVE  EventsFit'
  <2>1. PICK L \in Nat :
           /\ DOMAIN outbox = 1 .. L
           /\ DOMAIN outbox' = 1 .. (L + 1)
           /\ \A i \in 1 .. L : outbox'[i] = outbox[i]
           /\ outbox'[L + 1] = AuditEvent(Cmd(o), actorFromCtx(operations[o].owner), o)
    BY <1>2, CommitCmdWrites DEF GeoInv
  <2>2. ASSUME NEW i \in 1 .. L
        PROVE  /\ About(outbox'[i], Cmd(outbox'[i].op).kind, Cmd(outbox'[i].op).id)
               /\ outbox'[i].type = TypeOfEvent(Cmd(outbox'[i].op).verb)
    BY <2>1, <2>2 DEF EventsFit
  <2>3. /\ About(outbox'[L + 1], Cmd(o).kind, Cmd(o).id)
        /\ outbox'[L + 1].type = TypeOfEvent(Cmd(o).verb)
        /\ outbox'[L + 1].op = o
    BY <2>1 DEF AuditEvent, About
  <2>4. \A i \in DOMAIN outbox' : i \in 1 .. L \/ i = L + 1
    BY <2>1
  <2>5. \A q : operations'[q] = operations[q]
    BY <1>2
  <2>6. ASSUME NEW i \in DOMAIN outbox'
        PROVE  /\ About(outbox'[i], Cmd(outbox'[i].op).kind, Cmd(outbox'[i].op).id)
               /\ outbox'[i].type = TypeOfEvent(Cmd(outbox'[i].op).verb)
    BY <2>2, <2>3, <2>4
  <2> QED BY <1>2, <2>6 DEF EventsFit, About, Cmd
<1> QED BY <1>1, <1>2, TrailSteps

-----------------------------------------------------------------------------
(* Under the assumption that the grace period covers every worker: what     *)
(* settles an operation whose worker is alive is a Cancel.                  *)

Late(o) ==
    /\ o \in expired => Exists(o)
    /\ verdict[o].stage = "read" => Exists(o)
    /\ Alive(o) => /\ o \notin expired
                   /\ verdict[o].stage # "read"
                   /\ operations[o].error \in {Unset, "Canceled"}
                   /\ Settled(o) => operations[o].error = "Canceled"

LateInv == \A o \in Ops : Late(o)

\* Steps that leave the row alone and neither start a worker nor a verdict.
LEMMA LateStays ==
    ASSUME LateInv, NEW q \in Ops, operations'[q] = operations[q],
           Alive(q)' => Alive(q),
           q \in expired' => q \in expired,
           verdict'[q].stage = "read" => verdict[q].stage = "read"
    PROVE  Late(q)'
BY DEF LateInv, Late, Exists, Settled

\* A worker that is gone does not come back.
LEMMA GoneIsNotAlive ==
    /\ Queued.stage = "queued" /\ Gone.stage = "gone" /\ NoWorker.stage = "none"
    /\ NoVerdict.stage = "none"
    /\ \A r : Ran(r).stage = "ran" /\ Read(r).stage = "read"
BY DEF Queued, Gone, NoWorker, NoVerdict, Ran, Read

LEMMA LateSubmit ==
    ASSUME GeoInv, LateInv, NEW q \in Ops, NEW o \in Ops, NEW p \in Principals,
           NEW c \in Requests, Submit(o, p, c)
    PROVE  Late(q)'
<1>1. /\ operations'[q] = IF q = o THEN [owner |-> p, metadata |-> c, done |-> FALSE,
                                        error |-> Unset, response |-> Unset]
                                  ELSE operations[q]
      /\ worker'[q] = IF q = o THEN Queued ELSE worker[q]
      /\ ~Exists(o) /\ UNCHANGED <<verdict, expired>>
  BY DEF Submit, CreateOp, GeoInv, BaseInv, TypeOK, OperationsTypeOK
<1>2. CASE q # o
  BY <1>1, <1>2, LateStays DEF Alive
<1>3. CASE q = o
  <2>1. /\ operations'[q] \in OperationRow /\ ~operations'[q].done
        /\ operations'[q].error = Unset
    BY <1>1, <1>3 DEF OperationRow
  <2>2. Exists(q)' /\ ~Settled(q)'
    BY <2>1, GeoAssumption DEF Exists, Settled
  <2>3. q \notin expired' /\ verdict'[q].stage # "read"
    BY <1>1, <1>3 DEF LateInv, Late
  <2> QED BY <2>1, <2>2, <2>3 DEF Late
<1> QED BY <1>2, <1>3

LEMMA LateCancel ==
    ASSUME GeoInv, LateInv, NEW q \in Ops, NEW o \in Ops, NEW p \in Principals,
           Cancel(p, o)
    PROVE  Late(q)'
<1>1. OperationsTypeOK
  BY DEF GeoInv, BaseInv, TypeOK
<1>2. CASE q # o
  BY <1>1, <1>2, LateStays DEF Cancel, CancelRow, OperationsTypeOK, Alive
<1>3. CASE q = o
  <2>1. operations[q] \in OperationRow
    BY <1>1, <1>3 DEF Cancel, CancelRow, Cancellable, Running, Exists, OperationsTypeOK
  <2>2. operations'[q] = [operations[q] EXCEPT !.done = TRUE, !.error = "Canceled"]
    BY <1>1, <1>3 DEF Cancel, CancelRow, OperationsTypeOK
  <2>3. operations'[q] \in OperationRow /\ operations'[q].error = "Canceled"
    BY <2>1, <2>2 DEF OperationRow, ErrorCodes
  <2>4. Exists(q)'
    BY <2>3, GeoAssumption DEF Exists
  <2>5. UNCHANGED <<worker, verdict, expired>>
    BY DEF Cancel
  <2> QED BY <2>3, <2>4, <2>5 DEF LateInv, Late, Alive
<1> QED BY <1>2, <1>3

\* The terminal write of o's worker or of o's verdict: the worker is gone after it, or
\* was before.
LEMMA LateSettle ==
    ASSUME GeoInv, LateInv, [Next]_vars, NEW q \in Ops, NEW o \in Ops,
           WorkerFinishes(o) \/ ReconcilerSettles(o)
    PROVE  Late(q)'
<1>1. OperationsTypeOK /\ worker[o].result \in Result /\ verdict[o].result \in Result
      /\ worker \in [Ops -> Worker] /\ verdict \in [Ops -> Verdict]
  BY DEF GeoInv, BaseInv, TypeOK, Worker, Verdict
<1>2. /\ Alive(q)' => Alive(q)
      /\ verdict'[q].stage = "read" => verdict[q].stage = "read"
      /\ UNCHANGED expired
      /\ q = o => ~Alive(q)'
  <2>1. CASE WorkerFinishes(o)
    BY <1>1, <2>1, GoneIsNotAlive DEF WorkerFinishes, Alive
  <2>2. CASE ReconcilerSettles(o)
    BY <1>1, <2>2, GoneIsNotAlive DEF ReconcilerSettles, Alive, LateInv, Late
  <2> QED BY <2>1, <2>2
<1>3. q # o => operations'[q] = operations[q]
  BY <1>1, SettleChangesOneRow DEF WorkerFinishes, ReconcilerSettles
<1>4. CASE q # o
  BY <1>2, <1>3, <1>4, LateStays
<1>5. CASE q = o
  <2>1. Exists(q) => Exists(q)'
    BY RowsStay
  <2> QED BY <1>2, <1>5, <2>1 DEF LateInv, Late
<1> QED BY <1>4, <1>5

\* The reconciler takes up only what has expired, and only dead workers' operations do.
LEMMA LateReconciler ==
    ASSUME GraceCoversWorkers, GeoInv, LateInv, NEW q \in Ops, NEW o \in Ops,
           Expire(o) \/ ReconcilerReads(o)
    PROVE  Late(q)'
<1>1. verdict \in [Ops -> Verdict]
  BY DEF GeoInv, BaseInv, TypeOK
<1>2. UNCHANGED <<operations, worker>> /\ Exists(o) /\ ~Alive(o)
  BY DEF Expire, ReconcilerReads, Running, LateInv, Late
<1>3. CASE q # o
  <2>1. q \in expired' => q \in expired
    BY <1>3 DEF Expire, ReconcilerReads
  <2>2. verdict'[q] = verdict[q]
    BY <1>1, <1>3 DEF Expire, ReconcilerReads
  <2> QED BY <1>2, <2>1, <2>2, LateStays DEF Alive
<1>4. CASE q = o
  BY <1>2, <1>4 DEF Late, Exists, Alive
<1> QED BY <1>3, <1>4

LEMMA LateStep ==
    ASSUME GraceCoversWorkers, GeoInv, LateInv, [Next]_vars
    PROVE  LateInv'
<1> SUFFICES ASSUME NEW q \in Ops PROVE Late(q)'
  BY DEF LateInv
<1>1. worker \in [Ops -> Worker] /\ verdict \in [Ops -> Verdict]
  BY DEF GeoInv, BaseInv, TypeOK
<1>2. ASSUME NEW o \in Ops, WriterCommits(o) \/ WriterRefused(o) \/ WriterFails(o)
      PROVE  Late(q)'
  <2>1. PICK r : Reports(o, r) /\ Scheduled(o)
    BY <1>2 DEF WriterCommits, WriterRefused, WriterFails
  <2>2. Alive(q)' => Alive(q)
    BY <1>1, <2>1 DEF Reports, Scheduled, Alive
  <2> QED BY <2>1, <2>2, LateStays DEF Reports
<1>3. ASSUME NEW o \in Ops, WorkerVanishes(o)
      PROVE  Late(q)'
  <2>1. Alive(q)' => Alive(q)
    BY <1>1, <1>3, GoneIsNotAlive DEF WorkerVanishes, Alive
  <2> QED BY <1>3, <2>1, LateStays DEF WorkerVanishes
<1>4. CASE Crash
  <2>1. ~Alive(q)' /\ verdict'[q].stage # "read"
    BY <1>4, GoneIsNotAlive DEF Crash, Alive
  <2> QED BY <1>4, <2>1, LateStays DEF Crash
<1>5. CASE Restart \/ UNCHANGED vars
  BY <1>5, LateStays DEF Restart, vars, Alive
<1> QED
  BY <1>2, <1>3, <1>4, <1>5, LateSubmit, LateCancel, LateSettle, LateReconciler DEF Next

LEMMA LateInitially == Init => LateInv
BY DEF Init, NoWorker, NoVerdict, LateInv, Late, Alive

\* A new event of an operation comes from its live worker.
LEMMA EffectsAreAlive ==
    ASSUME GeoInv, [Next]_vars, NEW o \in Ops, ~WrittenBy(o), WrittenBy(o)'
    PROVE  Alive(o)
<1>1. CASE UNCHANGED outbox
  BY <1>1 DEF WrittenBy
<1>2. ASSUME NEW q \in Ops, Scheduled(q), Exists(q), CommitCmd(q)
      PROVE  Alive(o)
  <2>1. PICK L \in Nat :
           /\ DOMAIN outbox = 1 .. L
           /\ DOMAIN outbox' = 1 .. (L + 1)
           /\ \A i \in 1 .. L : outbox'[i] = outbox[i]
           /\ outbox'[L + 1] = AuditEvent(Cmd(q), actorFromCtx(operations[q].owner), q)
    BY <1>2, CommitCmdWrites DEF GeoInv
  <2>2. outbox'[L + 1].op = q
    BY <2>1 DEF AuditEvent
  <2>3. o = q
    BY <2>1, <2>2 DEF WrittenBy
  <2> QED BY <1>2, <2>3 DEF Alive, Scheduled
<1> QED BY <1>1, <1>2, TrailSteps

\* If the grace period covers every worker, an operation that changes the catalog after
\* it has settled was cancelled: no other outcome is overtaken by its own worker.
THEOREM OnlyCancelIsOvertaken ==
    ASSUME GraceCoversWorkers PROVE Spec => LateEffectMeansCancelled
<1>1. GeoInv /\ LateInv /\ [Next]_vars => LateInv'
  BY LateStep
<1>2. GeoInv /\ LateInv /\ [Next]_vars =>
         [\A o \in Ops : Settled(o) /\ ~WrittenBy(o) /\ WrittenBy(o)'
              => operations[o].error = "Canceled"]_vars
  BY EffectsAreAlive DEF LateInv, Late
<1> QED
  BY <1>1, <1>2, LateInitially, GeoInvariant, PTL DEF Spec, LateEffectMeansCancelled

-----------------------------------------------------------------------------
(* Under the same assumption, an operation that is the only one to name its *)
(* resource is told the truth about its Create.                             *)

\* What an outcome says about o's own event.
Truthful(o, error, response) ==
    /\ response # Unset => WrittenBy(o)
    /\ error = "Interrupted" => ~WrittenBy(o)

LoneCreate(o) == Exists(o) /\ Cmd(o).verb = "Create" /\ Alone(o)

LoneInv ==
    \A o \in Ops :
        /\ worker[o].stage = "ran" =>
              /\ worker[o].result.response # Unset => WrittenBy(o)
              /\ worker[o].result.error # "Interrupted"
        /\ LoneCreate(o) =>
              /\ Truthful(o, operations[o].error, operations[o].response)
              /\ verdict[o].stage = "read" =>
                    Truthful(o, verdict[o].result.error, verdict[o].result.response)

\* An operation that is alone has been alone since it was accepted.
LEMMA LoneBefore ==
    ASSUME GeoInv, [Next]_vars, NEW o \in Ops, Exists(o), LoneCreate(o)'
    PROVE  LoneCreate(o)
<1>1. Cmd(o)' = Cmd(o)
  BY RowsStay
<1>2. ASSUME NEW q \in Ops \ {o}, Exists(q)
      PROVE  <<Cmd(q).kind, Cmd(q).id>> # <<Cmd(o).kind, Cmd(o).id>>
  <2>1. Exists(q)' /\ Cmd(q)' = Cmd(q)
    BY <1>2, RowsStay
  <2> QED BY <1>1, <1>2, <2>1 DEF LoneCreate, Alone, Cmd
<1> QED BY <1>1, <1>2 DEF LoneCreate, Alone, Cmd

\* An outcome stays true unless the operation's own worker has still to act.
LEMMA TruthStays ==
    ASSUME GeoInv, [Next]_vars, NEW o \in Ops, NEW error, NEW response,
           Truthful(o, error, response), error = "Interrupted" => ~Alive(o)
    PROVE  Truthful(o, error, response)'
<1>1. WrittenBy(o) => WrittenBy(o)'
  BY TrailGrows DEF WrittenBy
<1>2. error = "Interrupted" /\ ~WrittenBy(o) => ~WrittenBy(o)'
  BY EffectsAreAlive
<1> QED BY <1>1, <1>2 DEF Truthful

\* What the resolver reads about a Create that is alone.
LEMMA LoneResolve ==
    ASSUME GeoInv, EventsFit, NEW o \in Ops, LoneCreate(o)
    PROVE  Truthful(o, Resolve(Cmd(o)).error, Resolve(Cmd(o)).response)
<1> DEFINE c == Cmd(o)
           Trail == {i \in DOMAIN outbox : About(outbox[i], c.kind, c.id)}
<1>1. c \in Requests /\ c.verb = "Create"
  BY CommandOfOperation DEF LoneCreate, GeoInv, BaseInv, TypeOK
<1>2. TrailSays(c.kind, c.id, Stored(c))
  BY <1>1, CommandKinds DEF Stored, GeoInv, BaseInv, CatalogInv, OutboxReflectsCatalog
<1>3. ASSUME NEW i \in DOMAIN outbox, About(outbox[i], c.kind, c.id)
      PROVE  outbox[i].op = o
  <2>1. outbox[i].op \in Ops /\ Exists(outbox[i].op)
    <3>1. outbox[i] \in Event
      BY DEF GeoInv, BaseInv, TypeOK, CatalogTypeOK
    <3> QED BY <3>1 DEF Event, GeoInv, EffectInv, EventsHaveRows
  <2>2. About(outbox[i], Cmd(outbox[i].op).kind, Cmd(outbox[i].op).id)
    BY DEF EventsFit
  <2>3. <<Cmd(outbox[i].op).kind, Cmd(outbox[i].op).id>> = <<c.kind, c.id>>
    BY <1>3, <2>2 DEF About
  <2> QED BY <2>1, <2>3 DEF LoneCreate, Alone
<1>4. CASE Stored(c) # Absent
  <2>1. PICK i \in DOMAIN outbox : About(outbox[i], c.kind, c.id)
    BY <1>2, <1>4 DEF TrailSays
  <2>2. WrittenBy(o)
    BY <1>3, <2>1 DEF WrittenBy
  <2>3. Resolve(c).error = Unset
    BY <1>1, <1>4 DEF Resolve, Success
  <2>4. Unset # "Interrupted"
    BY GeoAssumption DEF ErrorCodes
  <2> QED BY <2>2, <2>3, <2>4 DEF Truthful
<1>5. CASE Stored(c) = Absent
  <2>1. Resolve(c).response = Unset
    BY <1>1, <1>5 DEF Resolve, Failure
  <2>2. ASSUME NEW i \in DOMAIN outbox, outbox[i].op = o
        PROVE  FALSE
    <3>1. About(outbox[i], c.kind, c.id) /\ outbox[i].type = TypeOfEvent(c.verb)
      BY <2>2 DEF EventsFit
    <3>2. outbox[i].row # Absent
      BY <1>1, <3>1 DEF TypeOfEvent, GeoInv, BaseInv, CatalogInv, DeletesCarryNoRow
    <3>3. PICK j \in DOMAIN outbox : About(outbox[j], c.kind, c.id) /\ outbox[j].row = Absent
      BY <1>2, <1>5, <3>1 DEF TrailSays
    <3>4. i = j
      BY <1>3, <2>2, <3>3 DEF GeoInv, EffectInv, AtMostOneEffect
    <3> QED BY <3>2, <3>3, <3>4
  <2>3. ~WrittenBy(o)
    BY <2>2 DEF WrittenBy
  <2> QED BY <2>1, <2>3 DEF Truthful
<1> QED BY <1>4, <1>5

\* What a worker is about to report is true of its own event.
LEMMA ReportsAreOwn ==
    ASSUME GeoInv, [Next]_vars, NEW q \in Ops, worker'[q].stage = "ran"
    PROVE  \/ worker'[q] = worker[q]
           \/ /\ worker'[q].result.response # Unset => WrittenBy(q)'
              /\ worker'[q].result.error # "Interrupted"
<1>1. worker \in [Ops -> Worker]
  BY DEF GeoInv, BaseInv, TypeOK
<1>3. ASSUME NEW o \in Ops, NEW r, Reports(o, r), q = o
      PROVE  worker'[q].result = r
  BY <1>1, <1>3 DEF Reports, Ran
<1>4. ASSUME NEW o \in Ops, NEW r, Reports(o, r), q # o
      PROVE  worker'[q] = worker[q]
  BY <1>1, <1>4 DEF Reports
<1>5. ASSUME WriterCommits(q)
      PROVE  WrittenBy(q)' /\ worker'[q].result.error # "Interrupted"
  <2>1. Exists(q)
    BY <1>5 DEF WriterCommits, Scheduled, GeoInv, EffectInv, WorkersHaveRows
  <2>2. PICK L \in Nat :
           /\ DOMAIN outbox' = 1 .. (L + 1)
           /\ outbox'[L + 1] = AuditEvent(Cmd(q), actorFromCtx(operations[q].owner), q)
    BY <1>5, <2>1, CommitCmdWrites DEF WriterCommits, GeoInv
  <2>3. WrittenBy(q)'
    BY <2>2 DEF WrittenBy, AuditEvent
  <2>4. worker'[q].result.error = Unset
    BY <1>3, <1>5 DEF WriterCommits, Success
  <2>5. Unset # "Interrupted"
    BY GeoAssumption DEF ErrorCodes
  <2> QED BY <2>3, <2>4, <2>5
<1>6. ASSUME WriterRefused(q) \/ WriterFails(q)
      PROVE  worker'[q].result.response = Unset /\ worker'[q].result.error # "Interrupted"
  <2>1. PICK code \in Refusals \cup {"Internal", "Canceled"} : Reports(q, Failure(code))
    BY <1>6 DEF WriterRefused, WriterFails
  <2>2. worker'[q].result = Failure(code)
    BY <1>3, <2>1
  <2> QED BY <2>2 DEF Failure, Refusals
<1>7. \/ worker'[q] = worker[q]
      \/ WriterCommits(q) \/ WriterRefused(q) \/ WriterFails(q)
  <2>1. ASSUME NEW o \in Ops, WriterCommits(o) \/ WriterRefused(o) \/ WriterFails(o)
        PROVE  q = o \/ worker'[q] = worker[q]
    BY <1>4, <2>1 DEF WriterCommits, WriterRefused, WriterFails
  <2>2. ASSUME \/ \E o \in Ops : \/ \E p \in Principals : Cancel(p, o)
                                 \/ \E p \in Principals, c \in Requests : Submit(o, p, c)
                                 \/ WorkerFinishes(o) \/ WorkerVanishes(o) \/ Expire(o)
                                 \/ ReconcilerReads(o) \/ ReconcilerSettles(o)
               \/ Crash \/ Restart \/ UNCHANGED vars
        PROVE  worker'[q] = worker[q]
    <3>1. worker'[q] \in {worker[q], Queued, Gone}
      BY <1>1, <2>2 DEF Cancel, Submit, WorkerFinishes, WorkerVanishes, Expire,
                        ReconcilerReads, ReconcilerSettles, Crash, Restart, vars
    <3> QED BY <3>1, GoneIsNotAlive
  <2> QED BY <2>1, <2>2 DEF Next
<1> QED BY <1>5, <1>6, <1>7

LEMMA LoneWorker ==
    ASSUME GeoInv, LoneInv, [Next]_vars, NEW q \in Ops, worker'[q].stage = "ran"
    PROVE  /\ worker'[q].result.response # Unset => WrittenBy(q)'
           /\ worker'[q].result.error # "Interrupted"
<1>1. WrittenBy(q) => WrittenBy(q)'
  BY TrailGrows DEF WrittenBy
<1> QED BY <1>1, ReportsAreOwn DEF LoneInv

\* Where the outcome of a row comes from.
LEMMA OutcomesAreWritten ==
    ASSUME GeoInv, [Next]_vars, NEW q \in Ops, Exists(q)
    PROVE  \/ operations'[q] = operations[q]
           \/ /\ operations'[q].error = "Canceled"
              /\ operations'[q].response = operations[q].response
           \/ /\ worker[q].stage = "ran"
              /\ operations'[q].error = worker[q].result.error
              /\ operations'[q].response = worker[q].result.response
           \/ /\ verdict[q].stage = "read"
              /\ operations'[q].error = verdict[q].result.error
              /\ operations'[q].response = verdict[q].result.response
<1> DEFINE Sourced ==
           \/ operations'[q] = operations[q]
           \/ /\ operations'[q].error = "Canceled"
              /\ operations'[q].response = operations[q].response
           \/ /\ worker[q].stage = "ran"
              /\ operations'[q].error = worker[q].result.error
              /\ operations'[q].response = worker[q].result.response
           \/ /\ verdict[q].stage = "read"
              /\ operations'[q].error = verdict[q].result.error
              /\ operations'[q].response = verdict[q].result.response
<1>1. OperationsTypeOK
  BY DEF GeoInv, BaseInv, TypeOK
<1>2. ASSUME operations'[q] = operations[q] PROVE Sourced
  BY <1>2
<1>3. ASSUME NEW o \in Ops, NEW p \in Principals, NEW c \in Requests, Submit(o, p, c)
      PROVE  Sourced
  BY <1>1, <1>3 DEF Submit, CreateOp, OperationsTypeOK
<1>4. ASSUME NEW o \in Ops, NEW p \in Principals, Cancel(p, o)
      PROVE  Sourced
  <2>1. CASE q = o
    <3>1. operations[q] \in OperationRow
      BY <1>1 DEF Exists, OperationsTypeOK
    <3>2. operations'[q] = [operations[q] EXCEPT !.done = TRUE, !.error = "Canceled"]
      BY <1>1, <1>4, <2>1 DEF Cancel, CancelRow, OperationsTypeOK
    <3> QED BY <3>1, <3>2 DEF OperationRow
  <2>2. CASE q # o
    BY <1>1, <1>4, <2>2 DEF Cancel, CancelRow, OperationsTypeOK
  <2> QED BY <2>1, <2>2
<1>5. ASSUME NEW o \in Ops, NEW r \in Result, Settle(o, r.error, r.response),
             \/ worker[o].stage = "ran" /\ r = worker[o].result
             \/ verdict[o].stage = "read" /\ r = verdict[o].result
      PROVE  Sourced
  <2>1. operations'[q] # operations[q] =>
           q = o /\ operations'[q].error = r.error /\ operations'[q].response = r.response
    BY <1>1, <1>5, SettleChangesOneRow
  <2> QED BY <1>5, <2>1
<1>6. ASSUME NEW o \in Ops, WorkerFinishes(o) \/ ReconcilerSettles(o)
      PROVE  Sourced
  <2>1. worker[o].result \in Result /\ verdict[o].result \in Result
    BY DEF GeoInv, BaseInv, TypeOK, Worker, Verdict
  <2> HIDE DEF Sourced
  <2> QED BY <1>5, <1>6, <2>1 DEF WorkerFinishes, ReconcilerSettles
<1>7. Sourced
  <2> HIDE DEF Sourced
  <2> QED
    BY <1>2, <1>3, <1>4, <1>6
    DEF Next, WriterCommits, WriterRefused, WriterFails, Reports, WorkerVanishes, Expire,
        ReconcilerReads, Crash, Restart, vars
<1> QED BY <1>7

\* A fresh verdict is the resolver's answer.
LEMMA VerdictsAreResolved ==
    ASSUME GeoInv, [Next]_vars, NEW q \in Ops, verdict'[q].stage = "read"
    PROVE  \/ verdict'[q] = verdict[q]
           \/ /\ Exists(q) /\ verdict'[q].result = Resolve(Cmd(q))
              /\ q \in expired /\ UNCHANGED <<outbox, operations>>
<1>1. verdict \in [Ops -> Verdict]
  BY DEF GeoInv, BaseInv, TypeOK
<1>2. ASSUME NEW o \in Ops, ReconcilerReads(o)
      PROVE  \/ verdict'[q] = verdict[q]
             \/ /\ Exists(q) /\ verdict'[q].result = Resolve(Cmd(q))
                /\ q \in expired /\ UNCHANGED <<outbox, operations>>
  BY <1>1, <1>2 DEF ReconcilerReads, Running, Read, catalogVars
<1>3. ASSUME \/ \E o \in Ops : \/ \E p \in Principals : Cancel(p, o)
                               \/ \E p \in Principals, c \in Requests : Submit(o, p, c)
                               \/ WriterCommits(o) \/ WriterRefused(o) \/ WriterFails(o)
                               \/ WorkerFinishes(o) \/ WorkerVanishes(o) \/ Expire(o)
                               \/ ReconcilerSettles(o)
             \/ Crash \/ Restart \/ UNCHANGED vars
      PROVE  verdict'[q] = verdict[q]
  BY <1>1, <1>3, GoneIsNotAlive
  DEF Cancel, Submit, WriterCommits, WriterRefused, WriterFails, Reports, WorkerFinishes,
      WorkerVanishes, Expire, ReconcilerSettles, Crash, Restart, vars
<1> QED BY <1>2, <1>3 DEF Next

LEMMA LoneStep ==
    ASSUME GeoInv, EventsFit, LateInv, LoneInv, [Next]_vars
    PROVE  LoneInv'
<1> SUFFICES ASSUME NEW o \in Ops, LoneCreate(o)'
             PROVE  /\ Truthful(o, operations[o].error, operations[o].response)'
                    /\ verdict'[o].stage = "read" =>
                          Truthful(o, verdict[o].result.error, verdict[o].result.response)'
  BY LoneWorker DEF LoneInv
<1>1. ASSUME NEW error, NEW response, Truthful(o, error, response),
             error = "Interrupted" => ~Alive(o)
      PROVE  /\ response # Unset => WrittenBy(o)'
             /\ error = "Interrupted" => ~WrittenBy(o)'
  BY <1>1, TruthStays DEF Truthful
<1>2. CASE ~Exists(o)
  <2>1. ~WrittenBy(o) /\ ~Alive(o)
    BY <1>2 DEF GeoInv, EffectInv, EventsHaveRows, WorkersHaveRows, WrittenBy, Alive
  <2>2. ~WrittenBy(o)'
    BY <2>1, EffectsAreAlive
  <2>3. operations'[o].response = Unset
    BY <1>2, ResponsesAreWritten DEF LoneCreate
  <2>4. verdict'[o].stage # "read"
    BY <1>2, VerdictsAreResolved DEF LateInv, Late
  <2> QED BY <2>2, <2>3, <2>4 DEF Truthful
<1>3. CASE Exists(o)
  <2>1. LoneCreate(o)
    BY <1>3, LoneBefore
  <2>2. Truthful(o, operations[o].error, operations[o].response)'
    <3>1. /\ operations[o].response # Unset => WrittenBy(o)
          /\ operations[o].error = "Interrupted" => ~WrittenBy(o) /\ ~Alive(o)
      <4>1. Unset # "Interrupted"
        BY GeoAssumption DEF ErrorCodes
      <4> QED BY <2>1, <4>1 DEF LoneInv, LateInv, Late, Truthful
    <3>2. ASSUME NEW error, NEW response, Truthful(o, error, response),
                 error = "Interrupted" => ~Alive(o),
                 operations'[o].error = error, operations'[o].response = response
          PROVE  Truthful(o, operations[o].error, operations[o].response)'
      <4>1. /\ response # Unset => WrittenBy(o)'
            /\ error = "Interrupted" => ~WrittenBy(o)'
        BY <1>1, <3>2
      <4> QED BY <3>2, <4>1 DEF Truthful
    <3>3. CASE operations'[o] = operations[o]
      <4>1. Truthful(o, operations[o].error, operations[o].response)
        BY <3>1 DEF Truthful
      <4> QED BY <3>1, <3>2, <3>3, <4>1
    <3>4. CASE /\ operations'[o].error = "Canceled"
               /\ operations'[o].response = operations[o].response
      <4>1. Truthful(o, "Canceled", operations[o].response)
        BY <3>1 DEF Truthful
      <4> QED BY <3>2, <3>4, <4>1
    <3>5. CASE /\ worker[o].stage = "ran"
               /\ operations'[o].error = worker[o].result.error
               /\ operations'[o].response = worker[o].result.response
      <4>1. /\ Truthful(o, worker[o].result.error, worker[o].result.response)
            /\ worker[o].result.error # "Interrupted"
        BY <3>5 DEF LoneInv, Truthful
      <4> QED BY <3>2, <3>5, <4>1
    <3>6. CASE /\ verdict[o].stage = "read"
               /\ operations'[o].error = verdict[o].result.error
               /\ operations'[o].response = verdict[o].result.response
      <4>1. /\ Truthful(o, verdict[o].result.error, verdict[o].result.response)
            /\ ~Alive(o)
        BY <2>1, <3>6 DEF LoneInv, LateInv, Late
      <4> QED BY <3>2, <3>6, <4>1
    <3> QED BY <1>3, <3>3, <3>4, <3>5, <3>6, OutcomesAreWritten
  <2>3. ASSUME verdict'[o].stage = "read"
        PROVE  Truthful(o, verdict[o].result.error, verdict[o].result.response)'
    <3>1. CASE verdict'[o] = verdict[o]
      <4>1. /\ Truthful(o, verdict[o].result.error, verdict[o].result.response)
            /\ ~Alive(o)
        BY <2>1, <2>3, <3>1 DEF LoneInv, LateInv, Late
      <4> QED BY <1>1, <3>1, <4>1 DEF Truthful
    <3>2. CASE /\ verdict'[o].result = Resolve(Cmd(o))
               /\ UNCHANGED <<outbox, operations>>
      <4>1. Truthful(o, Resolve(Cmd(o)).error, Resolve(Cmd(o)).response)
        BY <2>1, LoneResolve
      <4> QED BY <3>2, <4>1 DEF Truthful, WrittenBy
    <3> QED BY <2>3, <3>1, <3>2, VerdictsAreResolved
  <2> QED BY <2>2, <2>3
<1> QED BY <1>2, <1>3

\* If the grace period covers every worker, an operation that nobody else's meets on its
\* resource tells the truth about its Create: success means that it wrote the row,
\* Interrupted that it never did and never will.
THEOREM LoneCreatesAreTruthful ==
    ASSUME GraceCoversWorkers PROVE Spec => []LoneCreateIsTruthful
<1>1. Init => EventsFit /\ LateInv /\ LoneInv
  <2>1. Init => EventsFit /\ LoneInv
    BY DEF Init, CatalogInit, OperationsInit, NoWorker, EventsFit, LoneInv, LoneCreate, Exists
  <2> QED BY <2>1, LateInitially
<1>2. GeoInv /\ EventsFit /\ LateInv /\ LoneInv /\ [Next]_vars
         => EventsFit' /\ LateInv' /\ LoneInv'
  BY EventsFitStep, LateStep, LoneStep
<1>3. LoneInv => LoneCreateIsTruthful
  BY DEF LoneInv, LoneCreate, Truthful, LoneCreateIsTruthful, Settled, Succeeded
<1> QED
  BY <1>1, <1>2, <1>3, GeoInvariant, PTL DEF Spec

-----------------------------------------------------------------------------
(* Who may report a success: the operation's own worker, or the reconciler  *)
(* about an operation older than the grace period.                          *)

OwnInv ==
    \A o \in Ops :
        /\ worker[o].stage = "ran" /\ worker[o].result.response # Unset => WrittenBy(o)
        /\ verdict[o].stage = "read" => o \in expired
        /\ Exists(o) /\ operations[o].response # Unset => WrittenBy(o) \/ o \in expired

\* What has expired stays expired.
LEMMA ExpiredStays ==
    ASSUME [Next]_vars PROVE expired \subseteq expired'
BY DEF Next, Submit, Cancel, WriterCommits, WriterRefused, WriterFails, Reports,
       WorkerFinishes, WorkerVanishes, Expire, ReconcilerReads, ReconcilerSettles,
       Crash, Restart, vars

LEMMA OwnStep ==
    ASSUME GeoInv, OwnInv, [Next]_vars
    PROVE  OwnInv'
<1> SUFFICES ASSUME NEW q \in Ops
             PROVE  /\ worker'[q].stage = "ran" /\ worker'[q].result.response # Unset
                          => WrittenBy(q)'
                    /\ verdict'[q].stage = "read" => q \in expired'
                    /\ Exists(q)' /\ operations'[q].response # Unset
                          => WrittenBy(q)' \/ q \in expired'
  BY DEF OwnInv
<1>1. /\ WrittenBy(q) => WrittenBy(q)'
      /\ q \in expired => q \in expired'
  BY TrailGrows, ExpiredStays DEF WrittenBy
<1>2. worker'[q].stage = "ran" /\ worker'[q].result.response # Unset => WrittenBy(q)'
  BY <1>1, ReportsAreOwn DEF OwnInv
<1>3. verdict'[q].stage = "read" => q \in expired'
  BY <1>1, VerdictsAreResolved DEF OwnInv
<1>4. ASSUME Exists(q)', operations'[q].response # Unset
      PROVE  WrittenBy(q) \/ q \in expired
  BY <1>4, ResponsesAreWritten DEF OwnInv
<1> QED BY <1>1, <1>2, <1>3, <1>4

LEMMA OwnInvariant == Spec => []OwnInv
<1>1. Init => OwnInv
  BY DEF Init, OperationsInit, NoWorker, NoVerdict, OwnInv, Exists
<1> QED BY <1>1, OwnStep, GeoInvariant, PTL DEF Spec

\* An operation that succeeded before the grace period was over has written its row
\* itself: only the reconciler guesses, and it waits.
THEOREM TimelySuccessIsOwn == Spec => []SuccessIsOwn
<1>1. OwnInv => SuccessIsOwn
  BY DEF OwnInv, SuccessIsOwn, Succeeded, Settled
<1> QED BY <1>1, OwnInvariant, PTL

\* Of two operations that both wrote the row of one Create, one did so after a delete.
LEMMA TwoCreatesOneDelete ==
    ASSUME GeoInv, EventsFit, NEW o \in Ops, NEW q \in Ops, o # q, CreateAlike(o, q),
           WrittenBy(o), WrittenBy(q)
    PROVE  WasDeleted(Cmd(o))
<1>1. PICK i \in DOMAIN outbox : outbox[i].op = o
  BY DEF WrittenBy
<1>2. PICK j \in DOMAIN outbox : outbox[j].op = q
  BY DEF WrittenBy
<1>3. /\ About(outbox[i], Cmd(o).kind, Cmd(o).id) /\ outbox[i].type = "CREATED"
      /\ About(outbox[j], Cmd(o).kind, Cmd(o).id) /\ outbox[j].type = "CREATED"
  BY <1>1, <1>2 DEF EventsFit, CreateAlike, TypeOfEvent
<1>4. i < j \/ j < i
  <2>1. DOMAIN outbox \subseteq Nat
    BY DEF GeoInv, BaseInv, TypeOK, CatalogTypeOK
  <2> QED BY <1>1, <1>2, <2>1
<1>5. \E k \in DOMAIN outbox :
         About(outbox[k], Cmd(o).kind, Cmd(o).id) /\ outbox[k].type = "DELETED"
  BY <1>3, <1>4 DEF GeoInv, BaseInv, CatalogInv, CreatesAreSeparated, About
<1> QED BY <1>5 DEF WasDeleted

\* A second Create of an id answers AlreadyExists until the first one's row is deleted,
\* for operations that settled within the grace period, whatever crashed meanwhile and
\* whatever the reconciler did to others.
THEOREM OneTimelyCreateWins == Spec => []TimelyCreateWins
<1>1. GeoInv /\ EventsFit /\ OwnInv => TimelyCreateWins
  <2> SUFFICES ASSUME GeoInv, EventsFit, OwnInv, NEW o \in Ops \ expired,
                      NEW q \in Ops \ expired, o # q, Succeeded(o), Succeeded(q),
                      CreateAlike(o, q)
               PROVE  WasDeleted(Cmd(o))
    BY DEF TimelyCreateWins
  <2>1. WrittenBy(o) /\ WrittenBy(q)
    BY DEF OwnInv, Succeeded, Settled
  <2> QED BY <2>1, TwoCreatesOneDelete
<1>2. Init => EventsFit
  BY DEF Init, CatalogInit, EventsFit
<1> QED
  BY <1>1, <1>2, EventsFitStep, OwnInvariant, GeoInvariant, PTL DEF Spec

-----------------------------------------------------------------------------
(* What the service is to its two stores: workers, Cancel, crashes and the  *)
(* reconciler amount to a sequence of writer transactions on the catalog,   *)
(* and to a sequence of statements on the operations table.                 *)

\* Every step of the service is one transaction of the catalog or leaves it alone.
THEOREM ServiceIsACatalog == Spec => CatalogSpec
<1>1. GeoInv /\ [Next]_vars => [CatalogNext]_catalogVars
  <2> SUFFICES ASSUME GeoInv, NEW o \in Ops, Exists(o), ~WrittenBy(o), CommitCmd(o)
               PROVE  CatalogNext
    BY CatalogSteps
  <2>1. Cmd(o) \in Requests /\ actorFromCtx(operations[o].owner) \in Actors
    BY CommandOfOperation DEF GeoInv, BaseInv, TypeOK
  <2> QED BY <2>1 DEF CatalogNext, CommitCmd
<1>2. Init => CatalogInit
  BY DEF Init
<1> QED BY <1>1, <1>2, GeoInvariant, PTL DEF Spec, CatalogSpec

\* A result is one outcome: an error or a response.
OneOutcome(r) == (r.error = Unset) # (r.response = Unset)

\* Nobody comes to the terminal write without an outcome, or with two.
DecidedInv ==
    \A o \in Ops :
        /\ worker[o].stage = "ran" => OneOutcome(worker[o].result)
        /\ verdict[o].stage = "read" => OneOutcome(verdict[o].result)

LEMMA OutcomesAreOne ==
    /\ \A code \in ErrorCodes : OneOutcome(Failure(code))
    /\ \A row \in RegionRow \cup ZoneRow \cup {Absent} : OneOutcome(Success(row))
BY GeoAssumption DEF OneOutcome, Failure, Success

\* A worker that has just run holds one outcome.
LEMMA ReportsAreDecided ==
    ASSUME GeoInv, [Next]_vars, NEW q \in Ops, worker'[q].stage = "ran"
    PROVE  worker'[q] = worker[q] \/ OneOutcome(worker'[q].result)
<1>1. worker \in [Ops -> Worker]
  BY DEF GeoInv, BaseInv, TypeOK
<1>2. ASSUME NEW o \in Ops, NEW r, Reports(o, r), OneOutcome(r)
      PROVE  worker'[q] = worker[q] \/ OneOutcome(worker'[q].result)
  <2>1. worker'[q] = worker[q] \/ worker'[q].result = r
    BY <1>1, <1>2 DEF Reports, Ran
  <2> QED BY <1>2, <2>1
<1>3. ASSUME NEW o \in Ops, WriterCommits(o)
      PROVE  worker'[q] = worker[q] \/ OneOutcome(worker'[q].result)
  <2>1. Exists(o) /\ Admissible(Cmd(o))
    BY <1>3 DEF WriterCommits, CommitCmd, Commit, Scheduled, GeoInv, EffectInv,
                WorkersHaveRows
  <2>2. OneOutcome(Success(Written(Cmd(o))))
    BY <2>1, WrittenIsARow, OutcomesAreOne DEF GeoInv
  <2> QED BY <1>2, <1>3, <2>2 DEF WriterCommits
<1>4. ASSUME NEW o \in Ops, WriterRefused(o) \/ WriterFails(o)
      PROVE  worker'[q] = worker[q] \/ OneOutcome(worker'[q].result)
  <2>1. PICK code \in ErrorCodes : Reports(o, Failure(code))
    BY <1>4 DEF WriterRefused, WriterFails, Refusals, ErrorCodes
  <2> QED BY <1>2, <2>1, OutcomesAreOne
<1>5. ASSUME \/ \E o \in Ops : \/ \E p \in Principals : Cancel(p, o)
                               \/ \E p \in Principals, c \in Requests : Submit(o, p, c)
                               \/ WorkerFinishes(o) \/ WorkerVanishes(o) \/ Expire(o)
                               \/ ReconcilerReads(o) \/ ReconcilerSettles(o)
             \/ Crash \/ Restart \/ UNCHANGED vars
      PROVE  worker'[q] = worker[q]
  <2>1. worker'[q] \in {worker[q], Queued, Gone}
    BY <1>1, <1>5 DEF Cancel, Submit, WorkerFinishes, WorkerVanishes, Expire,
                      ReconcilerReads, ReconcilerSettles, Crash, Restart, vars
  <2> QED BY <2>1, GoneIsNotAlive
<1> QED BY <1>3, <1>4, <1>5 DEF Next

\* So does the resolver's answer.
LEMMA ResolveIsOne ==
    ASSUME BaseInv, NEW c \in Requests PROVE OneOutcome(Resolve(c))
<1>1. Stored(c) \in RegionRow \cup ZoneRow \cup {Absent}
  BY CommandKinds DEF Stored, BaseInv, TypeOK, CatalogTypeOK
<1>2. "Interrupted" \in ErrorCodes
  BY DEF ErrorCodes
<1> QED BY <1>1, <1>2, OutcomesAreOne DEF Resolve

LEMMA DecidedStep ==
    ASSUME GeoInv, DecidedInv, [Next]_vars
    PROVE  DecidedInv'
<1> SUFFICES ASSUME NEW q \in Ops
             PROVE  /\ worker'[q].stage = "ran" => OneOutcome(worker'[q].result)
                    /\ verdict'[q].stage = "read" => OneOutcome(verdict'[q].result)
  BY DEF DecidedInv, OneOutcome
<1>1. worker'[q].stage = "ran" => OneOutcome(worker'[q].result)
  BY ReportsAreDecided DEF DecidedInv
<1>2. Exists(q) => OneOutcome(Resolve(Cmd(q)))
  BY ResolveIsOne, CommandOfOperation DEF GeoInv, BaseInv, TypeOK
<1>3. verdict'[q].stage = "read" => OneOutcome(verdict'[q].result)
  BY <1>2, VerdictsAreResolved DEF DecidedInv
<1> QED BY <1>1, <1>3

LEMMA DecidedInvariant == Spec => []DecidedInv
<1>1. Init => DecidedInv
  BY DEF Init, NoWorker, NoVerdict, DecidedInv
<1> QED BY <1>1, DecidedStep, GeoInvariant, PTL DEF Spec

\* A terminal write with one outcome is MarkDone or MarkError.
LEMMA SettlingIsATableStep ==
    ASSUME NEW o \in Ops, NEW r \in Result, OneOutcome(r), Settle(o, r.error, r.response)
    PROVE  TableNext
<1>1. CASE r.error = Unset
  BY <1>1 DEF TableNext, OneOutcome, Result
<1>2. CASE r.error # Unset
  BY <1>2 DEF TableNext, OneOutcome, Result
<1> QED BY <1>1, <1>2

\* Every step of the service is one statement on the operations table or leaves it
\* alone: OperationService, which lets such statements happen at any moment, leaves
\* nothing out that the workers and the reconciler do.
THEOREM ServiceIsATable == Spec => TableSpec
<1>1. GeoInv /\ DecidedInv /\ [Next]_vars => [TableNext]_operations
  <2> SUFFICES ASSUME GeoInv, DecidedInv, [Next]_vars
               PROVE  TableNext \/ UNCHANGED operations
    OBVIOUS
  <2>1. ASSUME NEW o \in Ops, NEW p \in Principals, NEW c \in Requests, Submit(o, p, c)
        PROVE  TableNext
    BY <2>1 DEF Submit, TableNext
  <2>2. ASSUME NEW o \in Ops, NEW p \in Principals, Cancel(p, o)
        PROVE  TableNext
    BY <2>2 DEF Cancel, TableNext
  <2>3. ASSUME NEW o \in Ops, WorkerFinishes(o)
        PROVE  TableNext
    <3>1. worker[o].result \in Result /\ OneOutcome(worker[o].result)
      BY <2>3 DEF WorkerFinishes, DecidedInv, GeoInv, BaseInv, TypeOK, Worker
    <3> QED BY <2>3, <3>1, SettlingIsATableStep DEF WorkerFinishes
  <2>4. ASSUME NEW o \in Ops, ReconcilerSettles(o)
        PROVE  TableNext
    <3>1. verdict[o].result \in Result /\ OneOutcome(verdict[o].result)
      BY <2>4 DEF ReconcilerSettles, DecidedInv, GeoInv, BaseInv, TypeOK, Verdict
    <3> QED BY <2>4, <3>1, SettlingIsATableStep DEF ReconcilerSettles
  <2> QED
    BY <2>1, <2>2, <2>3, <2>4
    DEF Next, WriterCommits, WriterRefused, WriterFails, Reports, WorkerVanishes, Expire,
        ReconcilerReads, Crash, Restart, vars
<1>2. Init => OperationsInit
  BY DEF Init
<1> QED BY <1>1, <1>2, DecidedInvariant, GeoInvariant, PTL DEF Spec, TableSpec

\* What a statement on the table does to a row: insert it without an outcome, give it
\* one outcome for good, or nothing.
LEMMA StatementOnARow ==
    ASSUME OperationsTypeOK, ExactlyOneResult, TableNext, NEW q \in Ops
    PROVE  \/ operations'[q] = operations[q]
           \/ /\ ~Exists(q) /\ Exists(q)' /\ ~operations'[q].done
              /\ operations'[q].error = Unset /\ operations'[q].response = Unset
           \/ /\ Running(q) /\ Exists(q)' /\ operations'[q].done
              /\ OneOutcome(operations'[q])
              /\ operations'[q].owner = operations[q].owner
              /\ operations'[q].metadata = operations[q].metadata
<1> DEFINE Inserted ==
              /\ ~Exists(q) /\ Exists(q)' /\ ~operations'[q].done
              /\ operations'[q].error = Unset /\ operations'[q].response = Unset
           Ended ==
              /\ Running(q) /\ Exists(q)' /\ operations'[q].done
              /\ OneOutcome(operations'[q])
              /\ operations'[q].owner = operations[q].owner
              /\ operations'[q].metadata = operations[q].metadata
<1>1. Running(q) => operations[q] \in OperationRow
  BY DEF Running, Exists, OperationsTypeOK
<1>2. ASSUME NEW o \in Ops, NEW p \in Principals, NEW c \in Requests, CreateOp(o, p, c)
      PROVE  operations'[q] = operations[q] \/ Inserted
  <2>1. CASE q = o
    <3>1. ~Exists(q) /\ operations'[q] = [owner |-> p, metadata |-> c, done |-> FALSE,
                                          error |-> Unset, response |-> Unset]
      BY <1>2, <2>1 DEF CreateOp, OperationsTypeOK
    <3>2. operations'[q] \in OperationRow
      BY <3>1 DEF OperationRow
    <3>3. Exists(q)'
      BY <3>2, GeoAssumption DEF Exists
    <3>4. /\ ~operations'[q].done
          /\ operations'[q].error = Unset /\ operations'[q].response = Unset
      BY <3>1
    <3> QED BY <3>1, <3>3, <3>4
  <2>2. CASE q # o
    BY <1>2, <2>2 DEF CreateOp, OperationsTypeOK
  <2> QED BY <2>1, <2>2
<1>3. ASSUME NEW o \in Ops, NEW r \in Result, OneOutcome(r), Settle(o, r.error, r.response)
      PROVE  operations'[q] = operations[q] \/ Ended
  <2>1. /\ operations'[q].owner = operations[q].owner
        /\ operations'[q].metadata = operations[q].metadata
        /\ Exists(q) => Exists(q)'
        /\ operations'[q] # operations[q] =>
              q = o /\ Running(o) /\ operations'[q].error = r.error
              /\ operations'[q].response = r.response /\ operations'[q].done
    BY <1>3, SettleChangesOneRow
  <2> QED BY <1>3, <2>1 DEF OneOutcome, Running
<1>4. ASSUME NEW o \in Ops, NEW p \in Principals, CancelRow(o, p)
      PROVE  operations'[q] = operations[q] \/ Ended
  <2>1. CASE q = o
    <3>1. Running(q) /\ operations[q].response = Unset
      BY <1>4, <2>1 DEF CancelRow, Cancellable, Running, ExactlyOneResult
    <3>2. operations'[q] = [operations[q] EXCEPT !.done = TRUE, !.error = "Canceled"]
      BY <1>4, <2>1 DEF CancelRow, OperationsTypeOK
    <3>3. /\ operations'[q] \in OperationRow /\ operations'[q].done
          /\ operations'[q].error = "Canceled" /\ operations'[q].response = Unset
          /\ operations'[q].owner = operations[q].owner
          /\ operations'[q].metadata = operations[q].metadata
      BY <1>1, <3>1, <3>2 DEF OperationRow, ErrorCodes
    <3>4. Exists(q)' /\ "Canceled" # Unset
      BY <3>3, GeoAssumption DEF Exists, ErrorCodes
    <3> QED BY <3>1, <3>3, <3>4 DEF OneOutcome
  <2>2. CASE q # o
    BY <1>4, <2>2 DEF CancelRow, OperationsTypeOK
  <2> QED BY <2>1, <2>2
<1>5. ASSUME NEW o \in Ops, NEW answer \in RegionRow \cup ZoneRow \cup {Absent},
             Settle(o, Unset, answer)
      PROVE  operations'[q] = operations[q] \/ Ended
  <2>1. Success(answer) \in Result /\ OneOutcome(Success(answer))
    BY Outcomes, OutcomesAreOne
  <2>2. Success(answer).error = Unset /\ Success(answer).response = answer
    BY DEF Success
  <2> QED BY <1>3, <1>5, <2>1, <2>2
<1>6. ASSUME NEW o \in Ops, NEW code \in ErrorCodes, Settle(o, code, Unset)
      PROVE  operations'[q] = operations[q] \/ Ended
  <2>1. Failure(code) \in Result /\ OneOutcome(Failure(code))
    BY Outcomes, OutcomesAreOne
  <2>2. Failure(code).error = code /\ Failure(code).response = Unset
    BY DEF Failure
  <2> QED BY <1>3, <1>6, <2>1, <2>2
<1> QED BY <1>2, <1>4, <1>5, <1>6 DEF TableNext

\* Whoever settles an operation, and whatever raced to do so, its row has one result.
LEMMA ResultsStayUnique ==
    ASSUME OperationsTypeOK, ExactlyOneResult, [TableNext]_operations
    PROVE  ExactlyOneResult'
<1>1. CASE UNCHANGED operations
  BY <1>1 DEF ExactlyOneResult, Exists
<1>2. CASE TableNext
  <2> SUFFICES ASSUME NEW q \in Ops, Exists(q)'
               PROVE  IF operations'[q].done
                      THEN OneOutcome(operations'[q])
                      ELSE operations'[q].error = Unset /\ operations'[q].response = Unset
    BY DEF ExactlyOneResult, OneOutcome
  <2>1. CASE operations'[q] = operations[q]
    BY <2>1 DEF ExactlyOneResult, Exists, OneOutcome
  <2> QED BY <1>2, <2>1, StatementOnARow
<1> QED BY <1>1, <1>2

\* Operation.result is a oneof: nothing before done, one outcome after it, whether the
\* worker, Cancel or the reconciler came first.
THEOREM ServiceResultsAreUnique == Spec => []ExactlyOneResult
<1>1. OperationsInit => ExactlyOneResult
  BY DEF OperationsInit, ExactlyOneResult, Exists
<1>2. GeoInv => OperationsTypeOK
  BY DEF GeoInv, BaseInv, TypeOK
<1> QED
  BY <1>1, <1>2, ResultsStayUnique, ServiceIsATable, GeoInvariant, PTL DEF TableSpec

\* A settled row never changes again and no row is handed on: neither a late worker nor
\* the reconciler nor a restart rewrites an outcome.
THEOREM ServiceSettlesForever == Spec => SettledForever
<1> DEFINE Kept == \A o \in Ops :
              /\ Exists(o) => operations'[o] # Absent
              /\ Settled(o) => operations'[o] = operations[o]
              /\ Exists(o) => /\ operations'[o].owner = operations[o].owner
                              /\ operations'[o].metadata = operations[o].metadata
<1>1. OperationsTypeOK /\ ExactlyOneResult /\ [TableNext]_operations => [Kept]_operations
  <2> SUFFICES ASSUME OperationsTypeOK, ExactlyOneResult, TableNext, NEW q \in Ops
               PROVE  /\ Exists(q) => operations'[q] # Absent
                      /\ Settled(q) => operations'[q] = operations[q]
                      /\ Exists(q) => /\ operations'[q].owner = operations[q].owner
                                      /\ operations'[q].metadata = operations[q].metadata
    OBVIOUS
  <2> QED BY StatementOnARow DEF Exists, Settled, Running
<1>2. GeoInv => OperationsTypeOK
  BY DEF GeoInv, BaseInv, TypeOK
<1> QED
  BY <1>1, <1>2, ServiceResultsAreUnique, ServiceIsATable, GeoInvariant, PTL
  DEF TableSpec, SettledForever

===============================================================================
