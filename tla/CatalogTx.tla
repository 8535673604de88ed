------------------------------ MODULE CatalogTx ------------------------------
(***************************************************************************)
(* The writer transactions of internal/repo/kacho/pg, step by step, as     *)
(* PostgreSQL runs them at READ COMMITTED: pgx.BeginFunc, one statement,   *)
(* the foreign-key check the statement triggers, outbox.Emit, COMMIT.      *)
(* Catalog has each of them as one step; here other transactions run in    *)
(* between, and what keeps them apart is the row locks:                    *)
(*                                                                         *)
(*   INSERT   waits for whoever has an uncommitted version of its key;     *)
(*   UPDATE   takes FOR NO KEY UPDATE on the row it found;                 *)
(*   DELETE   takes FOR UPDATE, which excludes KEY SHARE as well;          *)
(*   the foreign key's check takes FOR KEY SHARE on the region named.      *)
(*                                                                         *)
(* regions, zones and outbox are the committed tables.  What a transaction *)
(* has not committed is in its own fields below.  An operation runs one    *)
(* transaction; its command and actor are fixed when it is accepted.       *)
(***************************************************************************)
EXTENDS Catalog

VARIABLES
    cmd,        \* Ops -> the command of the operation
    actor,      \* Ops -> the audit field `actor' of its worker
    stage,      \* Ops -> how far the transaction is
    seen,       \* Ops -> whether the last snapshot showed the row it looks for
    row,        \* Ops -> the row version the statement wrote
    sequence,   \* last value drawn from geo_outbox_sequence_no_seq
    drawn,      \* Ops -> the sequence_no of its outbox row
    numbers,    \* the sequence_no of each row of outbox
    could       \* history: Ops -> the refusals that were true while it ran

txVars == <<cmd, actor, stage, seen, row, sequence, drawn, numbers, could>>
vars == <<catalogVars, txVars>>

Writing == {"written", "checking", "checked", "emitted"}
Running == {"statement"} \cup Writing
Ended == {"committed", "failed"} \cup Refusals
Stages == {"idle"} \cup Running \cup Ended

\* A zone row of any region id: the statement writes before the check.
RowVersion == RegionRow \cup {Absent}
    \cup [region : RegionIds \cup {NoRegion}, name : Names, status : Status]

TxTypeOK ==
    /\ CatalogTypeOK
    /\ cmd \in [Ops -> Requests]
    /\ actor \in [Ops -> Actors]
    /\ stage \in [Ops -> Stages]
    /\ seen \in [Ops -> BOOLEAN]
    /\ row \in [Ops -> RowVersion]
    /\ sequence \in Nat
    /\ drawn \in [Ops -> Nat]
    /\ numbers \in Seq(Nat)
    /\ could \in [Ops -> SUBSET Refusals]

TxInit ==
    /\ CatalogInit
    /\ cmd \in [Ops -> Requests]
    /\ actor \in [Ops -> Actors]
    /\ stage = [o \in Ops |-> "idle"]
    /\ seen = [o \in Ops |-> FALSE]
    /\ row = [o \in Ops |-> Absent]
    /\ sequence = 0
    /\ drawn = [o \in Ops |-> 0]
    /\ numbers = <<>>
    /\ could = [o \in Ops |-> {}]

-----------------------------------------------------------------------------
(* Locks.                                                                  *)

Does(o, kind, verb) == cmd[o].kind = kind /\ cmd[o].verb = verb

SameRow(o, p) == cmd[o].kind = cmd[p].kind /\ cmd[o].id = cmd[p].id

\* o has a version of its row that is not committed, and so the row's lock.
Holds(o) == stage[o] \in Writing

DeletesRegion(o, r) == Does(o, "Region", "Delete") /\ cmd[o].id = r

\* Mutant: a zone Delete locks its region as well, after its row.
ChecksParentAlways(o) == cmd[o].kind = "Zone"

\* The foreign key is checked for a new zone, and for an update that changes
\* region_id from what the row it updates has.
ChecksParent(o) ==
    \/ Does(o, "Zone", "Create")
    \/ Does(o, "Zone", "Update") /\ row[o].region # zones[cmd[o].id].region

\* The region whose row the check locks.  (A Delete has none; see the mutant.)
Parent(o) ==
    IF Does(o, "Zone", "Delete") THEN zones[cmd[o].id].region ELSE row[o].region

\* Mutant: the region is looked up with a plain SELECT, which locks nothing.
NoKeyShare(o, r) == FALSE

HoldsKeyShare(o, r) ==
    stage[o] \in {"checked", "emitted"} /\ ChecksParent(o) /\ Parent(o) = r

\* Mutant: an Update reads its row and writes it back without the lock, so two of them
\* compute their versions from one and the same row.
UpdatesUnlocked(o, p) ==
    /\ stage[o] = "statement" /\ (cmd[o].verb = "Create" \/ seen[o])
    /\ SameRow(o, p) /\ Holds(p) /\ {cmd[o].verb, cmd[p].verb} # {"Update"}

\* o's statement wants a row that p has changed and not committed.
WaitsForRow(o, p) ==
    /\ stage[o] = "statement" /\ (cmd[o].verb = "Create" \/ seen[o])
    /\ SameRow(o, p) /\ Holds(p)

\* o deletes a region that zone writer p has checked its zone against.
WaitsForKeyShare(o, p) ==
    /\ stage[o] = "statement" /\ seen[o]
    /\ \E r \in RegionIds : DeletesRegion(o, r) /\ HoldsKeyShare(p, r)

\* o checks its zone against a region that p is deleting.
WaitsForParent(o, p) ==
    /\ stage[o] = "checking" /\ seen[o]
    /\ Holds(p) /\ DeletesRegion(p, Parent(o))

\* o deletes a region with a zone that p is deleting.
WaitsForChild(o, p) ==
    /\ stage[o] = "written" /\ Holds(p) /\ Does(p, "Zone", "Delete")
    /\ DeletesRegion(o, zones[cmd[p].id].region)

WaitsFor(o, p) ==
    /\ o # p
    /\ \/ WaitsForRow(o, p) \/ WaitsForKeyShare(o, p)
       \/ WaitsForParent(o, p) \/ WaitsForChild(o, p)

Blocked(o) == \E p \in Ops : WaitsFor(o, p)

-----------------------------------------------------------------------------
(* Steps of a transaction.                                                 *)

\* The refusals that the committed catalog would justify.
TrueRefusals(c) == {code \in Refusals : Refused(c, code)}

End(o, how) ==
    /\ stage' = [stage EXCEPT ![o] = how]
    /\ UNCHANGED <<catalogVars, cmd, actor, seen, row, sequence, drawn, numbers,
                   could>>

\* BEGIN, and the snapshot the statement starts with.
Begin(o) ==
    /\ stage[o] = "idle"
    /\ stage' = [stage EXCEPT ![o] = "statement"]
    /\ seen' = [seen EXCEPT ![o] = Stored(cmd[o]) # Absent]
    /\ could' = [could EXCEPT ![o] = TrueRefusals(cmd[o])]
    /\ UNCHANGED <<catalogVars, cmd, actor, row, sequence, drawn, numbers>>

\* The row version a statement leaves, from the newest committed one: having
\* waited, PostgreSQL evaluates COALESCE on the row as it is now.
NewVersion(o) == Written(cmd[o])

\* The statement has no row to insert, update or delete.
Misses(o) == IF cmd[o].verb = "Create" THEN Stored(cmd[o]) # Absent ELSE ~seen[o]

\* INSERT, UPDATE or DELETE on the row of the command, once nobody is in the way.
Statement(o) ==
    /\ stage[o] = "statement" /\ ~Blocked(o) /\ ~Misses(o)
    /\ stage' = [stage EXCEPT ![o] = "written"]
    /\ row' = [row EXCEPT ![o] = NewVersion(o)]
    /\ UNCHANGED <<catalogVars, cmd, actor, seen, sequence, drawn, numbers, could>>

\* The key is taken (23505) or no row is affected; BeginFunc rolls back.
StatementRefused(o) ==
    /\ stage[o] = "statement" /\ ~Blocked(o) /\ Misses(o)
    /\ End(o, IF cmd[o].verb = "Create" THEN "AlreadyExists" ELSE "NotFound")

\* The check of the new row's region starts with a snapshot of its own: a region
\* that is not committed yet is not there.
LookUpRegion(o) ==
    /\ stage[o] = "written" /\ ChecksParent(o)
    /\ stage' = [stage EXCEPT ![o] = "checking"]
    /\ seen' = [seen EXCEPT ![o] = ~MissingRegion(cmd[o])]
    /\ UNCHANGED <<catalogVars, cmd, actor, row, sequence, drawn, numbers, could>>

\* Mutant: FOR KEY SHARE NOWAIT, a locked region taken for a missing one.
LockRegionNowait(o) ==
    /\ stage[o] = "checking"
    /\ End(o, IF seen[o] /\ ~Blocked(o) THEN "checked" ELSE "FailedPrecondition")

LockRegion(o) ==
    /\ stage[o] = "checking" /\ ~Blocked(o)
    /\ End(o, IF seen[o] THEN "checked" ELSE "FailedPrecondition")

\* ON DELETE RESTRICT: a zone of the region that nobody is deleting refuses it,
\* even one that an open transaction moves away; if all are being deleted the
\* check waits for them.
RestrictRegion(o) ==
    /\ stage[o] = "written" /\ Does(o, "Region", "Delete")
    /\ IF RegionInUse(cmd[o])
       THEN /\ \E z \in ZoneIds :
                  /\ zones[z] # Absent /\ zones[z].region = cmd[o].id
                  /\ \A p \in Ops : ~(Holds(p) /\ Does(p, "Zone", "Delete")
                                                /\ cmd[p].id = z)
            /\ End(o, "FailedPrecondition")
       ELSE End(o, "checked")

\* The statement is through and its foreign keys hold.
MayEmit(o) ==
    \/ stage[o] = "checked"
    \/ stage[o] = "written" /\ ~ChecksParent(o) /\ ~Does(o, "Region", "Delete")

\* Mutant: the sequence has a CACHE, so that a session may still hold a number that
\* is lower than the last one used.
DrawCached(o) ==
    \E n \in 1..(sequence + 2) :
        /\ \A p \in Ops : drawn[p] # n
        /\ drawn' = [drawn EXCEPT ![o] = n]
        /\ sequence' = IF n > sequence THEN n ELSE sequence

\* nextval: no rollback returns the number.
Draw(o) ==
    /\ sequence' = sequence + 1
    /\ drawn' = [drawn EXCEPT ![o] = sequence + 1]

\* outbox.Emit: the INSERT into geo_outbox takes the next sequence_no.
EmitEvent(o) ==
    /\ MayEmit(o)
    /\ stage' = [stage EXCEPT ![o] = "emitted"]
    /\ Draw(o)
    /\ UNCHANGED <<catalogVars, cmd, actor, seen, row, numbers, could>>

\* The row that p is looking for is deleted by o's commit.  If the key is used
\* again later, that is another row, which p's snapshot does not show.
Vanishes(o, p) ==
    /\ cmd[o].verb = "Delete"
    /\ \/ stage[p] = "statement" /\ SameRow(o, p)
       \/ stage[p] = "checking" /\ DeletesRegion(o, Parent(p))

CommitTx(o) ==
    /\ stage[o] = "emitted"
    /\ \/ /\ cmd[o].kind = "Region"
          /\ regions' = [regions EXCEPT ![cmd[o].id] = row[o]]
          /\ UNCHANGED zones
       \/ /\ cmd[o].kind = "Zone"
          /\ zones' = [zones EXCEPT ![cmd[o].id] = row[o]]
          /\ UNCHANGED regions
    /\ outbox' = Append(outbox, [AuditEvent(cmd[o], actor[o], o)
                                    EXCEPT !.row = row[o]])
    /\ numbers' = Append(numbers, drawn[o])
    /\ stage' = [stage EXCEPT ![o] = "committed"]
    /\ seen' = [p \in Ops |-> seen[p] /\ ~Vanishes(o, p)]
    /\ UNCHANGED <<cmd, actor, row, sequence, drawn>>
    /\ could' = [p \in Ops |-> IF stage[p] \in Running
                               THEN could[p] \cup TrueRefusals(cmd[p])'
                               ELSE could[p]]

\* The context is cancelled, the connection breaks, the process dies, or the
\* server finds a deadlock: BeginFunc rolls back.
Fail(o) == stage[o] \in Running /\ End(o, "failed")

Proceed(o) ==
    \/ Statement(o) \/ StatementRefused(o)
    \/ LookUpRegion(o) \/ LockRegion(o) \/ RestrictRegion(o)
    \/ EmitEvent(o) \/ CommitTx(o)

TxNext == \E o \in Ops : Begin(o) \/ Proceed(o) \/ Fail(o)

TxSpec == TxInit /\ [][TxNext]_vars

\* The server runs a statement that is not waiting, and the worker goes on to the
\* next one.
FairTxSpec == TxSpec /\ \A o \in Ops : WF_vars(Proceed(o))

-----------------------------------------------------------------------------
(* Properties.                                                             *)

\* A refusal tells the truth: the state the caller is told about (key taken, no
\* such row, region missing or in use) was the committed one at some moment of
\* the transaction, never what another transaction had begun and not committed.
RefusalsAreTrue ==
    \A o \in Ops : stage[o] \in Refusals => stage[o] \in could[o]

\* No lost update: an Update leaves the columns its request omits as the event before it
\* about the zone left them, whatever other Update of the zone was open meanwhile.
OmittedFieldsKept ==
    \A i, j \in DOMAIN outbox :
        LET c == cmd[outbox[j].op]
            before == outbox[i].row
            after == outbox[j].row
        IN  Consecutive(i, j) /\ c.kind = "Zone" /\ c.verb = "Update" =>
                /\ c.region = NoRegion => after.region = before.region
                /\ c.name = NoName => after.name = before.name
                /\ c.status = Unspecified => after.status = before.status

\* Sequence numbers follow the commits of one resource, although those of
\* different resources may be out of order and failed transactions leave gaps:
\* Emit comes after the statement that locks the row.
SequenceOrdersEachResource ==
    \A i, j \in DOMAIN outbox :
        i < j /\ About(outbox[j], outbox[i].kind, outbox[i].id)
            => numbers[i] < numbers[j]

\* The row of a resource after the events numbered up to n, in that order.
ReplayedUpTo(n, kind, id, r) ==
    LET trail == {i \in DOMAIN outbox :
                      numbers[i] <= n /\ About(outbox[i], kind, id)}
    IN  \/ trail = {} /\ r = Absent
        \/ \E i \in trail : /\ outbox[i].row = r
                            /\ \A j \in trail : numbers[j] <= numbers[i]

\* A reader that applies geo_outbox in the order of sequence_no never meets a zone
\* before its region or after it: what a writer depends on was committed, hence
\* numbered, before it drew its own number.
ReplayKeepsReferences ==
    \A n \in 1..sequence, z \in ZoneIds : \A i \in DOMAIN outbox :
        LET zoneRow == outbox[i].row
        IN  /\ About(outbox[i], "Zone", z) /\ zoneRow # Absent
            /\ ReplayedUpTo(n, "Zone", z, zoneRow)
            => ~ReplayedUpTo(n, "Region", zoneRow.region, Absent)

\* No group of transactions waits in a circle, so none is killed by the server's
\* deadlock detection, which the code would report as INTERNAL.
NoWaitCycle ==
    \A group \in (SUBSET Ops) \ {{}} :
        \E o \in group : \A p \in group : ~WaitsFor(o, p)

\* Every transaction that begins ends, in a commit, a refusal or a failure.
EveryTxEnds == \A o \in Ops : stage[o] = "statement" ~> stage[o] \in Ended

=============================================================================
