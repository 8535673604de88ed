--------------------------- MODULE CatalogTxProofs ---------------------------
(***************************************************************************)
(* Theorems about CatalogTx, for every catalog, every set of operations    *)
(* and every command they run: the locks make each transaction the one     *)
(* step of Catalog, and no transaction is caught in a circle of waits.     *)
(***************************************************************************)
EXTENDS CatalogTx, CatalogProofs

(* The inductive invariant.                                                *)

\* A row a statement has seen is still stored.
SeenRowExists ==
    \A o \in Ops : stage[o] = "statement" /\ seen[o] => Stored(cmd[o]) # Absent

\* Under its lock a row keeps the state its statement found, and what the statement
\* computed from it stays what it would compute now.
LockedRowStands ==
    \A o \in Ops : Holds(o) =>
        /\ cmd[o].verb = "Create" <=> Stored(cmd[o]) = Absent
        /\ row[o] = Written(cmd[o])

\* Two transactions never hold the same row.
OneHolder ==
    \A o, p \in Ops : o # p /\ Holds(o) /\ Holds(p) => ~SameRow(o, p)

RegionStored(r) == r \in RegionIds /\ regions[r] # Absent

\* Only a writer whose zone changes region checks, and what it saw is still there.
SeenParentExists ==
    \A o \in Ops : stage[o] = "checking" =>
        ChecksParent(o) /\ (seen[o] => RegionStored(row[o].region))

\* A region a writer has locked is stored and nobody is deleting it.
LockedParentStands ==
    \A o \in Ops : stage[o] \in {"checked", "emitted"} /\ ChecksParent(o) =>
        /\ RegionStored(row[o].region)
        /\ \A p \in Ops : Holds(p) => ~DeletesRegion(p, row[o].region)

\* A region that has passed the check of its Delete has no zone, and gets none.
RestrictedIsEmpty ==
    \A o \in Ops : stage[o] \in {"checked", "emitted"} /\ Does(o, "Region", "Delete") =>
        \A z \in ZoneIds : zones[z] # Absent => zones[z].region # cmd[o].id

\* An event in the outbox is that of a transaction that is over.
WrittenIsCommitted == \A o \in Ops : WrittenBy(o) => stage[o] = "committed"

TxInv ==
    /\ TxTypeOK
    /\ SeenRowExists
    /\ LockedRowStands
    /\ OneHolder
    /\ SeenParentExists
    /\ LockedParentStands
    /\ RestrictedIsEmpty
    /\ WrittenIsCommitted
    /\ ReferentialIntegrity

\* What makes a refusal true is remembered: the ones that hold now, and the ones a
\* transaction has decided on.
RefusalsRemembered ==
    \A o \in Ops : stage[o] \in Running =>
        /\ TrueRefusals(cmd[o]) \subseteq could[o]
        /\ stage[o] = "statement" /\ ~seen[o] /\ cmd[o].verb # "Create"
              => "NotFound" \in could[o]
        /\ stage[o] = "checking" /\ ~seen[o] => "FailedPrecondition" \in could[o]

RefusalInv == RefusalsRemembered /\ RefusalsAreTrue

\* The numbers of a resource's events are below the one drawn under its lock.
NumberInv ==
    /\ Len(numbers) = Len(outbox)
    /\ \A i \in DOMAIN numbers : numbers[i] <= sequence
    /\ \A o \in Ops : drawn[o] <= sequence
    /\ \A o \in Ops : stage[o] = "emitted" =>
           \A i \in DOMAIN outbox :
               About(outbox[i], cmd[o].kind, cmd[o].id) => numbers[i] < drawn[o]
    /\ SequenceOrdersEachResource

-----------------------------------------------------------------------------
(* What the operators say.                                                 *)

LEMMA CommandOf ==
    ASSUME TxTypeOK, NEW o \in Ops
    PROVE  /\ cmd[o] \in Requests /\ actor[o] \in Actors
           /\ cmd[o].verb \in Verbs
           /\ \/ cmd[o].kind = "Region" /\ cmd[o].id \in RegionIds
              \/ cmd[o].kind = "Zone" /\ cmd[o].id \in ZoneIds
BY CommandKinds DEF TxTypeOK

\* A statement that finds what it needs writes a row version.
LEMMA VersionTyped ==
    ASSUME CatalogTypeOK, NEW c \in Requests,
           c.verb \in {"Update", "Delete"} => Stored(c) # Absent
    PROVE  Written(c) \in RowVersion
<1>1. c.verb \in Verbs
  BY CommandKinds
<1>2. CASE c \in RegionCommand
  <2>1. c.kind = "Region" /\ c.id \in RegionIds /\ c.name \in Names
    BY <1>2 DEF RegionCommand
  <2>2. CASE c.verb = "Update"
    <3>1. regions[c.id] \in RegionRow
      BY <2>1, <2>2 DEF Stored, CatalogTypeOK
    <3> QED BY <2>1, <2>2, <3>1
            DEF Written, RowVersion, RegionUpdated, RegionRow, Coalesce
  <2> QED BY <1>1, <2>1, <2>2
          DEF Written, RowVersion, RegionInserted, RegionRow, Verbs
<1>3. CASE c \in ZoneCommand
  <2>1. /\ c.kind = "Zone" /\ c.id \in ZoneIds /\ c.name \in Names
        /\ c.region \in RegionIds \cup {NoRegion}
        /\ c.status \in Status \cup {Unspecified}
    BY <1>3 DEF ZoneCommand
  <2>2. CASE c.verb = "Update"
    <3>1. zones[c.id] \in ZoneRow
      BY <2>1, <2>2 DEF Stored, CatalogTypeOK
    <3>2. ZoneUpdated(c) \in
            [region : RegionIds \cup {NoRegion}, name : Names, status : Status]
      BY <2>1, <3>1 DEF ZoneUpdated, ZoneRow, Coalesce
    <3> QED BY <2>1, <2>2, <3>2 DEF Written, RowVersion
  <2>3. CASE c.verb = "Create"
    <3>1. ZoneInserted(c) \in
            [region : RegionIds \cup {NoRegion}, name : Names, status : Status]
      BY <2>1 DEF ZoneInserted, Coalesce, Status
    <3> QED BY <2>1, <2>3, <3>1 DEF Written, RowVersion
  <2> QED BY <1>1, <2>2, <2>3 DEF Written, RowVersion, Verbs
<1> QED BY <1>2, <1>3, CatalogAssumption DEF Command

\* While the catalog stands still, so does everything computed from it.
LEMMA CatalogFrame ==
    ASSUME UNCHANGED <<catalogVars, cmd>>
    PROVE  /\ \A o \in Ops : /\ Stored(cmd[o])' = Stored(cmd[o])
                             /\ Written(cmd[o])' = Written(cmd[o])
                             /\ TrueRefusals(cmd[o])' = TrueRefusals(cmd[o])
                             /\ WrittenBy(o)' = WrittenBy(o)
           /\ \A r : RegionStored(r)' = RegionStored(r)
BY DEF catalogVars, Stored, Written, RegionInserted, RegionUpdated, ZoneInserted,
       ZoneUpdated, TrueRefusals, Refused, UniqueViolation, NoRows,
       ForeignKeyViolation, MissingRegion, RegionInUse, WrittenBy, RegionStored

\* The region a checking writer looks for is the one its command names.
LEMMA CheckedRegion ==
    ASSUME TxTypeOK, NEW o \in Ops, ChecksParent(o), row[o] = Written(cmd[o])
    PROVE  /\ cmd[o].kind = "Zone" /\ cmd[o].verb \in {"Create", "Update"}
           /\ Parent(o) = row[o].region /\ row[o].region = cmd[o].region
           /\ cmd[o].verb = "Update" => cmd[o].region # NoRegion
           /\ ~MissingRegion(cmd[o]) => RegionStored(row[o].region)
<1>1. cmd[o].kind = "Zone" /\ cmd[o].verb \in {"Create", "Update"}
  BY DEF ChecksParent, Does
<1>2. cmd[o] \in ZoneCommand
  BY <1>1, CommandOf, CatalogAssumption DEF Command, RegionCommand
<1>3. Parent(o) = row[o].region
  BY <1>1 DEF Parent, Does
<1>4. CASE cmd[o].verb = "Create"
  <2>1. row[o].region = cmd[o].region
    BY <1>1, <1>4 DEF Written, ZoneInserted
  <2> QED BY <1>1, <1>2, <1>3, <1>4, <2>1
          DEF MissingRegion, RegionStored, ZoneCommand
<1>5. CASE cmd[o].verb = "Update"
  <2>1. row[o].region # zones[cmd[o].id].region
    BY <1>5 DEF ChecksParent, Does
  <2>2. row[o].region = Coalesce(cmd[o].region, NoRegion, zones[cmd[o].id].region)
    BY <1>1, <1>5 DEF Written, ZoneUpdated
  <2> QED BY <1>1, <1>2, <1>3, <1>5, <2>1, <2>2
          DEF Coalesce, MissingRegion, RegionStored, ZoneCommand
<1> QED BY <1>1, <1>4, <1>5

-----------------------------------------------------------------------------
(* A commit is the one step of Catalog.                                    *)

LEMMA CommitRefines ==
    ASSUME TxInv, NEW o \in Ops, CommitTx(o)
    PROVE  Commit(cmd[o], actor[o], o) /\ ~WrittenBy(o)
<1>1. stage[o] = "emitted" /\ Holds(o)
  BY DEF CommitTx, Holds, Writing
<1>2. /\ cmd[o].verb = "Create" <=> Stored(cmd[o]) = Absent
      /\ row[o] = Written(cmd[o])
  BY <1>1 DEF TxInv, LockedRowStands
<1>3. ~UniqueViolation(cmd[o]) /\ ~NoRows(cmd[o])
  BY <1>2 DEF UniqueViolation, NoRows
<1>4. ~MissingRegion(cmd[o])
  <2>1. SUFFICES ASSUME cmd[o].kind = "Zone", cmd[o].verb \in {"Create", "Update"}
                 PROVE  ~MissingRegion(cmd[o])
    BY DEF MissingRegion
  <2>2. CASE ChecksParent(o)
    <3>1. RegionStored(row[o].region) /\ row[o].region = cmd[o].region
      BY <1>1, <1>2, <2>2, CheckedRegion DEF TxInv, LockedParentStands
    <3> QED BY <3>1, CatalogAssumption DEF RegionStored, MissingRegion
  <2>3. CASE ~ChecksParent(o)
    <3>1. cmd[o].verb = "Update" /\ row[o].region = zones[cmd[o].id].region
      BY <2>1, <2>3 DEF ChecksParent, Does
    <3>2. /\ zones[cmd[o].id] # Absent
          /\ row[o].region = Coalesce(cmd[o].region, NoRegion, zones[cmd[o].id].region)
      BY <1>2, <2>1, <3>1 DEF Stored, Written, ZoneUpdated
    <3>3. regions[zones[cmd[o].id].region] # Absent
      BY <2>1, <3>2, CommandOf DEF TxInv, ReferentialIntegrity
    <3> QED BY <3>1, <3>2, <3>3 DEF MissingRegion, Coalesce
  <2> QED BY <2>2, <2>3
<1>5. ~RegionInUse(cmd[o])
  BY <1>1 DEF TxInv, RestrictedIsEmpty, Does, RegionInUse
<1>6. [AuditEvent(cmd[o], actor[o], o) EXCEPT !.row = row[o]]
        = AuditEvent(cmd[o], actor[o], o)
  BY <1>2 DEF AuditEvent
<1>7. ~WrittenBy(o)
  BY <1>1 DEF TxInv, WrittenIsCommitted
<1> QED BY <1>2, <1>3, <1>4, <1>5, <1>6, <1>7
        DEF CommitTx, Commit, Admissible, ForeignKeyViolation, Emit

-----------------------------------------------------------------------------
(* Each step keeps the invariant.                                          *)

LEMMA BeginKeeps ==
    ASSUME TxInv, NEW o \in Ops, Begin(o)
    PROVE  TxInv'
<1>1. UNCHANGED <<catalogVars, cmd, actor, row>> /\ stage[o] = "idle"
      /\ stage' = [stage EXCEPT ![o] = "statement"]
  BY DEF Begin
<1>2. TxTypeOK'
  BY DEF Begin, TxInv, TxTypeOK, CatalogTypeOK, catalogVars, Stages, Running,
         TrueRefusals
<1>3. SeenRowExists'
  BY CatalogFrame, <1>1 DEF Begin, TxInv, TxTypeOK, SeenRowExists
<1>4. \A p \in Ops : stage'[p] # stage[p] => p = o /\ stage'[p] = "statement"
  BY <1>1 DEF TxInv, TxTypeOK
<1>5. \A p \in Ops : Holds(p)' <=> Holds(p)
  BY <1>1, <1>4 DEF Holds, Writing
<1>6. \A p \in Ops : /\ ChecksParent(p)' <=> ChecksParent(p)
                     /\ \A q \in Ops : SameRow(p, q)' <=> SameRow(p, q)
                     /\ \A r : DeletesRegion(p, r)' <=> DeletesRegion(p, r)
  BY <1>1 DEF ChecksParent, Does, SameRow, DeletesRegion, catalogVars
<1>7. LockedRowStands' /\ OneHolder'
  BY <1>1, <1>5, <1>6, CatalogFrame DEF TxInv, LockedRowStands, OneHolder
<1>8. SeenParentExists'
  BY <1>1, <1>4, <1>6, CatalogFrame DEF Begin, TxInv, TxTypeOK, SeenParentExists
<1>9. LockedParentStands' /\ RestrictedIsEmpty'
  BY <1>1, <1>4, <1>5, <1>6, CatalogFrame
  DEF TxInv, LockedParentStands, RestrictedIsEmpty, Does, catalogVars
<1>10. WrittenIsCommitted' /\ ReferentialIntegrity'
  BY <1>1, CatalogFrame
  DEF TxInv, TxTypeOK, WrittenIsCommitted, ReferentialIntegrity, catalogVars
<1> QED BY <1>2, <1>3, <1>7, <1>8, <1>9, <1>10 DEF TxInv

\* Rolling back, and passing a check, only take steps away.
LEMMA EndKeeps ==
    ASSUME TxInv, NEW o \in Ops, NEW how \in Stages, End(o, how),
           stage[o] \in Running,
           \/ how \in Ended
           \/ /\ how = "checked" /\ Holds(o)
              /\ ChecksParent(o) =>
                    /\ RegionStored(row[o].region)
                    /\ \A p \in Ops : Holds(p) => ~DeletesRegion(p, row[o].region)
              /\ Does(o, "Region", "Delete") => ~RegionInUse(cmd[o])
    PROVE  TxInv'
<1>1. /\ UNCHANGED <<catalogVars, cmd, actor, row, seen>>
      /\ stage' = [stage EXCEPT ![o] = how]
  BY DEF End
<1>2. TxTypeOK'
  BY DEF End, TxInv, TxTypeOK, CatalogTypeOK, catalogVars
<1>3. \A p \in Ops : p # o => stage'[p] = stage[p]
  BY <1>1 DEF TxInv, TxTypeOK
<1>4. stage'[o] = how /\ (how \in Ended \/ how = "checked")
  BY <1>1 DEF TxInv, TxTypeOK
<1>5. \A p \in Ops : Holds(p)' => Holds(p)
  BY <1>3, <1>4 DEF Holds, Writing, Ended, Refusals
<1>6. \A p \in Ops : /\ ChecksParent(p)' <=> ChecksParent(p)
                     /\ \A q \in Ops : SameRow(p, q)' <=> SameRow(p, q)
                     /\ \A r : DeletesRegion(p, r)' <=> DeletesRegion(p, r)
  BY <1>1 DEF ChecksParent, Does, SameRow, DeletesRegion, catalogVars
<1>7. SeenRowExists'
  BY <1>1, <1>3, <1>4, CatalogFrame DEF TxInv, SeenRowExists, Ended, Refusals
<1>8. LockedRowStands' /\ OneHolder'
  BY <1>1, <1>5, <1>6, CatalogFrame DEF TxInv, LockedRowStands, OneHolder
<1>9. SeenParentExists'
  BY <1>1, <1>3, <1>4, <1>6, CatalogFrame
  DEF TxInv, SeenParentExists, Ended, Refusals
<1>10. LockedParentStands'
  <2>1. SUFFICES ASSUME NEW p \in Ops, stage'[p] \in {"checked", "emitted"},
                        ChecksParent(p)'
                 PROVE  /\ RegionStored(row[p].region)
                        /\ \A q \in Ops : Holds(q) => ~DeletesRegion(q, row[p].region)
    BY <1>1, <1>5, <1>6, CatalogFrame DEF LockedParentStands
  <2>2. CASE p = o
    BY <1>4, <1>6, <2>1, <2>2 DEF Ended, Refusals
  <2>3. CASE p # o
    BY <1>3, <1>6, <2>1, <2>3 DEF TxInv, LockedParentStands
  <2> QED BY <2>2, <2>3
<1>11. RestrictedIsEmpty'
  <2>1. SUFFICES ASSUME NEW p \in Ops, stage'[p] \in {"checked", "emitted"},
                        Does(p, "Region", "Delete"), NEW z \in ZoneIds,
                        zones[z] # Absent
                 PROVE  zones[z].region # cmd[p].id
    BY <1>1 DEF RestrictedIsEmpty, Does, catalogVars
  <2>2. CASE p = o
    BY <1>4, <2>1, <2>2 DEF Ended, Refusals, RegionInUse, Does
  <2>3. CASE p # o
    BY <1>3, <2>1, <2>3 DEF TxInv, RestrictedIsEmpty
  <2> QED BY <2>2, <2>3
<1>12. WrittenIsCommitted' /\ ReferentialIntegrity'
  BY <1>1, <1>3, CatalogFrame
  DEF TxInv, WrittenIsCommitted, ReferentialIntegrity, catalogVars, Running, Writing
<1> QED BY <1>2, <1>7, <1>8, <1>9, <1>10, <1>11, <1>12 DEF TxInv

\* A statement takes a row that nobody holds, and a region nobody refers to.
LEMMA StatementKeeps ==
    ASSUME TxInv, NEW o \in Ops, Statement(o)
    PROVE  TxInv'
<1>1. /\ UNCHANGED <<catalogVars, cmd, actor, seen>>
      /\ stage[o] = "statement" /\ ~Blocked(o) /\ ~Misses(o)
      /\ stage' = [stage EXCEPT ![o] = "written"]
      /\ row' = [row EXCEPT ![o] = Written(cmd[o])]
  BY DEF Statement, NewVersion
<1>2. cmd[o].verb = "Create" <=> Stored(cmd[o]) = Absent
  BY <1>1 DEF Misses, TxInv, SeenRowExists
<1>3. TxTypeOK'
  <2>1. Written(cmd[o]) \in RowVersion
    BY <1>2, VersionTyped, CommandOf DEF TxInv, TxTypeOK
  <2> QED BY <2>1 DEF Statement, NewVersion, TxInv, TxTypeOK, CatalogTypeOK,
                      catalogVars, Stages, Running, Writing
<1>4. /\ stage'[o] = "written" /\ row'[o] = Written(cmd[o])
      /\ \A p \in Ops : p # o => stage'[p] = stage[p] /\ row'[p] = row[p]
  BY <1>1 DEF TxInv, TxTypeOK
<1>5. \A p \in Ops : Holds(p)' <=> p = o \/ Holds(p)
  BY <1>4 DEF Holds, Writing
<1>6. \A p \in Ops : /\ p # o => (ChecksParent(p)' <=> ChecksParent(p))
                     /\ \A q \in Ops : SameRow(p, q)' <=> SameRow(p, q)
                     /\ \A r : DeletesRegion(p, r)' <=> DeletesRegion(p, r)
  BY <1>1, <1>4 DEF ChecksParent, Does, SameRow, DeletesRegion, catalogVars
<1>7. SeenRowExists'
  BY <1>1, <1>4, CatalogFrame DEF TxInv, SeenRowExists
<1>8. LockedRowStands'
  BY <1>1, <1>2, <1>4, <1>5, CatalogFrame DEF TxInv, LockedRowStands
<1>9. OneHolder'
  <2>1. \A p \in Ops : p # o /\ Holds(p) => ~SameRow(o, p) /\ ~SameRow(p, o)
    BY <1>1 DEF Misses, Blocked, WaitsFor, WaitsForRow, SameRow
  <2> QED BY <1>5, <1>6, <2>1 DEF TxInv, OneHolder
<1>10. SeenParentExists'
  BY <1>1, <1>4, <1>6, CatalogFrame DEF TxInv, SeenParentExists
<1>11. LockedParentStands'
  <2>1. SUFFICES ASSUME NEW p \in Ops, stage'[p] \in {"checked", "emitted"},
                        ChecksParent(p)'
                 PROVE  /\ RegionStored(row'[p].region)
                        /\ \A q \in Ops : Holds(q)' => ~DeletesRegion(q, row'[p].region)
    BY <1>1, <1>6, CatalogFrame DEF LockedParentStands
  <2>2. p # o /\ stage[p] = stage'[p] /\ row'[p] = row[p] /\ ChecksParent(p)
    BY <1>4, <1>6, <2>1
  <2>3. /\ RegionStored(row[p].region)
        /\ \A q \in Ops : Holds(q) => ~DeletesRegion(q, row[p].region)
    BY <2>1, <2>2 DEF TxInv, LockedParentStands
  <2>4. ~DeletesRegion(o, row[p].region)
    <3>1. SUFFICES ASSUME DeletesRegion(o, row[p].region) PROVE FALSE
      OBVIOUS
    <3>2. seen[o]
      BY <1>1, <3>1 DEF Misses, DeletesRegion, Does
    <3>3. Parent(p) = row[p].region
      BY <2>2 DEF Parent, ChecksParent, Does
    <3>4. HoldsKeyShare(p, row[p].region)
      BY <2>1, <2>2, <3>3 DEF HoldsKeyShare
    <3> QED BY <1>1, <2>2, <2>3, <3>1, <3>2, <3>4
            DEF Blocked, WaitsFor, WaitsForKeyShare, RegionStored
  <2> QED BY <1>5, <2>2, <2>3, <2>4
<1>12. RestrictedIsEmpty'
  BY <1>1, <1>4 DEF TxInv, RestrictedIsEmpty, Does, catalogVars
<1>13. WrittenIsCommitted' /\ ReferentialIntegrity'
  BY <1>1, <1>4, CatalogFrame
  DEF TxInv, WrittenIsCommitted, ReferentialIntegrity, catalogVars
<1> QED BY <1>3, <1>7, <1>8, <1>9, <1>10, <1>11, <1>12, <1>13 DEF TxInv

LEMMA LookUpKeeps ==
    ASSUME TxInv, NEW o \in Ops, LookUpRegion(o)
    PROVE  TxInv'
<1>1. /\ UNCHANGED <<catalogVars, cmd, actor, row>>
      /\ stage[o] = "written" /\ ChecksParent(o) /\ Holds(o)
      /\ stage' = [stage EXCEPT ![o] = "checking"]
      /\ seen' = [seen EXCEPT ![o] = ~MissingRegion(cmd[o])]
  BY DEF LookUpRegion, Holds, Writing
<1>2. TxTypeOK'
  BY DEF LookUpRegion, TxInv, TxTypeOK, CatalogTypeOK, catalogVars, Stages, Running,
         Writing, MissingRegion
<1>3. /\ stage'[o] = "checking" /\ (seen'[o] <=> ~MissingRegion(cmd[o]))
      /\ \A p \in Ops : p # o => stage'[p] = stage[p] /\ seen'[p] = seen[p]
  BY <1>1 DEF TxInv, TxTypeOK
<1>4. \A p \in Ops : Holds(p)' <=> Holds(p)
  BY <1>1, <1>3 DEF Holds, Writing
<1>5. \A p \in Ops : /\ ChecksParent(p)' <=> ChecksParent(p)
                     /\ \A q \in Ops : SameRow(p, q)' <=> SameRow(p, q)
                     /\ \A r : DeletesRegion(p, r)' <=> DeletesRegion(p, r)
  BY <1>1 DEF ChecksParent, Does, SameRow, DeletesRegion, catalogVars
<1>6. SeenRowExists'
  BY <1>1, <1>3, CatalogFrame DEF TxInv, SeenRowExists
<1>7. LockedRowStands' /\ OneHolder'
  BY <1>1, <1>4, <1>5, CatalogFrame DEF TxInv, LockedRowStands, OneHolder
<1>8. SeenParentExists'
  <2>1. seen'[o] => RegionStored(row[o].region)
    BY <1>1, <1>3, CheckedRegion DEF TxInv, LockedRowStands
  <2> QED BY <1>1, <1>3, <1>5, <2>1, CatalogFrame DEF TxInv, SeenParentExists
<1>9. LockedParentStands' /\ RestrictedIsEmpty'
  BY <1>1, <1>3, <1>4, <1>5, CatalogFrame
  DEF TxInv, LockedParentStands, RestrictedIsEmpty, Does, catalogVars
<1>10. WrittenIsCommitted' /\ ReferentialIntegrity'
  BY <1>1, <1>3, CatalogFrame
  DEF TxInv, WrittenIsCommitted, ReferentialIntegrity, catalogVars
<1> QED BY <1>2, <1>6, <1>7, <1>8, <1>9, <1>10 DEF TxInv

LEMMA EmitKeeps ==
    ASSUME TxInv, NEW o \in Ops, EmitEvent(o)
    PROVE  TxInv'
<1>1. /\ UNCHANGED <<catalogVars, cmd, actor, row, seen>>
      /\ MayEmit(o) /\ Holds(o) /\ stage[o] # "statement"
      /\ stage' = [stage EXCEPT ![o] = "emitted"]
  BY DEF EmitEvent, MayEmit, Holds, Writing
<1>2. TxTypeOK'
  BY DEF EmitEvent, Draw, TxInv, TxTypeOK, CatalogTypeOK, catalogVars, Stages,
         Running, Writing
<1>3. /\ stage'[o] = "emitted"
      /\ \A p \in Ops : p # o => stage'[p] = stage[p]
  BY <1>1 DEF TxInv, TxTypeOK
<1>4. \A p \in Ops : Holds(p)' <=> Holds(p)
  BY <1>1, <1>3 DEF Holds, Writing
<1>5. \A p \in Ops : /\ ChecksParent(p)' <=> ChecksParent(p)
                     /\ \A q \in Ops : SameRow(p, q)' <=> SameRow(p, q)
                     /\ \A r : DeletesRegion(p, r)' <=> DeletesRegion(p, r)
  BY <1>1 DEF ChecksParent, Does, SameRow, DeletesRegion, catalogVars
<1>6. SeenRowExists' /\ SeenParentExists'
  BY <1>1, <1>3, <1>5, CatalogFrame DEF TxInv, SeenRowExists, SeenParentExists
<1>7. LockedRowStands' /\ OneHolder'
  BY <1>1, <1>4, <1>5, CatalogFrame DEF TxInv, LockedRowStands, OneHolder
<1>8. LockedParentStands'
  BY <1>1, <1>3, <1>4, <1>5, CatalogFrame DEF TxInv, LockedParentStands, MayEmit
<1>9. RestrictedIsEmpty'
  BY <1>1, <1>3 DEF TxInv, RestrictedIsEmpty, MayEmit, Does, catalogVars
<1>10. WrittenIsCommitted' /\ ReferentialIntegrity'
  BY <1>1, <1>3, CatalogFrame
  DEF TxInv, WrittenIsCommitted, ReferentialIntegrity, catalogVars, Holds, Writing
<1> QED BY <1>2, <1>6, <1>7, <1>8, <1>9, <1>10 DEF TxInv

\* A commit changes one row, which nobody else holds.
LEMMA CommitTouches ==
    ASSUME TxInv, NEW o \in Ops, CommitTx(o)
    PROVE  /\ \A p \in Ops : ~SameRow(o, p) => Stored(cmd[p])' = Stored(cmd[p])
           /\ \A p \in Ops : ~SameRow(o, p) => Written(cmd[p])' = Written(cmd[p])
           /\ \A p \in Ops : SameRow(o, p) => Stored(cmd[p])' = row[o]
           /\ row[o] = Absent <=> cmd[o].verb = "Delete"
           /\ \A r \in RegionIds :
                  RegionStored(r) /\ ~DeletesRegion(o, r) => RegionStored(r)'
           /\ Holds(o) /\ row[o] = Written(cmd[o]) /\ Admissible(cmd[o])
<1>1. Commit(cmd[o], actor[o], o) /\ cmd' = cmd
  BY CommitRefines DEF CommitTx
<1>2. Holds(o) /\ row[o] = Written(cmd[o]) /\ Admissible(cmd[o])
  BY <1>1 DEF CommitTx, Commit, Holds, Writing, TxInv, LockedRowStands
<1>3. row[o] = Absent <=> cmd[o].verb = "Delete"
  BY <1>2, WrittenRegion, WrittenZone, CommandOf DEF TxInv, TxTypeOK
<1>4. CASE cmd[o].kind = "Region"
  <2>1. /\ zones' = zones /\ cmd[o].id \in RegionIds
        /\ regions' = [regions EXCEPT ![cmd[o].id] = row[o]]
    BY <1>4, CommandOf DEF CommitTx, TxInv
  <2>2. \A r \in RegionIds :
            regions'[r] = IF r = cmd[o].id THEN row[o] ELSE regions[r]
    BY <2>1 DEF TxInv, TxTypeOK, CatalogTypeOK
  <2>3. \A p \in Ops : Stored(cmd[p])' =
            IF SameRow(o, p) THEN row[o] ELSE Stored(cmd[p])
    BY <1>1, <1>4, <2>1, <2>2, CommandOf DEF TxInv, Stored, SameRow
  <2>4. \A p \in Ops : ~SameRow(o, p) => Written(cmd[p])' = Written(cmd[p])
    BY <1>1, <1>4, <2>1, <2>2, CommandOf
    DEF TxInv, Written, SameRow, RegionInserted, RegionUpdated, ZoneInserted,
        ZoneUpdated
  <2>5. \A r \in RegionIds :
            RegionStored(r) /\ ~DeletesRegion(o, r) => RegionStored(r)'
    BY <1>3, <1>4, <2>2 DEF RegionStored, DeletesRegion, Does
  <2> QED BY <1>2, <1>3, <2>3, <2>4, <2>5
<1>5. CASE cmd[o].kind = "Zone"
  <2>1. /\ regions' = regions /\ cmd[o].id \in ZoneIds
        /\ zones' = [zones EXCEPT ![cmd[o].id] = row[o]]
    BY <1>5, CommandOf DEF CommitTx, TxInv
  <2>2. \A z \in ZoneIds :
            zones'[z] = IF z = cmd[o].id THEN row[o] ELSE zones[z]
    BY <2>1 DEF TxInv, TxTypeOK, CatalogTypeOK
  <2>3. \A p \in Ops : Stored(cmd[p])' =
            IF SameRow(o, p) THEN row[o] ELSE Stored(cmd[p])
    BY <1>1, <1>5, <2>1, <2>2, CommandOf DEF TxInv, Stored, SameRow
  <2>4. \A p \in Ops : ~SameRow(o, p) => Written(cmd[p])' = Written(cmd[p])
    BY <1>1, <1>5, <2>1, <2>2, CommandOf
    DEF TxInv, Written, SameRow, RegionInserted, RegionUpdated, ZoneInserted,
        ZoneUpdated
  <2> QED BY <1>2, <1>3, <2>1, <2>3, <2>4 DEF RegionStored
<1> QED BY <1>4, <1>5, CommandOf DEF TxInv

LEMMA CommitKeeps ==
    ASSUME TxInv, NEW o \in Ops, CommitTx(o)
    PROVE  TxInv'
<1>1. /\ UNCHANGED <<cmd, actor, row>> /\ stage[o] = "emitted"
      /\ stage' = [stage EXCEPT ![o] = "committed"]
      /\ \A p \in Ops : seen'[p] = (seen[p] /\ ~Vanishes(o, p))
  BY DEF CommitTx
<1>2. Commit(cmd[o], actor[o], o) /\ ~WrittenBy(o)
  BY CommitRefines
<1>3. PICK c \in Requests, a \in Actors : c = cmd[o] /\ a = actor[o]
  BY CommandOf DEF TxInv
<1>4. CatalogTypeOK' /\ ReferentialIntegrity'
  BY <1>2, <1>3, CommitKeepsTypes, CommitKeepsReferences DEF TxInv, TxTypeOK
<1>5. TxTypeOK'
  <2>1. seen' \in [Ops -> BOOLEAN] /\ numbers' \in Seq(Nat)
    BY DEF CommitTx, TxInv, TxTypeOK
  <2>2. could' \in [Ops -> SUBSET Refusals]
    BY DEF CommitTx, TxInv, TxTypeOK, TrueRefusals
  <2> QED BY <1>1, <1>4, <2>1, <2>2
          DEF CommitTx, TxInv, TxTypeOK, Stages, Ended
<1>6. /\ stage'[o] = "committed"
      /\ \A p \in Ops : p # o => stage'[p] = stage[p]
  BY <1>1 DEF TxInv, TxTypeOK
<1>7. \A p \in Ops : Holds(p)' => p # o /\ Holds(p) /\ ~SameRow(o, p)
  <2>1. \A p \in Ops : Holds(p)' => p # o /\ Holds(p)
    BY <1>6 DEF Holds, Writing
  <2> QED BY <2>1, CommitTouches DEF TxInv, OneHolder
<1>8. \A p, q \in Ops : SameRow(p, q)' <=> SameRow(p, q)
  BY <1>1 DEF SameRow
<1>9. \A p \in Ops : \A r : DeletesRegion(p, r)' <=> DeletesRegion(p, r)
  BY <1>1 DEF DeletesRegion, Does
<1>10. \A p \in Ops : Holds(p)' => (ChecksParent(p)' <=> ChecksParent(p))
  <2>1. SUFFICES ASSUME NEW p \in Ops, Holds(p)', Does(p, "Zone", "Update")
                 PROVE  zones'[cmd[p].id] = zones[cmd[p].id]
    BY <1>1 DEF ChecksParent, Does
  <2>2. ~SameRow(o, p) /\ Stored(cmd[p])' = Stored(cmd[p])
    BY <1>7, <2>1, CommitTouches
  <2> QED BY <1>1, <2>1, <2>2 DEF Stored, Does
<1>11. SeenRowExists'
  <2>1. SUFFICES ASSUME NEW p \in Ops, stage'[p] = "statement", seen'[p]
                 PROVE  Stored(cmd[p])' # Absent
    BY DEF SeenRowExists
  <2>2. /\ stage[p] = "statement" /\ Stored(cmd[p]) # Absent
        /\ SameRow(o, p) => cmd[o].verb # "Delete"
    BY <1>1, <1>6, <2>1 DEF TxInv, SeenRowExists, Vanishes
  <2> QED BY <2>2, CommitTouches
<1>12. LockedRowStands' /\ OneHolder'
  BY <1>1, <1>7, <1>8, CommitTouches DEF TxInv, LockedRowStands, OneHolder
<1>13. SeenParentExists'
  <2>1. SUFFICES ASSUME NEW p \in Ops, stage'[p] = "checking"
                 PROVE  /\ ChecksParent(p)'
                        /\ seen'[p] => RegionStored(row[p].region)'
    BY <1>1 DEF SeenParentExists
  <2>2. stage[p] = "checking" /\ Holds(p)' /\ Holds(p)
    BY <1>6, <2>1 DEF Holds, Writing
  <2>3. ChecksParent(p) /\ (seen[p] => RegionStored(row[p].region))
    BY <2>2 DEF TxInv, SeenParentExists
  <2>4. Parent(p) = row[p].region
    BY <2>3 DEF Parent, ChecksParent, Does
  <2>5. ASSUME seen'[p] PROVE RegionStored(row[p].region)'
    <3>1. seen[p] /\ ~DeletesRegion(o, row[p].region)
      BY <1>1, <2>2, <2>4, <2>5 DEF Vanishes, DeletesRegion, Does
    <3> QED BY <1>1, <2>3, <3>1, CommitTouches DEF RegionStored
  <2> QED BY <1>10, <2>2, <2>3, <2>5
<1>14. LockedParentStands'
  <2>1. SUFFICES ASSUME NEW p \in Ops, stage'[p] \in {"checked", "emitted"},
                        ChecksParent(p)'
                 PROVE  /\ RegionStored(row[p].region)'
                        /\ \A q \in Ops : Holds(q)' => ~DeletesRegion(q, row[p].region)
    BY <1>1, <1>9 DEF LockedParentStands
  <2>2. stage[p] = stage'[p] /\ Holds(p)' /\ ChecksParent(p)
    BY <1>6, <1>10, <2>1 DEF Holds, Writing
  <2>3. /\ RegionStored(row[p].region)
        /\ \A q \in Ops : Holds(q) => ~DeletesRegion(q, row[p].region)
    BY <2>1, <2>2 DEF TxInv, LockedParentStands
  <2>4. RegionStored(row[p].region)'
    BY <1>1, <2>3, CommitTouches DEF RegionStored
  <2> QED BY <1>7, <2>3, <2>4
<1>15. RestrictedIsEmpty'
  <2>1. SUFFICES ASSUME NEW p \in Ops, stage'[p] \in {"checked", "emitted"},
                        Does(p, "Region", "Delete"), NEW z \in ZoneIds,
                        zones'[z] # Absent
                 PROVE  zones'[z].region # cmd[p].id
    BY <1>1 DEF RestrictedIsEmpty, Does
  <2>2. /\ stage[p] = stage'[p] /\ Holds(p) /\ p # o
        /\ \A y \in ZoneIds : zones[y] # Absent => zones[y].region # cmd[p].id
    BY <1>6, <2>1 DEF Holds, Writing, TxInv, RestrictedIsEmpty
  <2>3. CASE zones'[z] = zones[z]
    BY <2>1, <2>2, <2>3
  <2>4. CASE zones'[z] # zones[z]
    <3>1. /\ cmd[o].kind = "Zone" /\ cmd[o].id = z
          /\ zones'[z] = row[o] /\ cmd[o].verb # "Delete"
      BY <2>1, <2>4, CommitTouches DEF CommitTx, TxInv, TxTypeOK, CatalogTypeOK
    <3>2. CASE ChecksParent(o)
      BY <1>1, <2>1, <2>2, <3>1, <3>2
      DEF TxInv, LockedParentStands, DeletesRegion, Does
    <3>3. CASE ~ChecksParent(o)
      <4>1. cmd[o].verb = "Update" /\ row[o].region = zones[z].region
        BY <3>1, <3>3, CommandOf DEF ChecksParent, Does, Verbs, TxInv
      <4>2. zones[z] # Absent
        BY <3>1, <4>1, CommitTouches DEF Admissible, NoRows, Stored
      <4> QED BY <2>2, <3>1, <4>1, <4>2
    <3> QED BY <3>2, <3>3
  <2> QED BY <2>3, <2>4
<1>16. WrittenIsCommitted'
  <2>1. \A p \in Ops : WrittenBy(p)' => p = o \/ WrittenBy(p)
    <3>1. outbox' = Append(outbox, AuditEvent(cmd[o], actor[o], o)) /\ outbox \in Seq(Event)
      BY <1>2 DEF Commit, Emit, TxInv, TxTypeOK, CatalogTypeOK
    <3>2. AuditEvent(cmd[o], actor[o], o).op = o
      BY DEF AuditEvent
    <3> QED BY <3>1, <3>2 DEF WrittenBy
  <2> QED BY <1>6, <2>1 DEF TxInv, WrittenIsCommitted
<1> QED BY <1>4, <1>5, <1>11, <1>12, <1>13, <1>14, <1>15, <1>16 DEF TxInv

LEMMA TxInitHolds == TxInit => TxInv
<1> SUFFICES ASSUME TxInit PROVE TxInv
  OBVIOUS
<1>1. CatalogTypeOK /\ ReferentialIntegrity /\ \A o \in Ops : ~WrittenBy(o)
  BY DEF TxInit, CatalogInit, CatalogTypeOK, ReferentialIntegrity, WrittenBy
<1>2. \A o \in Ops : stage[o] = "idle" /\ ~Holds(o)
  BY DEF TxInit, Holds, Writing
<1>3. TxTypeOK
  BY <1>1 DEF TxInit, TxTypeOK, Stages, RowVersion
<1> QED
  BY <1>1, <1>2, <1>3
  DEF TxInv, SeenRowExists, LockedRowStands, OneHolder, SeenParentExists,
      LockedParentStands, RestrictedIsEmpty, WrittenIsCommitted

\* A region check that passes leaves its region locked.
LEMMA CheckKeeps ==
    ASSUME TxInv, NEW o \in Ops, LockRegion(o) \/ RestrictRegion(o)
    PROVE  TxInv'
<1>1. CASE LockRegion(o) /\ seen[o]
  <2>1. Holds(o) /\ ChecksParent(o) /\ RegionStored(row[o].region)
    BY <1>1 DEF LockRegion, Holds, Writing, TxInv, SeenParentExists
  <2>2. Parent(o) = row[o].region /\ ~Does(o, "Region", "Delete")
    BY <2>1 DEF Parent, ChecksParent, Does
  <2>3. \A p \in Ops : Holds(p) => ~DeletesRegion(p, row[o].region)
    BY <1>1, <2>1, <2>2
    DEF LockRegion, Blocked, WaitsFor, WaitsForParent, DeletesRegion, Does
  <2> QED BY <1>1, <2>1, <2>2, <2>3, EndKeeps
          DEF LockRegion, Stages, Running, Writing
<1>2. CASE RestrictRegion(o) /\ ~RegionInUse(cmd[o])
  <2>1. Holds(o) /\ ~ChecksParent(o)
    BY <1>2 DEF RestrictRegion, Holds, Writing, ChecksParent, Does
  <2> QED BY <1>2, <2>1, EndKeeps DEF RestrictRegion, Stages, Running, Writing
<1>3. CASE End(o, "FailedPrecondition") /\ stage[o] \in Running
  BY <1>3, EndKeeps DEF Stages, Ended, Refusals
<1> QED BY <1>1, <1>2, <1>3 DEF LockRegion, RestrictRegion, Running, Writing

LEMMA StutterKeeps ==
    ASSUME TxInv, UNCHANGED vars
    PROVE  TxInv'
<1>1. UNCHANGED <<catalogVars, cmd, stage, seen, row>>
  BY DEF vars, txVars
<1>2. \A o \in Ops : /\ Holds(o)' <=> Holds(o)
                     /\ ChecksParent(o)' <=> ChecksParent(o)
                     /\ \A r : DeletesRegion(o, r)' <=> DeletesRegion(o, r)
                     /\ \A p \in Ops : SameRow(o, p)' <=> SameRow(o, p)
  BY <1>1 DEF Holds, ChecksParent, DeletesRegion, Does, SameRow, catalogVars
<1>3. TxTypeOK' /\ ReferentialIntegrity'
  BY DEF vars, txVars, catalogVars, TxInv, TxTypeOK, CatalogTypeOK,
         ReferentialIntegrity
<1>4. SeenRowExists' /\ LockedRowStands' /\ OneHolder' /\ WrittenIsCommitted'
  BY <1>1, <1>2, CatalogFrame
  DEF TxInv, SeenRowExists, LockedRowStands, OneHolder, WrittenIsCommitted
<1>5. SeenParentExists' /\ LockedParentStands'
  BY <1>1, <1>2, CatalogFrame DEF TxInv, SeenParentExists, LockedParentStands
<1>6. RestrictedIsEmpty'
  BY <1>1 DEF TxInv, RestrictedIsEmpty, Does, catalogVars
<1> QED BY <1>3, <1>4, <1>5, <1>6 DEF TxInv

LEMMA StepKeeps ==
    ASSUME TxInv, [TxNext]_vars
    PROVE  TxInv'
<1>1. CASE UNCHANGED vars
  BY <1>1, StutterKeeps
<1>2. ASSUME NEW o \in Ops, StatementRefused(o) \/ Fail(o) PROVE TxInv'
  BY <1>2, EndKeeps
  DEF StatementRefused, Fail, Stages, Ended, Refusals, Running
<1> QED
  BY <1>1, <1>2, BeginKeeps, StatementKeeps, LookUpKeeps, CheckKeeps, EmitKeeps,
     CommitKeeps
  DEF TxNext, Proceed

-----------------------------------------------------------------------------
(* Theorems.                                                               *)

LEMMA TxInvariant == TxSpec => []TxInv
<1> QED BY TxInitHolds, StepKeeps, PTL DEF TxSpec

\* The tables, the row versions and the transactions' fields keep their types.
THEOREM TxTypeCorrect == TxSpec => []TxTypeOK
<1>1. TxInv => TxTypeOK
  BY DEF TxInv
<1> QED BY <1>1, TxInvariant, PTL

\* The writer transactions of pg, interleaved in every way PostgreSQL allows at READ
\* COMMITTED, with rollbacks at every point, commit what Catalog's one-step writers
\* commit: no stale COALESCE, no duplicate, no dangling zone.
THEOREM TransactionsImplementCatalog == TxSpec => CatalogSpec
<1>1. TxInit => CatalogInit
  BY DEF TxInit
<1>2. ASSUME TxInv, [TxNext]_vars PROVE [CatalogNext]_catalogVars
  <2>1. ASSUME NEW o \in Ops, CommitTx(o) PROVE CatalogNext
    BY <1>2, <2>1, CommitRefines, CommandOf DEF TxInv, CatalogNext
  <2>2. ASSUME NEW o \in Ops, Begin(o) \/ Proceed(o) \/ Fail(o), ~CommitTx(o)
        PROVE  UNCHANGED catalogVars
    BY <2>2 DEF Begin, Proceed, Fail, Statement, StatementRefused, LookUpRegion,
                LockRegion, RestrictRegion, EmitEvent, End
  <2> QED BY <1>2, <2>1, <2>2 DEF TxNext, vars
<1> QED BY <1>1, <1>2, TxInvariant, PTL DEF TxSpec, CatalogSpec

\* No circle of waits.  Whoever is waited for holds a row.  Of those, only a zone
\* writer checking its region and a region Delete checking its zones wait; the
\* first waits for the second, the second for a zone Delete, which waits for nobody.
THEOREM NoDeadlock == TxSpec => []NoWaitCycle
<1>1. ASSUME TxInv PROVE NoWaitCycle
  <2>1. SUFFICES ASSUME NEW group \in SUBSET Ops, NEW o \in group,
                        \A q \in group : \E p \in group : WaitsFor(q, p)
                 PROVE  FALSE
    BY DEF NoWaitCycle
  <2>2. PICK h \in group : WaitsFor(o, h)
    BY <2>1
  <2>3. h \in Ops /\ Holds(h)
    BY <2>2 DEF WaitsFor, WaitsForRow, WaitsForKeyShare, HoldsKeyShare, Holds,
                Writing, WaitsForParent, WaitsForChild
  <2>4. ASSUME NEW z \in group, Holds(z), Does(z, "Zone", "Delete") PROVE FALSE
    <3>1. stage[z] # "checking"
      BY <1>1, <2>4 DEF TxInv, SeenParentExists, ChecksParent, Does
    <3>2. PICK p \in group : WaitsFor(z, p)
      BY <2>1
    <3> QED BY <2>4, <3>1, <3>2
            DEF WaitsFor, WaitsForRow, WaitsForKeyShare, WaitsForParent,
                WaitsForChild, DeletesRegion, Does, Holds, Writing
  <2>5. ASSUME NEW d \in group, Holds(d), Does(d, "Region", "Delete") PROVE FALSE
    <3>1. stage[d] # "checking"
      BY <1>1, <2>5 DEF TxInv, SeenParentExists, ChecksParent, Does
    <3>2. PICK p \in group : WaitsFor(d, p)
      BY <2>1
    <3>3. Holds(p) /\ Does(p, "Zone", "Delete")
      BY <2>5, <3>1, <3>2
      DEF WaitsFor, WaitsForRow, WaitsForKeyShare, WaitsForParent, WaitsForChild,
          Holds, Writing
    <3> QED BY <2>4, <3>3
  <2>6. PICK p \in group : WaitsFor(h, p)
    BY <2>1
  <2>7. \/ Holds(p) /\ Does(p, "Region", "Delete")
        \/ Holds(p) /\ Does(p, "Zone", "Delete")
    BY <2>3, <2>6
    DEF WaitsFor, WaitsForRow, WaitsForKeyShare, WaitsForParent, WaitsForChild,
        Holds, Writing, DeletesRegion
  <2> QED BY <2>4, <2>5, <2>7
<1> QED BY <1>1, TxInvariant, PTL

\* Whoever is waited for has a row version it has not committed.
LEMMA HoldersAreWaitedFor ==
    ASSUME NEW o \in Ops, NEW p \in Ops, WaitsFor(o, p)
    PROVE  Holds(p) /\ stage[o] \in {"statement", "checking", "written"}
BY DEF WaitsFor, WaitsForRow, WaitsForKeyShare, HoldsKeyShare, Holds, Writing,
       WaitsForParent, WaitsForChild

\* A zone Delete that holds its row waits for nobody, a region Delete that holds its row
\* only for zone Deletes, and any other holder only for region Deletes.
LEMMA HoldersWait ==
    ASSUME TxInv, NEW o \in Ops, NEW p \in Ops, Holds(o), WaitsFor(o, p)
    PROVE  /\ ~Does(o, "Zone", "Delete")
           /\ Does(o, "Region", "Delete") => Does(p, "Zone", "Delete")
           /\ ~Does(o, "Region", "Delete") => Does(p, "Region", "Delete")
<1>1. stage[o] \in {"checking", "written"}
  BY HoldersAreWaitedFor DEF Holds, Writing
<1>2. CASE stage[o] = "checking"
  <2>1. ChecksParent(o) /\ WaitsForParent(o, p)
    BY <1>2 DEF TxInv, SeenParentExists, WaitsFor, WaitsForRow, WaitsForKeyShare,
                WaitsForChild
  <2> QED BY <2>1 DEF ChecksParent, WaitsForParent, DeletesRegion, Does
<1>3. CASE stage[o] = "written"
  BY <1>3 DEF WaitsFor, WaitsForRow, WaitsForKeyShare, WaitsForParent, WaitsForChild,
              DeletesRegion, Does
<1> QED BY <1>1, <1>2, <1>3

\* Waits are short: a statement may wait for a zone writer, that one for a region Delete,
\* and that one for a zone Delete, which waits for nobody.
WaitsAreShort ==
    \A o, p, q, r, s \in Ops :
        ~(WaitsFor(o, p) /\ WaitsFor(p, q) /\ WaitsFor(q, r) /\ WaitsFor(r, s))

\* However many transactions run, no chain of waits has more than three links: a waiting
\* statement holds no lock, so waiters never pile up behind one another.
THEOREM WaitsEndSoon == TxSpec => []WaitsAreShort
<1>1. ASSUME TxInv PROVE WaitsAreShort
  <2> SUFFICES ASSUME NEW o \in Ops, NEW p \in Ops, NEW q \in Ops, NEW r \in Ops,
                      NEW s \in Ops, WaitsFor(o, p), WaitsFor(p, q), WaitsFor(q, r),
                      WaitsFor(r, s)
               PROVE  FALSE
    BY DEF WaitsAreShort
  <2>1. Holds(p) /\ Holds(q) /\ Holds(r)
    BY HoldersAreWaitedFor
  <2>2. \/ Does(q, "Region", "Delete") /\ Does(r, "Zone", "Delete")
        \/ Does(q, "Zone", "Delete")
    BY <1>1, <2>1, HoldersWait
  <2> QED BY <1>1, <2>1, <2>2, HoldersWait
<1> QED BY <1>1, TxInvariant, PTL

\* What lets a running transaction take its next step: the guards of Proceed.
MayProceed(o) ==
    \/ stage[o] \in {"statement", "checking"} /\ ~Blocked(o)
    \/ stage[o] = "written" /\ ChecksParent(o)
    \/ /\ stage[o] = "written" /\ Does(o, "Region", "Delete")
       /\ RegionInUse(cmd[o]) =>
             \E z \in ZoneIds :
                 /\ zones[z] # Absent /\ zones[z].region = cmd[o].id
                 /\ \A p \in Ops : ~(Holds(p) /\ Does(p, "Zone", "Delete")
                                               /\ cmd[p].id = z)
    \/ MayEmit(o)
    \/ stage[o] = "emitted"

\* They are the guards: a transaction proceeds only when it may.
LEMMA ProceedsWhenItMay ==
    ASSUME NEW o \in Ops, Proceed(o) PROVE MayProceed(o)
BY DEF Proceed, Statement, StatementRefused, LookUpRegion, LockRegion, RestrictRegion,
       EmitEvent, CommitTx, MayProceed

\* A running transaction that cannot go on is waiting for another: no stage is a dead end.
LEMMA StuckIsBlocked ==
    ASSUME TxInv, NEW o \in Ops, stage[o] \in Running, ~MayProceed(o)
    PROVE  Blocked(o)
<1>1. stage[o] \in {"statement", "checking"} => Blocked(o)
  BY DEF MayProceed
<1>2. CASE stage[o] = "written"
  <2>1. Does(o, "Region", "Delete") /\ RegionInUse(cmd[o])
    BY <1>2 DEF MayProceed, MayEmit
  <2>2. PICK z \in ZoneIds : zones[z] # Absent /\ zones[z].region = cmd[o].id
    BY <2>1 DEF RegionInUse
  <2>3. PICK p \in Ops : Holds(p) /\ Does(p, "Zone", "Delete") /\ cmd[p].id = z
    BY <1>2, <2>1, <2>2 DEF MayProceed
  <2>4. WaitsForChild(o, p)
    BY <1>2, <2>1, <2>2, <2>3 DEF WaitsForChild, DeletesRegion
  <2>5. o # p
    BY <2>1, <2>3 DEF Does
  <2> QED BY <2>4, <2>5 DEF Blocked, WaitsFor
<1> QED BY <1>1, <1>2 DEF Running, Writing, MayProceed, MayEmit

\* While any transaction runs, some transaction may take its next step: the server never
\* stands still with every worker's statement waiting.
SomeoneProceeds ==
    (\E o \in Ops : stage[o] \in Running) =>
        \E o \in Ops : stage[o] \in Running /\ MayProceed(o)

THEOREM NoStandstill == TxSpec => []SomeoneProceeds
<1>1. ASSUME TxInv, NoWaitCycle PROVE SomeoneProceeds
  <2> SUFFICES ASSUME \E o \in Ops : stage[o] \in Running
               PROVE  \E o \in Ops : stage[o] \in Running /\ MayProceed(o)
    BY DEF SomeoneProceeds
  <2> DEFINE group == {o \in Ops : stage[o] \in Running}
  <2>1. group \in (SUBSET Ops) \ {{}}
    OBVIOUS
  <2>2. PICK o \in group : \A p \in group : ~WaitsFor(o, p)
    BY <1>1, <2>1 DEF NoWaitCycle
  <2>3. ~Blocked(o)
    BY <2>2, HoldersAreWaitedFor DEF Blocked, Holds, Running
  <2> QED BY <1>1, <2>2, <2>3, StuckIsBlocked
<1> QED BY <1>1, NoDeadlock, TxInvariant, PTL

-----------------------------------------------------------------------------
(* Refusals and sequence numbers.                                          *)

LEMMA RefusalStep ==
    ASSUME TxInv, RefusalInv, TxInv', [TxNext]_vars
    PROVE  RefusalInv'
<1>1. CASE UNCHANGED vars
  <2>1. UNCHANGED <<catalogVars, cmd, stage, seen, could>>
    BY <1>1 DEF vars, txVars
  <2> QED BY <2>1, CatalogFrame DEF RefusalInv, RefusalsRemembered, RefusalsAreTrue
<1>2. ASSUME NEW o \in Ops, NEW how \in {"checked", "failed"}, End(o, how),
             stage[o] \in Running
      PROVE  RefusalInv'
  <2>1. /\ UNCHANGED <<catalogVars, cmd, seen, could>> /\ stage'[o] = how
        /\ \A p \in Ops : p # o => stage'[p] = stage[p]
    BY <1>2 DEF End, TxInv, TxTypeOK
  <2>2. RefusalsRemembered'
    BY <1>2, <2>1, CatalogFrame DEF RefusalInv, RefusalsRemembered
  <2>3. RefusalsAreTrue'
    BY <2>1 DEF RefusalInv, RefusalsAreTrue, Refusals
  <2> QED BY <2>2, <2>3 DEF RefusalInv
<1>3. ASSUME NEW o \in Ops, NEW how \in Refusals, End(o, how), how \in could[o]
      PROVE  RefusalInv'
  <2>1. /\ UNCHANGED <<catalogVars, cmd, seen, could>> /\ stage'[o] = how
        /\ \A p \in Ops : p # o => stage'[p] = stage[p]
    BY <1>3 DEF End, TxInv, TxTypeOK
  <2>2. RefusalsRemembered'
    BY <2>1, CatalogFrame
    DEF RefusalInv, RefusalsRemembered, Running, Writing, Refusals
  <2>3. RefusalsAreTrue'
    BY <1>3, <2>1 DEF RefusalInv, RefusalsAreTrue
  <2> QED BY <2>2, <2>3 DEF RefusalInv
<1>4. ASSUME NEW o \in Ops, Begin(o) PROVE RefusalInv'
  <2>1. /\ UNCHANGED <<catalogVars, cmd>> /\ stage'[o] = "statement"
        /\ seen'[o] <=> Stored(cmd[o]) # Absent
        /\ could'[o] = TrueRefusals(cmd[o])
        /\ \A p \in Ops : p # o =>
               stage'[p] = stage[p] /\ seen'[p] = seen[p] /\ could'[p] = could[p]
    BY <1>4 DEF Begin, TxInv, TxTypeOK
  <2>2. ~seen'[o] /\ cmd[o].verb # "Create" => "NotFound" \in could'[o]
    BY <2>1, CommandOf DEF TrueRefusals, Refused, NoRows, Refusals, Verbs, TxInv
  <2>3. RefusalsRemembered'
    BY <2>1, <2>2, CatalogFrame DEF RefusalInv, RefusalsRemembered
  <2>4. RefusalsAreTrue'
    BY <2>1 DEF RefusalInv, RefusalsAreTrue, Refusals
  <2> QED BY <2>3, <2>4 DEF RefusalInv
<1>5. ASSUME NEW o \in Ops, Statement(o) \/ EmitEvent(o) PROVE RefusalInv'
  <2>1. /\ UNCHANGED <<catalogVars, cmd, seen, could>> /\ stage[o] \in Running
        /\ stage'[o] \in {"written", "emitted"}
        /\ \A p \in Ops : p # o => stage'[p] = stage[p]
    BY <1>5 DEF Statement, EmitEvent, MayEmit, TxInv, TxTypeOK, Running, Writing
  <2>2. RefusalsRemembered'
    BY <2>1, CatalogFrame DEF RefusalInv, RefusalsRemembered
  <2>3. RefusalsAreTrue'
    BY <2>1 DEF RefusalInv, RefusalsAreTrue, Refusals
  <2> QED BY <2>2, <2>3 DEF RefusalInv
<1>6. ASSUME NEW o \in Ops, LookUpRegion(o) PROVE RefusalInv'
  <2>1. /\ UNCHANGED <<catalogVars, cmd, row, could>> /\ stage[o] = "written"
        /\ ChecksParent(o) /\ stage'[o] = "checking"
        /\ seen'[o] <=> ~MissingRegion(cmd[o])
        /\ \A p \in Ops : p # o => stage'[p] = stage[p] /\ seen'[p] = seen[p]
    BY <1>6 DEF LookUpRegion, TxInv, TxTypeOK
  <2>2. ~UniqueViolation(cmd[o]) /\ ~NoRows(cmd[o])
    BY <2>1 DEF TxInv, LockedRowStands, Holds, Writing, UniqueViolation, NoRows
  <2>3. MissingRegion(cmd[o]) => "FailedPrecondition" \in TrueRefusals(cmd[o])
    BY <2>2 DEF TrueRefusals, Refused, ForeignKeyViolation, Refusals
  <2>4. ~seen'[o] => "FailedPrecondition" \in could'[o]
    BY <2>1, <2>3 DEF RefusalInv, RefusalsRemembered, Running, Writing
  <2>5. RefusalsRemembered'
    BY <2>1, <2>4, CatalogFrame
    DEF RefusalInv, RefusalsRemembered, Running, Writing
  <2>6. RefusalsAreTrue'
    BY <2>1 DEF RefusalInv, RefusalsAreTrue, Refusals
  <2> QED BY <2>5, <2>6 DEF RefusalInv
<1>7. ASSUME NEW o \in Ops, CommitTx(o) PROVE RefusalInv'
  <2>1. /\ UNCHANGED <<cmd, row>> /\ stage'[o] = "committed"
        /\ \A p \in Ops : p # o => stage'[p] = stage[p]
        /\ \A p \in Ops : seen'[p] = (seen[p] /\ ~Vanishes(o, p))
        /\ \A p \in Ops : could'[p] =
               IF stage[p] \in Running THEN could[p] \cup TrueRefusals(cmd[p])'
               ELSE could[p]
    BY <1>7 DEF CommitTx, TxInv, TxTypeOK
  <2>2. RefusalsAreTrue'
    BY <2>1 DEF RefusalInv, RefusalsAreTrue, Refusals
  <2>3. SUFFICES ASSUME NEW p \in Ops, stage'[p] \in Running
                 PROVE  /\ TrueRefusals(cmd[p])' \subseteq could'[p]
                        /\ stage'[p] = "statement" /\ ~seen'[p]
                              /\ cmd[p].verb # "Create" => "NotFound" \in could'[p]
                        /\ stage'[p] = "checking" /\ ~seen'[p]
                              => "FailedPrecondition" \in could'[p]
    BY <2>1, <2>2 DEF RefusalInv, RefusalsRemembered
  <2>4. /\ stage[p] = stage'[p] /\ p # o
        /\ could'[p] = could[p] \cup TrueRefusals(cmd[p])'
    BY <2>1, <2>3 DEF Running, Writing
  <2>5. ASSUME stage[p] = "statement", ~seen'[p], cmd[p].verb # "Create"
        PROVE  "NotFound" \in could'[p]
    <3>1. CASE ~seen[p]
      BY <2>3, <2>4, <2>5, <3>1 DEF RefusalInv, RefusalsRemembered
    <3>2. CASE Vanishes(o, p)
      <4>1. Stored(cmd[p])' = Absent
        BY <1>7, <2>5, <3>2, CommitTouches DEF Vanishes
      <4> QED BY <2>1, <2>4, <2>5, <4>1, CommandOf
              DEF TrueRefusals, Refused, NoRows, Refusals, Verbs, TxInv
    <3> QED BY <2>1, <2>5, <3>1, <3>2
  <2>6. ASSUME stage[p] = "checking", ~seen'[p]
        PROVE  "FailedPrecondition" \in could'[p]
    <3>1. CASE ~seen[p]
      BY <2>3, <2>4, <2>6, <3>1 DEF RefusalInv, RefusalsRemembered
    <3>2. CASE Vanishes(o, p)
      <4>1. /\ ChecksParent(p) /\ Holds(p) /\ row[p] = Written(cmd[p])
            /\ Holds(p)' /\ (ChecksParent(p)')
        BY <2>1, <2>4, <2>6
        DEF TxInv, SeenParentExists, LockedRowStands, Holds, Writing
      <4>2. /\ cmd[p].kind = "Zone" /\ cmd[p].verb \in {"Create", "Update"}
            /\ Parent(p) = cmd[p].region
            /\ cmd[p].verb = "Update" => cmd[p].region # NoRegion
        BY <4>1, CheckedRegion DEF TxInv
      <4>3. Does(o, "Region", "Delete") /\ cmd[o].id = cmd[p].region
        BY <2>6, <3>2, <4>2 DEF Vanishes, DeletesRegion
      <4>4. regions'[cmd[p].region] = Absent /\ cmd[p].region \in RegionIds
        <5>1. cmd[o].id \in RegionIds /\ cmd[o].kind = "Region" /\ row[o] = Absent
          BY <1>7, <4>3, CommitTouches, CommandOf DEF Does, TxInv
        <5> QED BY <1>7, <4>3, <5>1 DEF CommitTx, TxInv, TxTypeOK, CatalogTypeOK
      <4>5. MissingRegion(cmd[p])'
        BY <2>1, <4>2, <4>4, CatalogAssumption DEF MissingRegion
      <4>6. ~UniqueViolation(cmd[p])' /\ ~NoRows(cmd[p])'
        BY <4>1 DEF TxInv, LockedRowStands, UniqueViolation, NoRows
      <4>7. "FailedPrecondition" \in TrueRefusals(cmd[p])'
        BY <4>5, <4>6 DEF TrueRefusals, Refused, ForeignKeyViolation, Refusals
      <4> QED BY <2>4, <4>7
    <3> QED BY <2>1, <2>6, <3>1, <3>2
  <2> QED BY <2>4, <2>5, <2>6
<1>8. ASSUME NEW o \in Ops, StatementRefused(o) PROVE RefusalInv'
  <2>1. stage[o] = "statement" /\ Misses(o) /\ stage[o] \in Running
    BY <1>8 DEF StatementRefused, Running
  <2>2. CASE cmd[o].verb = "Create"
    <3>1. "AlreadyExists" \in TrueRefusals(cmd[o])
      BY <2>1, <2>2 DEF Misses, TrueRefusals, Refused, UniqueViolation, Refusals
    <3> QED BY <1>3, <1>8, <2>1, <2>2, <3>1
            DEF StatementRefused, Refusals, RefusalInv, RefusalsRemembered
  <2>3. CASE cmd[o].verb # "Create"
    <3>1. "NotFound" \in could[o]
      BY <2>1, <2>3 DEF Misses, RefusalInv, RefusalsRemembered
    <3> QED BY <1>3, <1>8, <2>3, <3>1 DEF StatementRefused, Refusals
  <2> QED BY <2>2, <2>3
<1>9. ASSUME NEW o \in Ops, LockRegion(o) PROVE RefusalInv'
  <2>1. stage[o] = "checking" /\ stage[o] \in Running
    BY <1>9 DEF LockRegion, Running, Writing
  <2>2. CASE seen[o]
    BY <1>2, <1>9, <2>1, <2>2 DEF LockRegion
  <2>3. CASE ~seen[o]
    BY <1>3, <1>9, <2>1, <2>3
    DEF LockRegion, Refusals, RefusalInv, RefusalsRemembered
  <2> QED BY <2>2, <2>3
<1>10. ASSUME NEW o \in Ops, RestrictRegion(o) PROVE RefusalInv'
  <2>1. stage[o] = "written" /\ stage[o] \in Running /\ Holds(o)
    BY <1>10 DEF RestrictRegion, Running, Writing, Holds
  <2>2. CASE ~RegionInUse(cmd[o])
    BY <1>2, <1>10, <2>1, <2>2 DEF RestrictRegion
  <2>3. CASE RegionInUse(cmd[o])
    <3>1. ~UniqueViolation(cmd[o]) /\ ~NoRows(cmd[o])
      BY <2>1 DEF TxInv, LockedRowStands, UniqueViolation, NoRows
    <3>2. "FailedPrecondition" \in TrueRefusals(cmd[o])
      BY <2>3, <3>1 DEF TrueRefusals, Refused, ForeignKeyViolation, Refusals
    <3> QED BY <1>3, <1>10, <2>1, <2>3, <3>2
            DEF RestrictRegion, Refusals, RefusalInv, RefusalsRemembered
  <2> QED BY <2>2, <2>3
<1>11. ASSUME NEW o \in Ops, Fail(o) PROVE RefusalInv'
  BY <1>2, <1>11 DEF Fail
<1> QED BY <1>1, <1>4, <1>5, <1>6, <1>7, <1>8, <1>9, <1>10, <1>11
        DEF TxNext, Proceed

\* A caller is never refused for something that was only begun: the reason held in
\* the committed catalog while the transaction ran.
THEOREM RefusedForCause == TxSpec => []RefusalsAreTrue
<1>1. TxInit => RefusalInv
  BY DEF TxInit, RefusalInv, RefusalsRemembered, RefusalsAreTrue, Running, Writing,
         Refusals
<1>2. RefusalInv => RefusalsAreTrue
  BY DEF RefusalInv
<1> QED BY <1>1, <1>2, RefusalStep, TxInvariant, PTL DEF TxSpec

LEMMA NumberStep ==
    ASSUME TxInv, NumberInv, [TxNext]_vars
    PROVE  NumberInv'
<1>0. /\ numbers \in Seq(Nat) /\ outbox \in Seq(Event) /\ sequence \in Nat
      /\ Len(numbers) = Len(outbox) /\ DOMAIN numbers = DOMAIN outbox
  BY DEF TxInv, TxTypeOK, CatalogTypeOK, NumberInv
<1>1. ASSUME UNCHANGED <<outbox, numbers, sequence, drawn, cmd>>,
             \A p \in Ops : stage'[p] = "emitted" => stage[p] = "emitted"
      PROVE  NumberInv'
  BY <1>1 DEF NumberInv, SequenceOrdersEachResource, About
<1>2. ASSUME NEW o \in Ops, EmitEvent(o) PROVE NumberInv'
  <2>1. /\ UNCHANGED <<outbox, numbers, cmd>> /\ sequence' = sequence + 1
        /\ drawn'[o] = sequence + 1
        /\ \A p \in Ops : p # o => stage'[p] = stage[p] /\ drawn'[p] = drawn[p]
    BY <1>2 DEF EmitEvent, Draw, TxInv, TxTypeOK, catalogVars
  <2>2. \A i \in DOMAIN numbers : numbers[i] \in Nat /\ numbers[i] <= sequence
    BY <1>0 DEF NumberInv
  <2>3. \A i \in DOMAIN numbers : numbers[i] <= sequence' /\ numbers[i] < drawn'[o]
    BY <1>0, <2>1, <2>2
  <2>4. \A p \in Ops : stage'[p] = "emitted" => \A i \in DOMAIN outbox :
            About(outbox[i], cmd[p].kind, cmd[p].id) => numbers[i] < drawn'[p]
    BY <1>0, <2>1, <2>3 DEF NumberInv
  <2>5. \A p \in Ops : drawn'[p] <= sequence'
    BY <1>0, <2>1 DEF NumberInv, TxInv, TxTypeOK
  <2> QED BY <1>0, <2>1, <2>3, <2>4, <2>5 DEF NumberInv, SequenceOrdersEachResource, About
<1>3. ASSUME NEW o \in Ops, CommitTx(o) PROVE NumberInv'
  <2> DEFINE e == AuditEvent(cmd[o], actor[o], o)
             n == Len(outbox)
  <2>1. /\ UNCHANGED <<cmd, sequence, drawn>> /\ stage[o] = "emitted"
        /\ stage'[o] = "committed" /\ numbers' = Append(numbers, drawn[o])
        /\ \A p \in Ops : p # o => stage'[p] = stage[p]
    BY <1>3 DEF CommitTx, TxInv, TxTypeOK
  <2>2. outbox' = Append(outbox, e)
    BY <1>3, CommitRefines DEF Commit, Emit
  <2>3. e.kind = cmd[o].kind /\ e.id = cmd[o].id
    BY DEF AuditEvent
  <2>4. /\ n \in Nat /\ Len(outbox') = n + 1 /\ Len(numbers') = n + 1
        /\ DOMAIN outbox = 1..n /\ DOMAIN numbers = 1..n
        /\ DOMAIN outbox' = 1..(n + 1) /\ DOMAIN numbers' = 1..(n + 1)
        /\ \A i \in 1..n : outbox'[i] = outbox[i] /\ numbers'[i] = numbers[i]
        /\ outbox'[n + 1] = e /\ numbers'[n + 1] = drawn[o]
    <3>1. e \in Event
      BY <1>3, CommitRefines, CommandOf, CommitKeepsTypes DEF TxInv, TxTypeOK
    <3>2. drawn[o] \in Nat
      BY DEF TxInv, TxTypeOK
    <3> HIDE DEF e
    <3> QED BY <1>0, <2>1, <2>2, <3>1, <3>2
  <2>5. drawn[o] <= sequence
    BY <2>1, <2>4 DEF NumberInv
  <2>6. \A i \in DOMAIN numbers' : numbers'[i] <= sequence'
    BY <2>1, <2>4, <2>5 DEF NumberInv
  <2>7. \A i \in 1..n : About(outbox[i], e.kind, e.id) => numbers[i] < drawn[o]
    BY <2>1, <2>3, <2>4 DEF NumberInv
  <2>8. ASSUME NEW p \in Ops, stage'[p] = "emitted", NEW i \in DOMAIN outbox',
               About(outbox'[i], cmd[p].kind, cmd[p].id)
        PROVE  numbers'[i] < drawn[p]
    <3>1. stage[p] = "emitted" /\ p # o /\ Holds(p) /\ Holds(o)
      BY <2>1, <2>8 DEF Holds, Writing
    <3>2. i # n + 1
      BY <2>3, <2>4, <2>8, <3>1 DEF TxInv, OneHolder, SameRow, About
    <3> QED BY <2>4, <2>8, <3>1, <3>2 DEF NumberInv
  <2>9. SequenceOrdersEachResource'
    <3>1. SUFFICES ASSUME NEW i \in 1..(n + 1), NEW j \in 1..(n + 1), i < j,
                          About(outbox'[j], outbox'[i].kind, outbox'[i].id)
                   PROVE  numbers'[i] < numbers'[j]
      BY <2>4 DEF SequenceOrdersEachResource
    <3>2. CASE j \in 1..n
      BY <2>4, <3>1, <3>2 DEF NumberInv, SequenceOrdersEachResource
    <3>3. CASE j = n + 1
      <4>1. i \in 1..n /\ About(outbox[i], e.kind, e.id)
        BY <2>4, <3>1, <3>3 DEF About
      <4> QED BY <2>4, <2>7, <3>3, <4>1
    <3> QED BY <2>4, <3>2, <3>3
  <2> QED BY <2>1, <2>4, <2>6, <2>8, <2>9 DEF NumberInv
<1>4. ASSUME NEW o \in Ops, Begin(o) \/ Proceed(o) \/ Fail(o),
             ~EmitEvent(o), ~CommitTx(o)
      PROVE  NumberInv'
  <2>1. UNCHANGED <<outbox, numbers, sequence, drawn, cmd>>
    BY <1>4 DEF Begin, Proceed, Fail, Statement, StatementRefused, LookUpRegion,
                LockRegion, RestrictRegion, End, catalogVars
  <2>2. \E how \in Stages \ {"emitted"} : stage' = [stage EXCEPT ![o] = how]
    BY <1>4 DEF Begin, Proceed, Fail, Statement, StatementRefused, LookUpRegion,
                LockRegion, RestrictRegion, End, Stages, Running, Writing, Ended,
                Refusals
  <2>3. \A p \in Ops : stage'[p] = "emitted" => stage[p] = "emitted"
    BY <2>2 DEF TxInv, TxTypeOK
  <2> QED BY <1>1, <2>1, <2>3
<1>5. CASE UNCHANGED vars
  BY <1>1, <1>5 DEF vars, txVars, catalogVars
<1> QED BY <1>2, <1>3, <1>4, <1>5 DEF TxNext, Proceed

\* The number drawn under the lock of a row is above those of the row's earlier
\* events: reading geo_outbox by its primary key gives each life in order.
THEOREM SequenceFollowsLife == TxSpec => []SequenceOrdersEachResource
<1>1. TxInit => NumberInv
  BY DEF TxInit, CatalogInit, NumberInv, SequenceOrdersEachResource
<1>2. NumberInv => SequenceOrdersEachResource
  BY DEF NumberInv
<1> QED BY <1>1, <1>2, NumberStep, TxInvariant, PTL DEF TxSpec

-----------------------------------------------------------------------------
(* Replaying geo_outbox by sequence_no: a zone's event comes after that of  *)
(* its region, and the region's DELETED after the event by which the zone   *)
(* left, for what has been committed and for what has drawn its number.     *)

\* A replay of the numbers below n ends with region r stored.
Present(r, n) ==
    \E m \in DOMAIN outbox :
        /\ About(outbox[m], "Region", r) /\ outbox[m].row # Absent
        /\ numbers[m] < n
        /\ \A k \in DOMAIN outbox :
               About(outbox[k], "Region", r) /\ numbers[k] < n => numbers[k] <= numbers[m]

PutsZone(i) == outbox[i].kind = "Zone" /\ outbox[i].row # Absent

DropsRegion(j, r) == About(outbox[j], "Region", r) /\ outbox[j].row = Absent

\* The zone of event i has another event, numbered below n.
LeftBefore(i, n) ==
    \E k \in DOMAIN outbox :
        /\ About(outbox[k], "Zone", outbox[i].id)
        /\ numbers[i] < numbers[k] /\ numbers[k] < n

\* o has drawn its number for a zone it puts into a region.
PuttingZone(o) == stage[o] = "emitted" /\ cmd[o].kind = "Zone" /\ row[o] # Absent

CommittedDependencies ==
    \A i \in DOMAIN outbox : PutsZone(i) =>
        /\ outbox[i].id \in ZoneIds
        /\ Present(outbox[i].row.region, numbers[i])
        /\ \A j \in DOMAIN outbox :
               DropsRegion(j, outbox[i].row.region) /\ numbers[i] <= numbers[j]
                   => LeftBefore(i, numbers[j])

DrawnDependencies ==
    \A o \in Ops :
        /\ PuttingZone(o) =>
              /\ Present(row[o].region, drawn[o])
              /\ \A j \in DOMAIN outbox :
                     DropsRegion(j, row[o].region) => numbers[j] < drawn[o]
        /\ stage[o] = "emitted" =>
              \A i \in DOMAIN outbox :
                  PutsZone(i) /\ DeletesRegion(o, outbox[i].row.region)
                      => LeftBefore(i, drawn[o])

DependencyInv == CommittedDependencies /\ DrawnDependencies

\* Numbers order the events of a resource as its commits do.
LEMMA ResourceOrder ==
    ASSUME TxInv, NumberInv, NEW i \in DOMAIN outbox, NEW k \in DOMAIN outbox,
           About(outbox[k], outbox[i].kind, outbox[i].id)
    PROVE  /\ numbers[i] \in Nat /\ numbers[i] <= sequence
           /\ i < k => numbers[i] < numbers[k]
           /\ k <= i => numbers[k] <= numbers[i]
           /\ numbers[i] = numbers[k] => i = k
<1>1. /\ numbers \in Seq(Nat) /\ DOMAIN numbers = DOMAIN outbox
      /\ DOMAIN outbox \subseteq Nat
  BY DEF TxInv, TxTypeOK, CatalogTypeOK, NumberInv
<1>2. numbers[i] \in Nat /\ numbers[k] \in Nat /\ numbers[i] <= sequence
  BY <1>1 DEF NumberInv
<1>3. i < k => numbers[i] < numbers[k]
  BY DEF NumberInv, SequenceOrdersEachResource
<1>4. k < i => numbers[k] < numbers[i]
  BY DEF NumberInv, SequenceOrdersEachResource, About
<1> QED BY <1>1, <1>2, <1>3, <1>4

\* A region that is stored is there for any number still to be drawn.
LEMMA StoredIsPresent ==
    ASSUME TxInv, NumberInv, OutboxReflectsCatalog, NEW r, RegionStored(r),
           NEW n \in Nat, sequence < n
    PROVE  Present(r, n)
<1>1. TrailSays("Region", r, regions[r]) /\ regions[r] # Absent
  BY DEF RegionStored, OutboxReflectsCatalog
<1>2. PICK m \in DOMAIN outbox :
         /\ About(outbox[m], "Region", r) /\ outbox[m].row # Absent
         /\ \A k \in DOMAIN outbox : About(outbox[k], "Region", r) => k <= m
  BY <1>1 DEF TrailSays
<1>3. \A k \in DOMAIN outbox : About(outbox[k], "Region", r) => numbers[k] <= numbers[m]
  BY <1>2, ResourceOrder DEF About
<1>4. numbers[m] < n
  <2>1. numbers[m] \in Nat /\ numbers[m] <= sequence /\ sequence \in Nat
    BY ResourceOrder DEF About, TxInv, TxTypeOK
  <2> QED BY <2>1
<1> QED BY <1>2, <1>3, <1>4 DEF Present

\* A zone has left a region that stores none, before any number still to be drawn.
LEMMA EmptyIsLeft ==
    ASSUME TxInv, NumberInv, OutboxReflectsCatalog, CommittedDependencies,
           NEW i \in DOMAIN outbox, PutsZone(i), NEW n \in Nat, sequence < n,
           \A z \in ZoneIds : zones[z] # Absent => zones[z].region # outbox[i].row.region
    PROVE  LeftBefore(i, n)
<1>1. outbox[i].id \in ZoneIds
  BY DEF CommittedDependencies
<1>2. PICK z \in ZoneIds : z = outbox[i].id
  BY <1>1
<1>3. About(outbox[i], "Zone", z) /\ TrailSays("Zone", z, zones[z])
  BY <1>2 DEF About, PutsZone, OutboxReflectsCatalog
<1>4. PICK k \in DOMAIN outbox :
         /\ About(outbox[k], "Zone", z) /\ outbox[k].row = zones[z]
         /\ \A j \in DOMAIN outbox : About(outbox[j], "Zone", z) => j <= k
  BY <1>3 DEF TrailSays
<1>5. i # k /\ i <= k
  BY <1>3, <1>4 DEF PutsZone
<1>6. i < k
  <2>1. i \in Nat /\ k \in Nat
    BY DEF TxInv, TxTypeOK, CatalogTypeOK
  <2> QED BY <1>5, <2>1
<1>7. numbers[i] < numbers[k] /\ numbers[k] \in Nat /\ numbers[k] <= sequence
  BY <1>3, <1>4, <1>6, ResourceOrder DEF About
<1>8. numbers[k] < n
  BY <1>7 DEF TxInv, TxTypeOK
<1> QED BY <1>2, <1>4, <1>7, <1>8 DEF LeftBefore

\* The region a zone is put into is stored, and nobody is about to delete it.
LEMMA ParentStands ==
    ASSUME TxInv, NEW o \in Ops, MayEmit(o) \/ stage[o] = "emitted",
           cmd[o].kind = "Zone", row[o] # Absent
    PROVE  /\ RegionStored(row[o].region)
           /\ \A p \in Ops : stage[p] \in {"checked", "emitted"}
                                => ~DeletesRegion(p, row[o].region)
<1>1. /\ Holds(o) /\ row[o] = Written(cmd[o])
      /\ cmd[o].verb = "Create" <=> Stored(cmd[o]) = Absent
  BY DEF MayEmit, Holds, Writing, TxInv, LockedRowStands
<1>2. CASE ChecksParent(o)
  <2>1. stage[o] \in {"checked", "emitted"}
    BY <1>2 DEF MayEmit
  <2> QED BY <1>2, <2>1 DEF TxInv, LockedParentStands, Holds, Writing
<1>3. CASE ~ChecksParent(o)
  <2>1. cmd[o].verb = "Update" /\ row[o].region = zones[cmd[o].id].region
    BY <1>1, <1>3, CommandOf DEF ChecksParent, Does, Verbs, Written, TxInv
  <2>2. /\ cmd[o].id \in ZoneIds /\ zones[cmd[o].id] # Absent
    BY <1>1, <2>1, CommandOf, CatalogAssumption DEF Stored, TxInv
  <2>3. zones[cmd[o].id] \in ZoneRow /\ regions[zones[cmd[o].id].region] # Absent
    BY <2>2 DEF TxInv, TxTypeOK, CatalogTypeOK, ReferentialIntegrity
  <2>4. RegionStored(row[o].region)
    BY <2>1, <2>3 DEF ZoneRow, RegionStored
  <2>5. \A p \in Ops : stage[p] \in {"checked", "emitted"}
                          => ~DeletesRegion(p, row[o].region)
    BY <2>1, <2>2 DEF TxInv, RestrictedIsEmpty, DeletesRegion, Does
  <2> QED BY <2>4, <2>5
<1> QED BY <1>2, <1>3

\* Drawing a number, with the locks held.
LEMMA EmitKeepsDependencies ==
    ASSUME TxInv, NumberInv, OutboxReflectsCatalog, DependencyInv, NEW o \in Ops,
           EmitEvent(o)
    PROVE  DependencyInv'
<1>1. /\ UNCHANGED <<outbox, numbers, cmd, row>> /\ MayEmit(o)
      /\ drawn'[o] = sequence + 1
      /\ \A p \in Ops : p # o => stage'[p] = stage[p] /\ drawn'[p] = drawn[p]
  BY DEF EmitEvent, Draw, TxInv, TxTypeOK, catalogVars
<1>2. /\ \A r, n : Present(r, n)' <=> Present(r, n)
      /\ \A i, n : LeftBefore(i, n)' <=> LeftBefore(i, n)
      /\ \A i, r : DropsRegion(i, r)' <=> DropsRegion(i, r)
      /\ \A i : PutsZone(i)' <=> PutsZone(i)
      /\ \A p \in Ops : \A r : DeletesRegion(p, r)' <=> DeletesRegion(p, r)
  BY <1>1 DEF Present, LeftBefore, DropsRegion, PutsZone, DeletesRegion, Does, About
<1>3. CommittedDependencies'
  BY <1>1, <1>2 DEF DependencyInv, CommittedDependencies
<1>4. sequence \in Nat /\ sequence + 1 \in Nat /\ sequence < sequence + 1
  BY DEF TxInv, TxTypeOK
<1>5. ASSUME cmd[o].kind = "Zone", row[o] # Absent
      PROVE  /\ Present(row[o].region, sequence + 1)
             /\ \A j \in DOMAIN outbox : numbers[j] < sequence + 1
  <2>1. Present(row[o].region, sequence + 1)
    BY <1>1, <1>4, <1>5, ParentStands, StoredIsPresent
  <2>2. \A j \in DOMAIN outbox : numbers[j] \in Nat /\ numbers[j] <= sequence
    BY ResourceOrder DEF About
  <2> QED BY <1>4, <2>1, <2>2
<1>6. ASSUME NEW i \in DOMAIN outbox, PutsZone(i), DeletesRegion(o, outbox[i].row.region)
      PROVE  LeftBefore(i, sequence + 1)
  <2>1. stage[o] = "checked"
    BY <1>1, <1>6 DEF MayEmit, DeletesRegion, Does
  <2>2. \A z \in ZoneIds : zones[z] # Absent => zones[z].region # outbox[i].row.region
    BY <1>6, <2>1 DEF TxInv, RestrictedIsEmpty, DeletesRegion, Does
  <2> QED BY <1>4, <1>6, <2>2, EmptyIsLeft DEF DependencyInv
<1>7. ASSUME NEW p \in Ops
      PROVE  /\ PuttingZone(p)' =>
                   /\ Present(row[p].region, drawn[p])'
                   /\ \A j \in DOMAIN outbox :
                          DropsRegion(j, row[p].region)' => numbers[j] < drawn'[p]
             /\ stage'[p] = "emitted" =>
                   \A i \in DOMAIN outbox :
                       PutsZone(i)' /\ DeletesRegion(p, outbox[i].row.region)'
                           => LeftBefore(i, drawn[p])'
  <2>1. CASE p = o
    BY <1>1, <1>2, <1>5, <1>6, <2>1 DEF PuttingZone, Present, LeftBefore, DropsRegion,
                                        DeletesRegion, Does, About
  <2>2. CASE p # o
    BY <1>1, <1>2, <2>2 DEF DependencyInv, DrawnDependencies, PuttingZone, Present,
                            LeftBefore, DropsRegion, DeletesRegion, Does, About
  <2> QED BY <2>1, <2>2
<1>8. DrawnDependencies'
  BY <1>1, <1>7 DEF DrawnDependencies
<1> QED BY <1>3, <1>8 DEF DependencyInv

\* What a commit appends.
LEMMA CommitAppends ==
    ASSUME TxInv, NumberInv, NEW o \in Ops, CommitTx(o)
    PROVE  \E n \in Nat, e \in Event :
              /\ DOMAIN outbox = 1..n /\ DOMAIN outbox' = 1..(n + 1)
              /\ \A i \in 1..n : outbox'[i] = outbox[i] /\ numbers'[i] = numbers[i]
              /\ outbox'[n + 1] = e /\ numbers'[n + 1] = drawn[o]
              /\ e.kind = cmd[o].kind /\ e.id = cmd[o].id /\ e.row = row[o]
              /\ e.op = o
<1>1. /\ numbers \in Seq(Nat) /\ outbox \in Seq(Event) /\ drawn[o] \in Nat
      /\ Len(numbers) = Len(outbox)
  BY DEF TxInv, TxTypeOK, CatalogTypeOK, NumberInv
<1>2. /\ outbox' = Append(outbox, AuditEvent(cmd[o], actor[o], o))
      /\ numbers' = Append(numbers, drawn[o])
      /\ AuditEvent(cmd[o], actor[o], o) \in Event
  BY CommitRefines, CommandOf, CommitKeepsTypes DEF CommitTx, Commit, Emit, TxInv, TxTypeOK
<1>3. row[o] = Written(cmd[o])
  BY CommitTouches
<1>4. PICK e \in Event : e = AuditEvent(cmd[o], actor[o], o)
  BY <1>2
<1>5. e.kind = cmd[o].kind /\ e.id = cmd[o].id /\ e.row = row[o] /\ e.op = o
  BY <1>3, <1>4 DEF AuditEvent
<1>6. PICK n \in Nat : n = Len(outbox)
  BY <1>1
<1>7. /\ outbox' = Append(outbox, e) /\ DOMAIN outbox = 1..n /\ DOMAIN numbers = 1..n
  BY <1>1, <1>2, <1>4, <1>6
<1>8. /\ DOMAIN outbox' = 1..(n + 1)
      /\ \A i \in 1..n : outbox'[i] = outbox[i] /\ numbers'[i] = numbers[i]
      /\ outbox'[n + 1] = e /\ numbers'[n + 1] = drawn[o]
  BY <1>1, <1>2, <1>6, <1>7
<1> QED BY <1>5, <1>7, <1>8

\* A commit keeps the dependencies: the locks kept out whoever could break them.
LEMMA CommitKeepsDependencies ==
    ASSUME TxInv, NumberInv, DependencyInv, NEW o \in Ops, CommitTx(o)
    PROVE  DependencyInv'
<1>1. PICK n \in Nat, e \in Event :
         /\ DOMAIN outbox = 1..n /\ DOMAIN outbox' = 1..(n + 1)
         /\ \A i \in 1..n : outbox'[i] = outbox[i] /\ numbers'[i] = numbers[i]
         /\ outbox'[n + 1] = e /\ numbers'[n + 1] = drawn[o]
         /\ e.kind = cmd[o].kind /\ e.id = cmd[o].id /\ e.row = row[o]
  BY CommitAppends
<1>2. /\ UNCHANGED <<cmd, row, drawn>> /\ stage[o] = "emitted"
      /\ \A p \in Ops : stage'[p] = "emitted" => p # o /\ stage[p] = "emitted"
  BY DEF CommitTx, TxInv, TxTypeOK
<1>3. /\ \A i \in 1..n : numbers[i] \in Nat
      /\ \A p \in Ops : drawn[p] \in Nat
      /\ \A i \in 1..(n + 1) : i \in 1..n \/ i = n + 1
  <2>1. \A i \in 1..n : numbers[i] \in Nat
    BY <1>1, ResourceOrder DEF About
  <2>2. \A p \in Ops : drawn[p] \in Nat
    BY DEF TxInv, TxTypeOK
  <2> QED BY <2>1, <2>2
<1>4. \A r : About(e, "Region", r) /\ e.row = Absent => DeletesRegion(o, r)
  BY <1>1, CommitTouches DEF About, DeletesRegion, Does
<1>5. ASSUME NEW r, NEW x \in Nat, Present(r, x), DeletesRegion(o, r) => ~(drawn[o] < x)
      PROVE  Present(r, x)'
  <2>1. PICK m \in 1..n :
           /\ About(outbox[m], "Region", r) /\ outbox[m].row # Absent
           /\ numbers[m] < x
           /\ \A k \in 1..n :
                  About(outbox[k], "Region", r) /\ numbers[k] < x => numbers[k] <= numbers[m]
    BY <1>1, <1>5 DEF Present
  <2>2. CASE About(e, "Region", r) /\ numbers[m] < drawn[o] /\ drawn[o] < x
    <3>1. e.row # Absent
      BY <1>4, <1>5, <2>2
    <3>2. ASSUME NEW k \in 1..(n + 1), About(outbox'[k], "Region", r), numbers'[k] < x
          PROVE  numbers'[k] <= drawn[o]
      <4>1. CASE k \in 1..n
        <5>1. numbers[k] <= numbers[m]
          BY <1>1, <2>1, <3>2, <4>1
        <5> QED BY <1>1, <1>3, <2>2, <4>1, <5>1
      <4>2. CASE k = n + 1
        BY <1>1, <1>3, <4>2
      <4> QED BY <1>3, <4>1, <4>2
    <3>3. n + 1 \in 1..(n + 1)
      BY <1>1
    <3> QED BY <1>1, <2>2, <3>1, <3>2, <3>3 DEF Present, About
  <2>3. CASE ~(About(e, "Region", r) /\ numbers[m] < drawn[o] /\ drawn[o] < x)
    <3>1. ASSUME NEW k \in 1..(n + 1), About(outbox'[k], "Region", r), numbers'[k] < x
          PROVE  numbers'[k] <= numbers[m]
      <4>1. CASE k \in 1..n
        BY <1>1, <2>1, <3>1, <4>1
      <4>2. CASE k = n + 1
        <5>1. About(e, "Region", r) /\ drawn[o] < x /\ numbers'[k] = drawn[o]
          BY <1>1, <3>1, <4>2
        <5> QED BY <1>3, <2>1, <2>3, <5>1
      <4> QED BY <1>3, <4>1, <4>2
    <3>2. m \in 1..(n + 1) /\ outbox'[m] = outbox[m] /\ numbers'[m] = numbers[m]
      BY <1>1
    <3> QED BY <1>1, <2>1, <3>1, <3>2 DEF Present, About
  <2> QED BY <2>2, <2>3
<1>6. ASSUME NEW i \in 1..n
      PROVE  /\ PutsZone(i)' <=> PutsZone(i)
             /\ \A r : DropsRegion(i, r)' <=> DropsRegion(i, r)
             /\ \A x : LeftBefore(i, x) => LeftBefore(i, x)'
  <2>1. PutsZone(i)' <=> PutsZone(i)
    BY <1>1 DEF PutsZone
  <2>2. \A r : DropsRegion(i, r)' <=> DropsRegion(i, r)
    BY <1>1 DEF DropsRegion, About
  <2>3. ASSUME NEW x, LeftBefore(i, x) PROVE LeftBefore(i, x)'
    <3>1. PICK k \in 1..n : /\ About(outbox[k], "Zone", outbox[i].id)
                            /\ numbers[i] < numbers[k] /\ numbers[k] < x
      BY <1>1, <2>3 DEF LeftBefore
    <3>2. k \in 1..(n + 1) /\ outbox'[k] = outbox[k] /\ numbers'[k] = numbers[k]
      BY <1>1
    <3> QED BY <1>1, <3>1, <3>2 DEF LeftBefore, About
  <2> QED BY <2>1, <2>2, <2>3
<1>7. /\ PutsZone(n + 1)' => PuttingZone(o)
      /\ \A r : DropsRegion(n + 1, r)' => DeletesRegion(o, r)
  BY <1>1, <1>2, <1>4 DEF PutsZone, PuttingZone, DropsRegion, About
<1>8. ASSUME NEW i \in 1..(n + 1), PutsZone(i)'
      PROVE  /\ outbox'[i].id \in ZoneIds
             /\ Present(outbox[i].row.region, numbers[i])'
             /\ \A j \in 1..(n + 1) :
                    DropsRegion(j, outbox[i].row.region)' /\ numbers'[i] <= numbers'[j]
                        => LeftBefore(i, numbers[j])'
  <2>1. CASE i \in 1..n
    <3> DEFINE r == outbox[i].row.region
    <3>1. /\ outbox[i].id \in ZoneIds /\ Present(r, numbers[i])
          /\ \A j \in 1..n : DropsRegion(j, r) /\ numbers[i] <= numbers[j]
                                 => LeftBefore(i, numbers[j])
      BY <1>1, <1>6, <1>8, <2>1 DEF DependencyInv, CommittedDependencies
    <3>2. DeletesRegion(o, r) => LeftBefore(i, drawn[o])
      BY <1>1, <1>2, <1>6, <1>8, <2>1 DEF DependencyInv, DrawnDependencies
    <3>3. DeletesRegion(o, r) => ~(drawn[o] < numbers[i])
      BY <1>1, <1>3, <2>1, <3>2 DEF LeftBefore
    <3>4. Present(r, numbers[i])'
      <4>0. PICK x \in Nat : x = numbers[i]
        BY <1>3, <2>1
      <4>1. PICK q : q = outbox[i].row.region
        OBVIOUS
      <4>2. Present(q, x)'
        BY <1>5, <3>1, <3>3, <4>0, <4>1
      <4>3. numbers'[i] = x /\ outbox'[i].row.region = q
        BY <1>1, <2>1, <4>0, <4>1
      <4> QED BY <4>2, <4>3 DEF Present
    <3>5. ASSUME NEW j \in 1..(n + 1), DropsRegion(j, outbox[i].row.region)',
                 numbers'[i] <= numbers'[j]
          PROVE  LeftBefore(i, numbers[j])'
      <4>1. CASE j \in 1..n
        <5>1. LeftBefore(i, numbers[j])
          BY <1>1, <1>6, <2>1, <3>1, <3>5, <4>1 DEF DropsRegion
        <5>2. \A x : LeftBefore(i, x) => LeftBefore(i, x)'
          BY <1>6, <2>1
        <5> QED BY <1>1, <4>1, <5>1, <5>2 DEF LeftBefore
      <4>2. CASE j = n + 1
        <5>1. DeletesRegion(o, r)
          BY <1>1, <1>7, <2>1, <3>5, <4>2 DEF DropsRegion
        <5>2. \A x : LeftBefore(i, x) => LeftBefore(i, x)'
          BY <1>6, <2>1
        <5> QED BY <1>1, <3>2, <4>2, <5>1, <5>2 DEF LeftBefore
      <4> QED BY <1>3, <4>1, <4>2
    <3> QED BY <1>1, <2>1, <3>1, <3>4, <3>5 DEF Present
  <2>2. CASE i = n + 1
    <3>1. PuttingZone(o) /\ cmd[o].kind = "Zone" /\ e.row = row[o]
      BY <1>1, <1>7, <1>8, <2>2 DEF PuttingZone
    <3>2. /\ Present(row[o].region, drawn[o])
          /\ \A j \in 1..n : DropsRegion(j, row[o].region) => numbers[j] < drawn[o]
      BY <1>1, <3>1 DEF DependencyInv, DrawnDependencies
    <3>3. ~DeletesRegion(o, row[o].region)
      BY <3>1 DEF DeletesRegion, Does
    <3>4. Present(row[o].region, drawn[o])'
      <4>1. \A r : \A x \in Nat : Present(r, x) /\ ~DeletesRegion(o, r) => Present(r, x)'
        BY <1>5
      <4> QED BY <1>2, <1>3, <3>2, <3>3, <4>1 DEF Present
    <3>5. cmd[o].id \in ZoneIds
      BY <3>1, CommandOf DEF TxInv
    <3>6. ASSUME NEW j \in 1..(n + 1), DropsRegion(j, e.row.region)',
                 drawn[o] <= numbers'[j]
          PROVE  FALSE
      <4>1. CASE j \in 1..n
        BY <1>1, <1>3, <1>6, <3>1, <3>2, <3>6, <4>1
      <4>2. CASE j = n + 1
        BY <1>7, <3>1, <3>3, <3>6, <4>2
      <4> QED BY <1>3, <4>1, <4>2
    <3> QED BY <1>1, <1>2, <2>2, <3>1, <3>4, <3>5, <3>6 DEF Present, DropsRegion
  <2> QED BY <1>3, <2>1, <2>2
<1>9. CommittedDependencies'
  BY <1>1, <1>8 DEF CommittedDependencies
<1>10. ASSUME NEW p \in Ops, stage[p] = "emitted", PuttingZone(p)
       PROVE  /\ Present(row[p].region, drawn[p])'
              /\ \A j \in 1..(n + 1) :
                     DropsRegion(j, row[p].region)' => numbers'[j] < drawn[p]
  <2>1. /\ Present(row[p].region, drawn[p])
        /\ \A j \in 1..n : DropsRegion(j, row[p].region) => numbers[j] < drawn[p]
    BY <1>1, <1>10 DEF DependencyInv, DrawnDependencies
  <2>2. ~DeletesRegion(o, row[p].region)
    BY <1>2, <1>10, ParentStands DEF PuttingZone
  <2>3. Present(row[p].region, drawn[p])'
    <3>1. \A r : \A x \in Nat : Present(r, x) /\ ~DeletesRegion(o, r) => Present(r, x)'
      BY <1>5
    <3> QED BY <1>2, <1>3, <2>1, <2>2, <3>1 DEF Present
  <2>4. ASSUME NEW j \in 1..(n + 1), DropsRegion(j, row[p].region)'
        PROVE  numbers'[j] < drawn[p]
    <3>1. \A r : (r = row[p].region)' <=> r = row[p].region
      BY <1>2
    <3>2. CASE j \in 1..n
      BY <1>1, <1>2, <1>6, <2>1, <2>4, <3>2 DEF DropsRegion
    <3>3. CASE j = n + 1
      BY <1>2, <1>7, <2>2, <2>4, <3>3 DEF DropsRegion
    <3> QED BY <1>3, <3>2, <3>3
  <2> QED BY <2>3, <2>4
<1>11. ASSUME NEW p \in Ops, stage[p] = "emitted", NEW i \in 1..(n + 1), PutsZone(i)',
              DeletesRegion(p, outbox'[i].row.region)
       PROVE  LeftBefore(i, drawn[p])'
  <2>1. CASE i \in 1..n
    <3>1. LeftBefore(i, drawn[p])
      BY <1>1, <1>6, <1>11, <2>1 DEF DependencyInv, DrawnDependencies
    <3>2. \A x : LeftBefore(i, x) => LeftBefore(i, x)'
      BY <1>6, <2>1
    <3> QED BY <1>2, <3>1, <3>2 DEF LeftBefore
  <2>2. CASE i = n + 1
    <3>1. PuttingZone(o) /\ DeletesRegion(p, row[o].region)
      BY <1>1, <1>7, <1>11, <2>2
    <3> QED BY <1>2, <1>11, <3>1, ParentStands DEF PuttingZone
  <2> QED BY <1>3, <2>1, <2>2
<1>12. DrawnDependencies'
  <2>1. ASSUME NEW p \in Ops
        PROVE  /\ PuttingZone(p)' => stage[p] = "emitted" /\ PuttingZone(p)
               /\ \A r : DeletesRegion(p, r)' <=> DeletesRegion(p, r)
    BY <1>2 DEF PuttingZone, DeletesRegion, Does
  <2>2. ASSUME NEW p \in Ops, PuttingZone(p)'
        PROVE  /\ Present(row[p].region, drawn[p])'
               /\ \A j \in DOMAIN outbox' :
                      DropsRegion(j, row[p].region)' => numbers'[j] < drawn'[p]
    BY <1>1, <1>2, <1>10, <2>1, <2>2
  <2>3. ASSUME NEW p \in Ops, stage'[p] = "emitted", NEW i \in DOMAIN outbox',
               PutsZone(i)', DeletesRegion(p, outbox[i].row.region)'
        PROVE  LeftBefore(i, drawn[p])'
    <3>1. DeletesRegion(p, outbox'[i].row.region)
      BY <1>2, <2>3 DEF DeletesRegion, Does
    <3> QED BY <1>1, <1>2, <1>11, <2>3, <3>1
  <2> QED BY <2>2, <2>3 DEF DrawnDependencies
<1> QED BY <1>9, <1>12 DEF DependencyInv

LEMMA DependencyStep ==
    ASSUME TxInv, NumberInv, OutboxReflectsCatalog, DependencyInv, [TxNext]_vars
    PROVE  DependencyInv'
<1>1. ASSUME UNCHANGED <<outbox, numbers, drawn, cmd>>,
             \A p \in Ops : stage'[p] = "emitted" =>
                 stage[p] = "emitted" /\ row'[p] = row[p]
      PROVE  DependencyInv'
  <2>1. CommittedDependencies'
    BY <1>1 DEF DependencyInv, CommittedDependencies, PutsZone, Present, DropsRegion,
                LeftBefore, About
  <2>2. ASSUME NEW p \in Ops, stage'[p] = "emitted"
        PROVE  /\ PuttingZone(p)' =>
                     /\ Present(row[p].region, drawn[p])'
                     /\ \A j \in DOMAIN outbox :
                            DropsRegion(j, row[p].region)' => numbers[j] < drawn[p]
               /\ \A i \in DOMAIN outbox :
                      PutsZone(i)' /\ DeletesRegion(p, outbox[i].row.region)'
                          => LeftBefore(i, drawn[p])'
    BY <1>1, <2>2 DEF DependencyInv, DrawnDependencies, PuttingZone, PutsZone, Present,
                      DropsRegion, LeftBefore, About, DeletesRegion, Does
  <2>3. DrawnDependencies'
    BY <1>1, <2>2 DEF DrawnDependencies, PuttingZone
  <2> QED BY <2>1, <2>3 DEF DependencyInv
<1>2. ASSUME NEW o \in Ops, Begin(o) \/ Proceed(o) \/ Fail(o),
             ~EmitEvent(o), ~CommitTx(o)
      PROVE  DependencyInv'
  <2>1. UNCHANGED <<outbox, numbers, drawn, cmd>>
    BY <1>2 DEF Begin, Proceed, Fail, Statement, StatementRefused, LookUpRegion,
                LockRegion, RestrictRegion, End, catalogVars
  <2>2. /\ \E how \in Stages \ {"emitted"} : stage' = [stage EXCEPT ![o] = how]
        /\ \A p \in Ops : p # o => row'[p] = row[p]
    BY <1>2 DEF Begin, Proceed, Fail, Statement, StatementRefused, LookUpRegion,
                LockRegion, RestrictRegion, End, Stages, Running, Writing, Ended,
                Refusals, TxInv, TxTypeOK
  <2>3. \A p \in Ops : stage'[p] = "emitted" => stage[p] = "emitted" /\ row'[p] = row[p]
    BY <2>2 DEF TxInv, TxTypeOK
  <2> QED BY <1>1, <2>1, <2>3
<1>3. CASE UNCHANGED vars
  BY <1>1, <1>3 DEF vars, txVars, catalogVars
<1> QED
  BY <1>2, <1>3, EmitKeepsDependencies, CommitKeepsDependencies DEF TxNext, Proceed

\* What the dependencies mean for whoever replays the trail by number.
LEMMA ReplayFollowsDependencies ==
    ASSUME TxInv, NumberInv, CommittedDependencies
    PROVE  ReplayKeepsReferences
<1> SUFFICES ASSUME NEW n \in 1..sequence, NEW z \in ZoneIds, NEW zoneRow,
                    zoneRow # Absent, ReplayedUpTo(n, "Zone", z, zoneRow),
                    ReplayedUpTo(n, "Region", zoneRow.region, Absent)
             PROVE  FALSE
  BY DEF ReplayKeepsReferences
<1>1. PICK i \in DOMAIN outbox :
         /\ numbers[i] <= n /\ About(outbox[i], "Zone", z) /\ outbox[i].row = zoneRow
         /\ \A k \in DOMAIN outbox :
                numbers[k] <= n /\ About(outbox[k], "Zone", z) => numbers[k] <= numbers[i]
  BY DEF ReplayedUpTo
<1>2. PutsZone(i) /\ outbox[i].row.region = zoneRow.region
  BY <1>1 DEF PutsZone, About
<1>3. \A k \in DOMAIN outbox : numbers[k] \in Nat
  BY ResourceOrder DEF About
<1>4. n \in Nat
  BY DEF TxInv, TxTypeOK
<1>5. PICK m \in DOMAIN outbox :
         /\ About(outbox[m], "Region", zoneRow.region) /\ outbox[m].row # Absent
         /\ numbers[m] < numbers[i]
         /\ \A k \in DOMAIN outbox :
                About(outbox[k], "Region", zoneRow.region) /\ numbers[k] < numbers[i]
                    => numbers[k] <= numbers[m]
  BY <1>2 DEF CommittedDependencies, Present
<1>6. numbers[m] <= n
  BY <1>1, <1>3, <1>4, <1>5
<1>7. PICK j \in DOMAIN outbox :
         /\ numbers[j] <= n /\ DropsRegion(j, zoneRow.region)
         /\ numbers[m] <= numbers[j]
  BY <1>5, <1>6 DEF ReplayedUpTo, DropsRegion
<1>8. CASE numbers[j] < numbers[i]
  <2>1. numbers[j] = numbers[m]
    BY <1>3, <1>5, <1>7, <1>8 DEF DropsRegion
  <2>2. j = m
    BY <1>5, <1>7, <2>1, ResourceOrder DEF DropsRegion, About
  <2> QED BY <1>5, <1>7, <2>2 DEF DropsRegion
<1>9. CASE numbers[i] <= numbers[j]
  <2>1. LeftBefore(i, numbers[j])
    BY <1>2, <1>7, <1>9 DEF CommittedDependencies
  <2>2. PICK k \in DOMAIN outbox : /\ About(outbox[k], "Zone", z)
                                   /\ numbers[i] < numbers[k] /\ numbers[k] < numbers[j]
    BY <1>1, <2>1 DEF LeftBefore, About
  <2>3. numbers[k] <= n
    BY <1>3, <1>4, <1>7, <2>2
  <2> QED BY <1>1, <1>3, <2>2, <2>3
<1> QED BY <1>3, <1>8, <1>9

\* A reader that replays geo_outbox by sequence_no sees every zone within the life of its
\* region, although events of different resources may be committed in another order.
THEOREM ReplayIsSafe == TxSpec => []ReplayKeepsReferences
<1>1. TxInit => NumberInv /\ DependencyInv
  BY DEF TxInit, CatalogInit, NumberInv, SequenceOrdersEachResource, DependencyInv,
         CommittedDependencies, DrawnDependencies, PuttingZone
<1>2. /\ TxInv /\ NumberInv /\ [TxNext]_vars => NumberInv'
      /\ TxInv /\ NumberInv /\ OutboxReflectsCatalog /\ DependencyInv /\ [TxNext]_vars
             => DependencyInv'
  BY NumberStep, DependencyStep
<1>3. TxInv /\ NumberInv /\ DependencyInv => ReplayKeepsReferences
  BY ReplayFollowsDependencies DEF DependencyInv
<1> QED
  BY <1>1, <1>2, <1>3, TxInvariant, TransactionsImplementCatalog, CatalogReflected, PTL
  DEF TxSpec

-----------------------------------------------------------------------------
(* The account of sequence_no: who has drawn which number, and what became  *)
(* of it.                                                                   *)

\* A transaction that is committed has its event in the outbox, and only such a one has.
CommittedIsWritten == \A o \in Ops : stage[o] = "committed" <=> WrittenBy(o)

\* sequence_no is a key of geo_outbox.
NumbersAreUnique ==
    \A i, j \in DOMAIN outbox : numbers[i] = numbers[j] => i = j

\* A number that is missing from geo_outbox belongs to a transaction that has still to
\* commit or never will: none is lost otherwise.
GapsAreExplained ==
    \A n \in 1 .. sequence :
        \/ \E i \in DOMAIN outbox : numbers[i] = n
        \/ \E o \in Ops : drawn[o] = n /\ stage[o] \in {"emitted", "failed"}

\* Every number up to the last has been drawn by one transaction, which is then about to
\* commit, or committed under that number, or failed.
AccountInv ==
    /\ \A o, p \in Ops : drawn[o] = drawn[p] => drawn[o] = 0 \/ o = p
    /\ \A o \in Ops : drawn[o] # 0 => stage[o] \in {"emitted", "committed", "failed"}
    /\ \A o \in Ops : stage[o] \in {"emitted", "committed"} => drawn[o] # 0
    /\ \A n \in 1 .. sequence : \E o \in Ops : drawn[o] = n
    /\ \A i \in DOMAIN outbox : outbox[i].op \in Ops /\ numbers[i] = drawn[outbox[i].op]
    /\ \A i, j \in DOMAIN outbox : outbox[i].op = outbox[j].op => i = j
    /\ \A o \in Ops : stage[o] = "committed" => WrittenBy(o)

\* Steps that neither draw a number nor commit.
LEMMA AccountStands ==
    ASSUME TxInv, AccountInv, NEW o \in Ops, NEW how \in Stages \ {"emitted", "committed"},
           stage' = [stage EXCEPT ![o] = how], stage[o] \notin Ended,
           stage[o] = "emitted" => how = "failed",
           UNCHANGED <<outbox, numbers, sequence, drawn>>
    PROVE  AccountInv'
<1>1. /\ stage'[o] = how /\ \A p \in Ops : p # o => stage'[p] = stage[p]
      /\ stage[o] # "committed" /\ stage[o] # "failed"
  BY DEF TxInv, TxTypeOK, Ended
<1>2. \A p \in Ops : stage'[p] \in {"emitted", "committed"} =>
          p # o /\ stage[p] \in {"emitted", "committed"}
  BY <1>1
<1>3. \A p \in Ops : WrittenBy(p)' <=> WrittenBy(p)
  BY DEF WrittenBy
<1>4. \A p \in Ops : drawn'[p] # 0 => stage'[p] \in {"emitted", "committed", "failed"}
  <2> SUFFICES ASSUME NEW p \in Ops, drawn[p] # 0
               PROVE  stage'[p] \in {"emitted", "committed", "failed"}
    OBVIOUS
  <2>1. stage[p] \in {"emitted", "committed", "failed"}
    BY DEF AccountInv
  <2> QED BY <1>1, <2>1
<1> QED BY <1>1, <1>2, <1>3, <1>4 DEF AccountInv

LEMMA EmitKeepsAccount ==
    ASSUME TxInv, NumberInv, AccountInv, NEW o \in Ops, EmitEvent(o)
    PROVE  AccountInv'
<1>1. /\ UNCHANGED <<outbox, numbers>> /\ sequence' = sequence + 1 /\ sequence \in Nat
      /\ drawn'[o] = sequence + 1 /\ stage'[o] = "emitted"
      /\ stage[o] \in {"checked", "written"}
      /\ \A p \in Ops : p # o => stage'[p] = stage[p] /\ drawn'[p] = drawn[p]
      /\ \A p \in Ops : drawn[p] \in Nat /\ drawn[p] <= sequence
  BY DEF EmitEvent, MayEmit, Draw, TxInv, TxTypeOK, NumberInv, catalogVars
<1>2. drawn[o] = 0 /\ ~WrittenBy(o)
  BY <1>1 DEF AccountInv, TxInv, WrittenIsCommitted
<1>3. \A p, q \in Ops : drawn'[p] = drawn'[q] => drawn'[p] = 0 \/ p = q
  <2> SUFFICES ASSUME NEW p \in Ops, NEW q \in Ops, drawn'[p] = drawn'[q], p # q
               PROVE  drawn'[p] = 0
    OBVIOUS
  <2>1. p # o /\ q # o
    BY <1>1
  <2> QED BY <1>1, <2>1 DEF AccountInv
<1>4. ASSUME NEW n \in 1 .. sequence'
      PROVE  \E p \in Ops : drawn'[p] = n
  <2>1. CASE n = sequence + 1
    BY <1>1, <2>1
  <2>2. CASE n \in 1 .. sequence
    <3>1. PICK p \in Ops : drawn[p] = n
      BY <2>2 DEF AccountInv
    <3>2. p # o
      BY <1>2, <2>2, <3>1
    <3> QED BY <1>1, <3>1, <3>2
  <2> QED BY <1>1, <2>1, <2>2
<1>5. \A i \in DOMAIN outbox : outbox[i].op # o
  BY <1>2 DEF WrittenBy
<1>6. \A p \in Ops : /\ drawn'[p] # 0 => stage'[p] \in {"emitted", "committed", "failed"}
                     /\ stage'[p] \in {"emitted", "committed"} => drawn'[p] # 0
                     /\ stage'[p] = "committed" => WrittenBy(p)'
  BY <1>1 DEF AccountInv, WrittenBy
<1> QED BY <1>1, <1>3, <1>4, <1>5, <1>6 DEF AccountInv

LEMMA CommitKeepsAccount ==
    ASSUME TxInv, NumberInv, AccountInv, NEW o \in Ops, CommitTx(o)
    PROVE  AccountInv'
<1>1. /\ UNCHANGED <<sequence, drawn>> /\ stage[o] = "emitted" /\ stage'[o] = "committed"
      /\ \A p \in Ops : p # o => stage'[p] = stage[p]
  BY DEF CommitTx, TxInv, TxTypeOK
<1>2. PICK n \in Nat, e \in Event :
         /\ DOMAIN outbox = 1..n /\ DOMAIN outbox' = 1..(n + 1)
         /\ \A i \in 1..n : outbox'[i] = outbox[i] /\ numbers'[i] = numbers[i]
         /\ outbox'[n + 1] = e /\ numbers'[n + 1] = drawn[o] /\ e.op = o
  BY CommitAppends
<1>3. \A i \in 1..n : outbox[i].op # o
  BY <1>1, <1>2 DEF TxInv, WrittenIsCommitted, WrittenBy
<1>4. \A i \in DOMAIN outbox' : i \in 1..n \/ i = n + 1
  BY <1>2
<1>5. \A i \in DOMAIN outbox' :
         outbox'[i].op \in Ops /\ numbers'[i] = drawn'[outbox'[i].op]
  BY <1>1, <1>2, <1>4 DEF AccountInv
<1>6. \A i, j \in DOMAIN outbox' : outbox'[i].op = outbox'[j].op => i = j
  BY <1>2, <1>3, <1>4 DEF AccountInv
<1>7. \A p \in Ops : stage'[p] = "committed" => WrittenBy(p)'
  <2>1. WrittenBy(o)'
    BY <1>2 DEF WrittenBy
  <2>2. \A p \in Ops : WrittenBy(p) => WrittenBy(p)'
    BY <1>2 DEF WrittenBy
  <2> QED BY <1>1, <2>1, <2>2 DEF AccountInv
<1> QED BY <1>1, <1>5, <1>6, <1>7 DEF AccountInv

LEMMA AccountStep ==
    ASSUME TxInv, NumberInv, AccountInv, [TxNext]_vars
    PROVE  AccountInv'
<1>1. ASSUME NEW o \in Ops, Begin(o) \/ Proceed(o) \/ Fail(o),
             ~EmitEvent(o), ~CommitTx(o)
      PROVE  AccountInv'
  <2>1. UNCHANGED <<outbox, numbers, sequence, drawn>>
    BY <1>1 DEF Begin, Proceed, Fail, Statement, StatementRefused, LookUpRegion,
                LockRegion, RestrictRegion, End, catalogVars
  <2>2. \E how \in Stages \ {"emitted", "committed"} :
           /\ stage' = [stage EXCEPT ![o] = how]
           /\ stage[o] = "emitted" => how = "failed"
    BY <1>1 DEF Begin, Proceed, Fail, Statement, StatementRefused, LookUpRegion,
                LockRegion, RestrictRegion, End, Stages, Running, Writing, Ended,
                Refusals
  <2>3. stage[o] \notin Ended
    BY <1>1 DEF Begin, Proceed, Fail, Statement, StatementRefused, LookUpRegion,
                LockRegion, RestrictRegion, EmitEvent, CommitTx, Running, Writing,
                Ended, Refusals
  <2> QED BY <2>1, <2>2, <2>3, AccountStands
<1>2. CASE UNCHANGED vars
  BY <1>2 DEF vars, txVars, catalogVars, AccountInv, WrittenBy
<1> QED
  BY <1>1, <1>2, EmitKeepsAccount, CommitKeepsAccount DEF TxNext, Proceed

LEMMA AccountInvariant == TxSpec => []AccountInv
<1>1. TxInit => NumberInv /\ AccountInv
  BY DEF TxInit, CatalogInit, NumberInv, SequenceOrdersEachResource, AccountInv
<1> QED BY <1>1, NumberStep, AccountStep, TxInvariant, PTL DEF TxSpec

\* Two rows of geo_outbox never share a sequence_no, and the numbers a consumer does not
\* find are those of transactions still open or failed: a gap that stays after every open
\* transaction has ended stands for no event.
THEOREM SequenceIsAccountedFor ==
    TxSpec => [](NumbersAreUnique /\ GapsAreExplained)
<1>1. TxInv /\ AccountInv => NumbersAreUnique
  <2> SUFFICES ASSUME TxInv, AccountInv, NEW i \in DOMAIN outbox, NEW j \in DOMAIN outbox,
                      numbers[i] = numbers[j]
               PROVE  i = j
    BY DEF NumbersAreUnique
  <2>1. PICK o \in Ops : o = outbox[i].op /\ numbers[i] = drawn[o]
    BY DEF AccountInv
  <2>2. PICK p \in Ops : p = outbox[j].op /\ numbers[j] = drawn[p]
    BY DEF AccountInv
  <2>3. stage[o] = "committed"
    BY <2>1 DEF TxInv, WrittenIsCommitted, WrittenBy
  <2>4. o = p
    <3>1. drawn[o] # 0
      BY <2>3 DEF AccountInv
    <3>2. drawn[o] = drawn[p]
      BY <2>1, <2>2
    <3> QED BY <3>1, <3>2 DEF AccountInv
  <2>5. outbox[i].op = outbox[j].op
    BY <2>1, <2>2, <2>4
  <2> QED BY <2>5 DEF AccountInv
<1>2. AccountInv => GapsAreExplained
  <2> SUFFICES ASSUME AccountInv, NEW n \in 1 .. sequence
               PROVE  \/ \E i \in DOMAIN outbox : numbers[i] = n
                      \/ \E o \in Ops : drawn[o] = n /\ stage[o] \in {"emitted", "failed"}
    BY DEF GapsAreExplained
  <2>1. PICK o \in Ops : drawn[o] = n
    BY DEF AccountInv
  <2>2. stage[o] \in {"emitted", "committed", "failed"}
    BY <2>1 DEF AccountInv
  <2>3. CASE stage[o] = "committed"
    BY <2>1, <2>3 DEF AccountInv, WrittenBy
  <2> QED BY <2>1, <2>2, <2>3
<1> QED BY <1>1, <1>2, AccountInvariant, TxInvariant, PTL

\* The row and its event stand or fall together: a transaction has committed exactly when
\* its event is in geo_outbox.
THEOREM CommitsAreWritten == TxSpec => []CommittedIsWritten
<1>1. TxInv /\ AccountInv => CommittedIsWritten
  BY DEF TxInv, WrittenIsCommitted, AccountInv, CommittedIsWritten
<1> QED BY <1>1, AccountInvariant, TxInvariant, PTL

-----------------------------------------------------------------------------
(* No lost update.                                                         *)

\* What an update keeps of the row before it.
KeepsOmitted(c, before, after) ==
    /\ c.region = NoRegion => after.region = before.region
    /\ c.name = NoName => after.name = before.name
    /\ c.status = Unspecified => after.status = before.status

\* The last event about a zone describes it as stored.
LEMMA LastEventIsStored ==
    ASSUME CatalogTypeOK, OutboxReflectsCatalog, NEW z \in ZoneIds, NEW i \in DOMAIN outbox,
           About(outbox[i], "Zone", z),
           \A k \in DOMAIN outbox : i < k => ~About(outbox[k], "Zone", z)
    PROVE  outbox[i].row = zones[z]
<1>1. DOMAIN outbox \subseteq Nat
  BY DEF CatalogTypeOK
<1>2. PICK m \in DOMAIN outbox :
         /\ About(outbox[m], "Zone", z) /\ outbox[m].row = zones[z]
         /\ \A j \in DOMAIN outbox : About(outbox[j], "Zone", z) => j <= m
  BY DEF OutboxReflectsCatalog, TrailSays
<1> QED BY <1>1, <1>2

\* Under its lock an update has the omitted columns of the row that is stored now.
LEMMA LockedUpdateKeeps ==
    ASSUME TxInv, NEW o \in Ops, CommitTx(o), cmd[o].kind = "Zone", cmd[o].verb = "Update"
    PROVE  cmd[o].id \in ZoneIds /\ KeepsOmitted(cmd[o], zones[cmd[o].id], row[o])
<1>1. row[o] = ZoneUpdated(cmd[o])
  BY CommitTouches DEF Written
<1> QED BY <1>1, CommandOf DEF TxInv, ZoneUpdated, Coalesce, KeepsOmitted

LEMMA CommitKeepsOmitted ==
    ASSUME TxInv, NumberInv, OutboxReflectsCatalog, OmittedFieldsKept,
           NEW o \in Ops, CommitTx(o)
    PROVE  OmittedFieldsKept'
<1>1. PICK n \in Nat, e \in Event :
         /\ DOMAIN outbox = 1..n /\ DOMAIN outbox' = 1..(n + 1)
         /\ \A i \in 1..n : outbox'[i] = outbox[i]
         /\ outbox'[n + 1] = e
         /\ e.kind = cmd[o].kind /\ e.id = cmd[o].id /\ e.row = row[o] /\ e.op = o
  BY CommitAppends
<1>2. UNCHANGED cmd
  BY DEF CommitTx
<1>3. SUFFICES ASSUME NEW i \in 1..(n + 1), NEW j \in 1..(n + 1), Consecutive(i, j)',
                      cmd[outbox'[j].op].kind = "Zone", cmd[outbox'[j].op].verb = "Update"
               PROVE  KeepsOmitted(cmd[outbox'[j].op], outbox'[i].row, outbox'[j].row)
  BY <1>1, <1>2 DEF OmittedFieldsKept, KeepsOmitted
<1>4. /\ i < j /\ i \in 1..n
      /\ About(outbox'[j], outbox'[i].kind, outbox'[i].id)
      /\ \A k \in 1..(n + 1) :
             i < k /\ k < j => ~About(outbox'[k], outbox'[i].kind, outbox'[i].id)
  BY <1>1, <1>3 DEF Consecutive, About
<1>5. CASE j \in 1..n
  <2>1. outbox'[i] = outbox[i] /\ outbox'[j] = outbox[j]
    BY <1>1, <1>4, <1>5
  <2>2. \A k \in 1..n : i < k /\ k < j => ~About(outbox[k], outbox[i].kind, outbox[i].id)
    <3> SUFFICES ASSUME NEW k \in 1..n, i < k, k < j
                 PROVE  ~About(outbox[k], outbox[i].kind, outbox[i].id)
      OBVIOUS
    <3>1. k \in 1..(n + 1) /\ outbox'[k] = outbox[k]
      BY <1>1
    <3> QED BY <1>4, <2>1, <3>1 DEF About
  <2>3. Consecutive(i, j)
    BY <1>1, <1>4, <2>1, <2>2 DEF Consecutive, About
  <2> QED BY <1>1, <1>3, <1>4, <1>5, <2>1, <2>3 DEF OmittedFieldsKept, KeepsOmitted
<1>6. CASE j = n + 1
  <2>1. /\ outbox'[j].op = o /\ outbox'[j].row = row[o]
        /\ cmd[o].kind = "Zone" /\ cmd[o].verb = "Update"
        /\ outbox'[j].kind = "Zone" /\ outbox'[j].id = cmd[o].id
    BY <1>1, <1>3, <1>6
  <2>2. PICK z \in ZoneIds : z = cmd[o].id /\ KeepsOmitted(cmd[o], zones[z], row[o])
    BY <2>1, LockedUpdateKeeps
  <2>3. About(outbox[i], "Zone", z)
    BY <1>1, <1>4, <2>1, <2>2 DEF About
  <2>4. \A k \in DOMAIN outbox : i < k => ~About(outbox[k], "Zone", z)
    <3> SUFFICES ASSUME NEW k \in 1..n, i < k
                 PROVE  ~About(outbox[k], "Zone", z)
      BY <1>1
    <3>1. k \in 1..(n + 1) /\ k < j /\ outbox'[k] = outbox[k] /\ outbox'[i] = outbox[i]
      BY <1>1, <1>4, <1>6
    <3>2. ~About(outbox'[k], outbox'[i].kind, outbox'[i].id)
      BY <1>4, <3>1
    <3>3. outbox'[i].kind = "Zone" /\ outbox'[i].id = z
      BY <2>3, <3>1 DEF About
    <3> QED BY <3>1, <3>2, <3>3 DEF About
  <2>5. outbox[i].row = zones[z]
    <3>1. CatalogTypeOK
      BY DEF TxInv, TxTypeOK
    <3>2. i \in DOMAIN outbox
      BY <1>1, <1>4
    <3> QED BY <2>3, <2>4, <3>1, <3>2, LastEventIsStored
  <2>6. outbox'[i].row = zones[z]
    BY <1>1, <1>4, <2>5
  <2> QED BY <2>1, <2>2, <2>6
<1> QED BY <1>3, <1>5, <1>6

LEMMA OmittedStep ==
    ASSUME TxInv, NumberInv, OutboxReflectsCatalog, OmittedFieldsKept, [TxNext]_vars
    PROVE  OmittedFieldsKept'
<1>1. ASSUME UNCHANGED <<outbox, cmd>>
      PROVE  OmittedFieldsKept'
  BY <1>1 DEF OmittedFieldsKept, Consecutive, About
<1>2. ASSUME NEW o \in Ops, Begin(o) \/ Proceed(o) \/ Fail(o), ~CommitTx(o)
      PROVE  UNCHANGED <<outbox, cmd>>
  BY <1>2 DEF Begin, Proceed, Fail, Statement, StatementRefused, LookUpRegion, LockRegion,
              RestrictRegion, EmitEvent, End, catalogVars
<1>3. CASE UNCHANGED vars
  BY <1>1, <1>3 DEF vars, txVars, catalogVars
<1> QED BY <1>1, <1>2, <1>3, CommitKeepsOmitted DEF TxNext, Proceed

\* Two Updates of one zone under way at the same time never undo one another: each keeps
\* the columns its request omits as the one before it has left them.
THEOREM UpdatesLoseNothing == TxSpec => []OmittedFieldsKept
<1>1. TxInit => NumberInv /\ OmittedFieldsKept
  BY DEF TxInit, CatalogInit, NumberInv, SequenceOrdersEachResource, OmittedFieldsKept
<1> QED
  BY <1>1, NumberStep, OmittedStep, TxInvariant, TransactionsImplementCatalog,
     CatalogReflected, PTL
  DEF TxSpec

=============================================================================
