---------------------------- MODULE CatalogProofs ----------------------------
(***************************************************************************)
(* Theorems about Catalog, for every set of ids, names, requests, actors   *)
(* and operations.                                                         *)
(***************************************************************************)
EXTENDS Catalog, TLAPS

\* What a writer stores is a row of its table, or nothing for a Delete.
LEMMA WrittenRegion ==
    ASSUME CatalogTypeOK, NEW c \in Requests, Admissible(c), c.kind = "Region"
    PROVE  /\ c \in RegionCommand
           /\ Written(c) \in RegionRow \cup {Absent}
           /\ Written(c) = Absent <=> c.verb = "Delete"
<1>1. c \in RegionCommand
  BY CatalogAssumption DEF Command, RegionCommand, ZoneCommand
<1>2. CASE c.verb = "Delete"
  BY <1>1, <1>2 DEF Written, RegionRow
<1>3. CASE c.verb = "Create"
  <2>1. Written(c) = [name |-> c.name]
    BY <1>3 DEF Written, RegionInserted
  <2> QED BY <1>1, <1>3, <2>1, CatalogAssumption DEF RegionCommand, RegionRow
<1>4. CASE c.verb = "Update"
  <2>1. Written(c) = [name |-> Coalesce(c.name, NoName, regions[c.id].name)]
    BY <1>4 DEF Written, RegionUpdated
  <2>2. regions[c.id] \in RegionRow
    BY <1>1, <1>4 DEF Admissible, NoRows, Stored, CatalogTypeOK, RegionCommand
  <2> QED
    BY <1>1, <1>4, <2>1, <2>2, CatalogAssumption
    DEF RegionCommand, RegionRow, Coalesce
<1> QED BY <1>1, <1>2, <1>3, <1>4 DEF RegionCommand, Verbs

\* What ZoneRepo leaves in the table is a zone row in a known region, or none.
LEMMA WrittenZone ==
    ASSUME CatalogTypeOK, NEW c \in Requests, Admissible(c), c.kind = "Zone"
    PROVE  /\ c \in ZoneCommand
           /\ Written(c) \in ZoneRow \cup {Absent}
           /\ Written(c) = Absent <=> c.verb = "Delete"
<1>1. c \in ZoneCommand
  BY CatalogAssumption DEF Command, RegionCommand, ZoneCommand
<1>2. CASE c.verb = "Delete"
  BY <1>1, <1>2 DEF Written, ZoneRow
<1>3. CASE c.verb = "Create"
  <2>1. Written(c) = ZoneInserted(c)
    BY <1>3 DEF Written
  <2>2. c.region \in RegionIds
    BY <1>1, <1>3 DEF Admissible, ForeignKeyViolation, MissingRegion, ZoneCommand
  <2> QED
    BY <1>1, <1>3, <2>1, <2>2, CatalogAssumption
    DEF ZoneCommand, ZoneRow, ZoneInserted, Coalesce, Status, Unspecified
<1>4. CASE c.verb = "Update"
  <2>1. Written(c) = ZoneUpdated(c)
    BY <1>4 DEF Written
  <2>2. zones[c.id] \in ZoneRow
    BY <1>1, <1>4 DEF Admissible, NoRows, Stored, CatalogTypeOK, ZoneCommand
  <2> QED
    BY <1>1, <1>4, <2>1, <2>2, CatalogAssumption
    DEF ZoneCommand, ZoneRow, ZoneUpdated, Coalesce, Status, Unspecified
<1> QED BY <1>1, <1>2, <1>3, <1>4 DEF ZoneCommand, Verbs

-----------------------------------------------------------------------------
(* What one writer transaction preserves.                                  *)

\* A request is about a region or about a zone, with one of three verbs.
LEMMA CommandKinds ==
    ASSUME NEW c \in Requests
    PROVE  /\ c.verb \in Verbs
           /\ \/ c.kind = "Region" /\ c.id \in RegionIds
              \/ c.kind = "Zone" /\ c.id \in ZoneIds
BY CatalogAssumption DEF Command, RegionCommand, ZoneCommand

\* A committed transaction stores rows and an event of the tables' types.
LEMMA CommitKeepsTypes ==
    ASSUME CatalogTypeOK, NEW c \in Requests, NEW a \in Actors, NEW o \in Ops,
           Commit(c, a, o)
    PROVE  /\ CatalogTypeOK'
           /\ AuditEvent(c, a, o) \in Event
           /\ outbox' = Append(outbox, AuditEvent(c, a, o))
<1>1. Admissible(c)
  BY DEF Commit
<1>2. outbox' = Append(outbox, AuditEvent(c, a, o))
  BY DEF Commit, Emit
<1>3. AuditEvent(c, a, o) \in Event
  <2>1. TypeOfEvent(c.verb) \in EventType
    BY CommandKinds DEF Verbs, EventType, TypeOfEvent
  <2>2. Written(c) \in RegionRow \cup ZoneRow \cup {Absent}
    BY <1>1, CommandKinds, WrittenRegion, WrittenZone
  <2> QED BY <2>1, <2>2, CommandKinds DEF AuditEvent, Event
<1>4. outbox' \in Seq(Event)
  BY <1>2, <1>3 DEF CatalogTypeOK
<1>5. CASE c.kind = "Region"
  <2>1. Written(c) \in RegionRow \cup {Absent} /\ c.id \in RegionIds
    BY <1>1, <1>5, WrittenRegion, CommandKinds
  <2> QED BY <1>2, <1>3, <1>4, <1>5, <2>1 DEF Commit, CatalogTypeOK
<1>6. CASE c.kind = "Zone"
  <2>1. Written(c) \in ZoneRow \cup {Absent} /\ c.id \in ZoneIds
    BY <1>1, <1>6, WrittenZone, CommandKinds
  <2> QED BY <1>2, <1>3, <1>4, <1>6, <2>1 DEF Commit, CatalogTypeOK
<1> QED BY <1>5, <1>6, CommandKinds

\* The row a writer commits does not dangle, and no zone is left behind.
LEMMA CommitKeepsReferences ==
    ASSUME CatalogTypeOK, ReferentialIntegrity,
           NEW c \in Requests, NEW a \in Actors, NEW o \in Ops, Commit(c, a, o)
    PROVE  ReferentialIntegrity'
<1>1. Admissible(c) /\ ~MissingRegion(c) /\ ~RegionInUse(c)
  BY DEF Commit, Admissible, ForeignKeyViolation
<1>2. SUFFICES ASSUME NEW z \in ZoneIds, zones'[z] # Absent
               PROVE  regions'[zones'[z].region] # Absent
  BY DEF ReferentialIntegrity
<1>3. CASE c.kind = "Region"
  <2>1. /\ zones' = zones
        /\ regions' = [regions EXCEPT ![c.id] = Written(c)]
    BY <1>3 DEF Commit
  <2>2. /\ zones[z].region \in RegionIds
        /\ regions[zones[z].region] # Absent
    BY <1>2, <2>1 DEF CatalogTypeOK, ZoneRow, ReferentialIntegrity
  <2>3. zones[z].region = c.id => Written(c) # Absent
    BY <1>1, <1>2, <1>3, <2>1, WrittenRegion DEF RegionInUse
  <2> QED BY <2>1, <2>2, <2>3 DEF CatalogTypeOK
<1>4. CASE c.kind = "Zone"
  <2>1. /\ regions' = regions
        /\ zones' = [zones EXCEPT ![c.id] = Written(c)]
        /\ c.id \in ZoneIds
    BY <1>4, CommandKinds DEF Commit
  <2>2. CASE z # c.id
    BY <1>2, <2>1, <2>2 DEF CatalogTypeOK, ReferentialIntegrity
  <2>3. CASE z = c.id
    <3>1. zones'[z] = Written(c) /\ c.verb # "Delete" /\ c \in ZoneCommand
      BY <1>1, <1>2, <1>4, <2>1, <2>3, WrittenZone DEF CatalogTypeOK
    <3>2. CASE c.verb = "Create"
      <4>1. Written(c).region = c.region
        BY <3>2, <1>4 DEF Written, ZoneInserted
      <4> QED BY <1>1, <1>4, <2>1, <3>1, <3>2, <4>1 DEF MissingRegion
    <3>3. CASE c.verb = "Update"
      <4>1. Written(c).region = Coalesce(c.region, NoRegion, zones[c.id].region)
        BY <3>3, <1>4 DEF Written, ZoneUpdated
      <4>2. zones[c.id] # Absent
        BY <1>1, <1>4, <3>3 DEF Admissible, NoRows, Stored
      <4> QED
        BY <1>1, <1>4, <2>1, <3>1, <3>3, <4>1, <4>2
        DEF MissingRegion, Coalesce, ReferentialIntegrity
    <3> QED BY <3>1, <3>2, <3>3 DEF ZoneCommand, Verbs
  <2> QED BY <2>2, <2>3
<1> QED BY <1>3, <1>4, CommandKinds

-----------------------------------------------------------------------------
(* The audit trail.                                                        *)

\* Exactly the DELETED events carry no row: what ties the type of the last event
\* about a resource to its presence in the tables.
DeletesCarryNoRow ==
    \A i \in DOMAIN outbox : outbox[i].row = Absent <=> outbox[i].type = "DELETED"

\* The trail grows at its end.
LEMMA Appended ==
    ASSUME CatalogTypeOK, NEW e \in Event, outbox' = Append(outbox, e)
    PROVE  /\ Len(outbox) \in Nat
           /\ DOMAIN outbox = 1 .. Len(outbox)
           /\ DOMAIN outbox' = 1 .. (Len(outbox) + 1)
           /\ \A i \in 1 .. Len(outbox) : outbox'[i] = outbox[i]
           /\ outbox'[Len(outbox) + 1] = e
BY DEF CatalogTypeOK

\* A committed transaction's event carries no row exactly if it is DELETED.
LEMMA CommitMarksDeletes ==
    ASSUME CatalogTypeOK, DeletesCarryNoRow,
           NEW c \in Requests, NEW a \in Actors, NEW o \in Ops, Commit(c, a, o)
    PROVE  DeletesCarryNoRow'
<1> DEFINE e == AuditEvent(c, a, o)
<1>1. /\ Admissible(c) /\ e \in Event /\ outbox' = Append(outbox, e)
  BY CommitKeepsTypes DEF Commit
<1>2. e.row = Written(c) /\ e.type = TypeOfEvent(c.verb)
  BY DEF AuditEvent
<1>3. Written(c) = Absent <=> c.verb = "Delete"
  BY <1>1, CommandKinds, WrittenRegion, WrittenZone
<1>4. TypeOfEvent(c.verb) = "DELETED" <=> c.verb = "Delete"
  BY CommandKinds DEF TypeOfEvent, Verbs
<1> HIDE DEF e
<1> QED BY <1>1, <1>2, <1>3, <1>4, Appended DEF DeletesCarryNoRow

\* What a transaction stores is what the event it appends says, and the trails of
\* the other resources are untouched.
LEMMA CommitIsReflected ==
    ASSUME CatalogTypeOK, OutboxReflectsCatalog,
           NEW c \in Requests, NEW a \in Actors, NEW o \in Ops, Commit(c, a, o)
    PROVE  OutboxReflectsCatalog'
<1> DEFINE e == AuditEvent(c, a, o)
           L == Len(outbox)
<1>1. /\ Admissible(c) /\ e \in Event /\ outbox' = Append(outbox, e)
  BY CommitKeepsTypes DEF Commit
<1>2. e.kind = c.kind /\ e.id = c.id /\ e.row = Written(c)
  BY DEF AuditEvent
<1> HIDE DEF e
<1>3. /\ L \in Nat /\ DOMAIN outbox = 1 .. L /\ DOMAIN outbox' = 1 .. (L + 1)
      /\ \A i \in 1 .. L : outbox'[i] = outbox[i]
      /\ outbox'[L + 1] = e
  BY <1>1, Appended
<1> HIDE DEF L
<1>4. ASSUME NEW kind, NEW id, NEW row, TrailSays(kind, id, row),
             <<kind, id>> # <<c.kind, c.id>>
      PROVE  TrailSays(kind, id, row)'
  <2>1. ~About(e, kind, id)
    BY <1>2, <1>4 DEF About
  <2> QED BY <1>3, <1>4, <2>1 DEF TrailSays, About
<1>5. ASSUME NEW row, row = Written(c)
      PROVE  TrailSays(c.kind, c.id, row)'
  <2>1. L + 1 \in DOMAIN outbox' /\ About(outbox'[L + 1], c.kind, c.id)
    BY <1>2, <1>3 DEF About
  <2>2. \A j \in DOMAIN outbox' : j <= L + 1
    BY <1>3
  <2>3. outbox'[L + 1].row = row
    BY <1>2, <1>3, <1>5
  <2> QED BY <2>1, <2>2, <2>3 DEF TrailSays
<1>6. ASSUME NEW r \in RegionIds
      PROVE  TrailSays("Region", r, regions[r])'
  <2> SUFFICES ASSUME NEW row, row = regions'[r]
               PROVE  TrailSays("Region", r, row)'
    BY DEF TrailSays
  <2>1. CASE c.kind = "Region" /\ c.id = r
    <3>1. row = Written(c)
      BY <2>1 DEF Commit, CatalogTypeOK
    <3> QED BY <1>5, <2>1, <3>1
  <2>2. CASE ~(c.kind = "Region" /\ c.id = r)
    <3>1. row = regions[r]
      BY <2>2 DEF Commit, CatalogTypeOK
    <3> QED BY <1>4, <2>2, <3>1 DEF OutboxReflectsCatalog
  <2> QED BY <2>1, <2>2
<1>7. ASSUME NEW z \in ZoneIds
      PROVE  TrailSays("Zone", z, zones[z])'
  <2> SUFFICES ASSUME NEW row, row = zones'[z]
               PROVE  TrailSays("Zone", z, row)'
    BY DEF TrailSays
  <2>1. CASE c.kind = "Zone" /\ c.id = z
    <3>1. row = Written(c)
      BY <2>1 DEF Commit, CatalogTypeOK
    <3> QED BY <1>5, <2>1, <3>1
  <2>2. CASE ~(c.kind = "Zone" /\ c.id = z)
    <3>1. row = zones[z]
      BY <2>2 DEF Commit, CatalogTypeOK
    <3> QED BY <1>4, <2>2, <3>1 DEF OutboxReflectsCatalog
  <2> QED BY <2>1, <2>2
<1> QED BY <1>6, <1>7 DEF OutboxReflectsCatalog

\* The last event about a resource marks its end exactly when the resource is gone.
LEMMA LastEvent ==
    ASSUME CatalogTypeOK, DeletesCarryNoRow,
           NEW kind, NEW id, NEW row, TrailSays(kind, id, row)
    PROVE  /\ row = Absent =>
                \A i \in DOMAIN outbox :
                    /\ About(outbox[i], kind, id)
                    /\ \A k \in DOMAIN outbox : i < k => ~About(outbox[k], kind, id)
                    => outbox[i].type = "DELETED"
           /\ row # Absent =>
                \E i \in DOMAIN outbox :
                    /\ About(outbox[i], kind, id)
                    /\ \A k \in DOMAIN outbox : i < k => ~About(outbox[k], kind, id)
                    /\ outbox[i].type # "DELETED"
<1> DEFINE Last(i) == \A k \in DOMAIN outbox : i < k => ~About(outbox[k], kind, id)
<1>1. DOMAIN outbox \subseteq Nat
  BY DEF CatalogTypeOK
<1>2. CASE \A i \in DOMAIN outbox : ~About(outbox[i], kind, id)
  BY <1>2 DEF TrailSays
<1>3. CASE \E i \in DOMAIN outbox : About(outbox[i], kind, id)
  <2>1. PICK m \in DOMAIN outbox :
             /\ About(outbox[m], kind, id) /\ outbox[m].row = row
             /\ \A j \in DOMAIN outbox : About(outbox[j], kind, id) => j <= m
    BY <1>3 DEF TrailSays
  <2>2. Last(m)
    BY <1>1, <2>1
  <2>3. \A i \in DOMAIN outbox : About(outbox[i], kind, id) /\ Last(i) => i = m
    <3> SUFFICES ASSUME NEW i \in DOMAIN outbox, About(outbox[i], kind, id), Last(i)
                 PROVE  i = m
      OBVIOUS
    <3>1. i <= m /\ ~(i < m)
      BY <2>1
    <3> QED BY <1>1, <3>1
  <2>4. outbox[m].type = "DELETED" <=> row = Absent
    BY <2>1 DEF DeletesCarryNoRow
  <2> QED BY <2>1, <2>2, <2>3, <2>4
<1> QED BY <1>2, <1>3

\* A committed transaction's event continues the life its resource leads.
LEMMA CommitContinuesLives ==
    ASSUME CatalogTypeOK, OutboxReflectsCatalog, DeletesCarryNoRow, TrailIsALife,
           NEW c \in Requests, NEW a \in Actors, NEW o \in Ops, Commit(c, a, o)
    PROVE  TrailIsALife'
<1> DEFINE e == AuditEvent(c, a, o)
<1>1. /\ Admissible(c) /\ e \in Event /\ outbox' = Append(outbox, e)
  BY CommitKeepsTypes DEF Commit
<1>2. e.kind = c.kind /\ e.id = c.id /\ e.type = TypeOfEvent(c.verb)
  BY DEF AuditEvent
<1> HIDE DEF e
<1>3. PICK L \in Nat :
      /\ DOMAIN outbox = 1 .. L /\ DOMAIN outbox' = 1 .. (L + 1)
      /\ \A i \in 1 .. L : outbox'[i] = outbox[i]
      /\ outbox'[L + 1] = e
  BY <1>1, Appended
<1>4. TypeOfEvent(c.verb) = "CREATED" <=> Stored(c) = Absent
  <2>1. c.verb = "Create" <=> Stored(c) = Absent
    BY <1>1, CommandKinds DEF Admissible, UniqueViolation, NoRows, Verbs
  <2>2. TypeOfEvent(c.verb) = "CREATED" <=> c.verb = "Create"
    BY CommandKinds DEF TypeOfEvent, Verbs
  <2> QED BY <2>1, <2>2
<1>5. TrailSays(c.kind, c.id, Stored(c))
  BY CommandKinds DEF OutboxReflectsCatalog, Stored
<1>6. ASSUME NEW j \in 1 .. L
      PROVE  outbox'[j].type = "CREATED" <=>
               \A i \in DOMAIN outbox' : Consecutive(i, j)' => outbox'[i].type = "DELETED"
  <2>1. ASSUME NEW i \in DOMAIN outbox'
        PROVE  Consecutive(i, j)' <=> i \in 1 .. L /\ Consecutive(i, j)
    BY <1>3, <1>6, <2>1 DEF Consecutive, About
  <2> QED BY <1>3, <1>6, <2>1 DEF TrailIsALife
<1>7. e.type = "CREATED" <=>
        \A i \in DOMAIN outbox' : Consecutive(i, L + 1)' => outbox'[i].type = "DELETED"
  <2>1. ASSUME NEW i \in DOMAIN outbox'
        PROVE  Consecutive(i, L + 1)' <=>
                 /\ i \in 1 .. L
                 /\ About(outbox[i], c.kind, c.id)
                 /\ \A k \in DOMAIN outbox : i < k => ~About(outbox[k], c.kind, c.id)
    BY <1>2, <1>3, <2>1 DEF Consecutive, About
  <2>2. PICK row : row = Stored(c)
    OBVIOUS
  <2>3. CASE row = Absent
    <3>1. \A i \in DOMAIN outbox :
              /\ About(outbox[i], c.kind, c.id)
              /\ \A k \in DOMAIN outbox : i < k => ~About(outbox[k], c.kind, c.id)
              => outbox[i].type = "DELETED"
      BY <1>5, <2>2, <2>3, LastEvent
    <3> QED BY <1>2, <1>3, <1>4, <2>1, <2>2, <2>3, <3>1
  <2>4. CASE row # Absent
    <3>1. PICK i \in DOMAIN outbox :
              /\ About(outbox[i], c.kind, c.id)
              /\ \A k \in DOMAIN outbox : i < k => ~About(outbox[k], c.kind, c.id)
              /\ outbox[i].type # "DELETED"
      BY <1>5, <2>2, <2>4, LastEvent
    <3> QED BY <1>2, <1>3, <1>4, <2>1, <2>2, <2>4, <3>1
  <2> QED BY <2>3, <2>4
<1> QED BY <1>3, <1>6, <1>7 DEF TrailIsALife

\* A Create finds no row, so the last event about its resource is a DELETED one, and
\* that lies after every earlier CREATED.
LEMMA CommitSeparatesCreates ==
    ASSUME CatalogTypeOK, OutboxReflectsCatalog, DeletesCarryNoRow, CreatesAreSeparated,
           NEW c \in Requests, NEW a \in Actors, NEW o \in Ops, Commit(c, a, o)
    PROVE  CreatesAreSeparated'
<1> DEFINE e == AuditEvent(c, a, o)
<1>1. /\ Admissible(c) /\ e \in Event /\ outbox' = Append(outbox, e)
  BY CommitKeepsTypes DEF Commit
<1>2. e.kind = c.kind /\ e.id = c.id /\ e.type = TypeOfEvent(c.verb)
  BY DEF AuditEvent
<1> HIDE DEF e
<1>3. PICK L \in Nat :
      /\ DOMAIN outbox = 1 .. L /\ DOMAIN outbox' = 1 .. (L + 1)
      /\ \A i \in 1 .. L : outbox'[i] = outbox[i]
      /\ outbox'[L + 1] = e
  BY <1>1, Appended
<1> DEFINE Between(i, j) ==
               \E k \in DOMAIN outbox' : /\ i < k /\ k < j
                                         /\ About(outbox'[k], outbox'[i].kind, outbox'[i].id)
                                         /\ outbox'[k].type = "DELETED"
<1>4. SUFFICES ASSUME NEW i \in 1 .. (L + 1), NEW j \in 1 .. (L + 1), i < j,
                      About(outbox'[j], outbox'[i].kind, outbox'[i].id),
                      outbox'[i].type = "CREATED", outbox'[j].type = "CREATED"
               PROVE  Between(i, j)
  BY <1>3 DEF CreatesAreSeparated, About
<1>5. CASE j \in 1 .. L
  <2>1. \E k \in DOMAIN outbox : /\ i < k /\ k < j
                                 /\ About(outbox[k], outbox[i].kind, outbox[i].id)
                                 /\ outbox[k].type = "DELETED"
    BY <1>3, <1>4, <1>5 DEF CreatesAreSeparated
  <2> QED BY <1>3, <1>4, <1>5, <2>1
<1>6. CASE j = L + 1
  <2>1. i \in 1 .. L /\ About(outbox[i], c.kind, c.id) /\ outbox[i].type = "CREATED"
    BY <1>2, <1>3, <1>4, <1>6 DEF About
  <2>2. Stored(c) = Absent
    <3>1. c.verb = "Create"
      BY <1>2, <1>3, <1>4, <1>6, CommandKinds DEF TypeOfEvent, Verbs
    <3> QED BY <1>1, <3>1 DEF Admissible, UniqueViolation
  <2>3. TrailSays(c.kind, c.id, Absent)
    BY <2>2, CommandKinds DEF OutboxReflectsCatalog, Stored
  <2>4. PICK m \in 1 .. L : /\ About(outbox[m], c.kind, c.id)
                             /\ i <= m /\ outbox[m].row = Absent
    BY <1>3, <2>1, <2>3 DEF TrailSays
  <2>5. outbox[m].type = "DELETED" /\ i # m
    BY <1>3, <2>1, <2>4 DEF DeletesCarryNoRow
  <2> QED BY <1>3, <1>6, <2>1, <2>4, <2>5 DEF About
<1> QED BY <1>5, <1>6

-----------------------------------------------------------------------------
(* The catalog on its own.                                                 *)

\* The inductive invariant.  TrailIsALife needs the two conjuncts before it: what
\* a transaction may do depends on the stored row, its event on the last event.
CatalogInv ==
    /\ CatalogTypeOK
    /\ ReferentialIntegrity
    /\ OutboxReflectsCatalog
    /\ DeletesCarryNoRow
    /\ TrailIsALife
    /\ CreatesAreSeparated

\* The empty catalog the migrations leave satisfies the invariant.
LEMMA CatalogInitially == CatalogInit => CatalogInv
<1> SUFFICES ASSUME CatalogInit PROVE CatalogInv
  OBVIOUS
<1>1. outbox \in Seq(Event) /\ DOMAIN outbox = {}
  BY DEF CatalogInit
<1>2. CatalogTypeOK
  BY <1>1 DEF CatalogInit, CatalogTypeOK
<1>3. ReferentialIntegrity
  BY DEF CatalogInit, ReferentialIntegrity
<1>4. OutboxReflectsCatalog
  BY <1>1 DEF CatalogInit, OutboxReflectsCatalog, TrailSays
<1>5. DeletesCarryNoRow /\ TrailIsALife /\ CreatesAreSeparated
  BY <1>1 DEF DeletesCarryNoRow, TrailIsALife, CreatesAreSeparated
<1> QED BY <1>2, <1>3, <1>4, <1>5 DEF CatalogInv

\* Every writer transaction preserves the invariant, whoever runs it.
LEMMA CommitKeepsCatalog ==
    ASSUME CatalogInv, NEW c \in Requests, NEW a \in Actors, NEW o \in Ops,
           Commit(c, a, o)
    PROVE  CatalogInv'
BY CommitKeepsTypes, CommitKeepsReferences, CommitIsReflected, CommitMarksDeletes,
   CommitContinuesLives, CommitSeparatesCreates
DEF CatalogInv

\* So does every step that leaves the three tables alone.
LEMMA StutterKeepsCatalog ==
    ASSUME CatalogInv, UNCHANGED catalogVars
    PROVE  CatalogInv'
BY DEF CatalogInv, catalogVars, CatalogTypeOK, ReferentialIntegrity,
       OutboxReflectsCatalog, TrailSays, DeletesCarryNoRow, TrailIsALife, Consecutive,
       CreatesAreSeparated, About

\* Every sequence of writer transactions keeps the catalog consistent with itself
\* (foreign key) and with its audit trail.
THEOREM CatalogConsistent == CatalogSpec => []CatalogInv
<1>1. CatalogInit => CatalogInv
  BY CatalogInitially
<1>2. CatalogInv /\ [CatalogNext]_catalogVars => CatalogInv'
  BY CommitKeepsCatalog, StutterKeepsCatalog DEF CatalogNext
<1> QED BY <1>1, <1>2, PTL DEF CatalogSpec

\* The tables hold rows of their schema.
THEOREM CatalogTypeCorrect == CatalogSpec => []CatalogTypeOK
<1>1. CatalogInv => CatalogTypeOK
  BY DEF CatalogInv
<1> QED BY <1>1, CatalogConsistent, PTL

\* No stored zone points at a missing region: zones.region_id, ON DELETE RESTRICT.
THEOREM CatalogReferences == CatalogSpec => []ReferentialIntegrity
<1>1. CatalogInv => ReferentialIntegrity
  BY DEF CatalogInv
<1> QED BY <1>1, CatalogConsistent, PTL

\* The audit trail in geo_outbox determines the catalog.
THEOREM CatalogReflected == CatalogSpec => []OutboxReflectsCatalog
<1>1. CatalogInv => OutboxReflectsCatalog
  BY DEF CatalogInv
<1> QED BY <1>1, CatalogConsistent, PTL

\* Created, updated, deleted: the trail of every resource is a sequence of lives.
THEOREM CatalogLives == CatalogSpec => []TrailIsALife
<1>1. CatalogInv => TrailIsALife
  BY DEF CatalogInv
<1> QED BY <1>1, CatalogConsistent, PTL

\* Of two Creates of an id that both wrote their row, a DELETED lies between.
THEOREM CatalogCreates == CatalogSpec => []CreatesAreSeparated
<1>1. CatalogInv => CreatesAreSeparated
  BY DEF CatalogInv
<1> QED BY <1>1, CatalogConsistent, PTL

\* On every state of the tables a writer either commits or fails with one code: what
\* PostgreSQL may refuse, and dberr.Wrap tells apart, leaves no command unanswered and
\* none with a choice of answers.
THEOREM WritersAnswerOnce ==
    ASSUME NEW c \in Command
    PROVE  /\ Admissible(c) <=> \A code \in Refusals : ~Refused(c, code)
           /\ \A p, q \in Refusals : Refused(c, p) /\ Refused(c, q) => p = q
<1>1. c.verb = "Create" => c.verb \notin {"Update", "Delete"}
  OBVIOUS
<1>2. ~(UniqueViolation(c) /\ NoRows(c))
  BY <1>1 DEF UniqueViolation, NoRows
<1>3. Admissible(c) <=> \A code \in Refusals : ~Refused(c, code)
  BY DEF Admissible, Refused, Refusals
<1> QED BY <1>2, <1>3 DEF Refused

=============================================================================
