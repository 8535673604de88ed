------------------------------- MODULE Catalog -------------------------------
(***************************************************************************)
(* The geography catalog: the tables regions, zones and geo_outbox, and    *)
(* the six writer transactions of the repository (internal/repo/kacho/pg). *)
(* A writer runs one SQL statement and emits one audit event in the same   *)
(* transaction, so here it is one atomic step that either commits the row  *)
(* and the event or changes nothing and reports why.  The transaction's    *)
(* inner steps (row locks, sequence numbers, commit) are not distinguished.*)
(*                                                                         *)
(* Abstracted: created_at, display formatting of ids.  An event carries    *)
(* `op', the operation that wrote it, which the code does not store: a     *)
(* history field for the properties.                                       *)
(***************************************************************************)
EXTENDS Naturals, Sequences

CONSTANTS
    RegionIds,      \* ids of regions that may be asked for
    ZoneIds,        \* ids of zones
    Names,          \* display names, the empty one included
    NoName,         \* the empty name: "leave unchanged" in an Update
    NoRegion,       \* the empty region id: "leave unchanged" in an Update
    Absent,         \* what a table holds for a key without a row
    Ops,            \* ids of operations
    Actors,         \* values of the audit field `actor'
    Requests        \* the commands clients may send in this instance

VARIABLES
    regions,        \* table regions: id -> row or Absent
    zones,          \* table zones: id -> row or Absent
    outbox          \* table geo_outbox, in commit order

catalogVars == <<regions, zones, outbox>>

Verbs == {"Create", "Update", "Delete"}
Status == {"UP", "DOWN"}
Unspecified == "STATUS_UNSPECIFIED"

RegionRow == [name : Names]
ZoneRow == [region : RegionIds, name : Names, status : Status]

RegionCommand == [kind : {"Region"}, verb : Verbs, id : RegionIds, name : Names]
ZoneCommand == [kind : {"Zone"}, verb : Verbs, id : ZoneIds, name : Names,
                region : RegionIds \cup {NoRegion},
                status : Status \cup {Unspecified}]
Command == RegionCommand \cup ZoneCommand

EventType == {"CREATED", "UPDATED", "DELETED"}
Event == [kind : {"Region", "Zone"}, id : RegionIds \cup ZoneIds,
          type : EventType, row : RegionRow \cup ZoneRow \cup {Absent},
          actor : Actors, op : Ops]

ASSUME CatalogAssumption ==
    /\ NoName \in Names
    /\ NoRegion \notin RegionIds
    /\ Absent \notin RegionRow \cup ZoneRow
    /\ Requests \subseteq Command

-----------------------------------------------------------------------------
(* What PostgreSQL refuses.  A duplicate key is found when the row is      *)
(* inserted, a dangling reference at the end of the statement, so a        *)
(* command that breaks both reports the key.                               *)

Stored(c) == IF c.kind = "Region" THEN regions[c.id] ELSE zones[c.id]

UniqueViolation(c) == c.verb = "Create" /\ Stored(c) # Absent

NoRows(c) == c.verb \in {"Update", "Delete"} /\ Stored(c) = Absent

\* A Create refers to the region it names, the empty id included; an Update to a
\* region only if it names one.
MissingRegion(c) ==
    /\ c.kind = "Zone" /\ c.verb \in {"Create", "Update"}
    /\ IF c.region = NoRegion THEN c.verb = "Create" ELSE regions[c.region] = Absent

RegionInUse(c) ==
    /\ c.kind = "Region" /\ c.verb = "Delete"
    /\ \E z \in ZoneIds : zones[z] # Absent /\ zones[z].region = c.id

\* Mutant: the zones table without its REFERENCES clause on the parent side.
NoRestrict(c) == MissingRegion(c)

ForeignKeyViolation(c) == MissingRegion(c) \/ RegionInUse(c)

\* Mutant: INSERT ... ON CONFLICT DO UPDATE, a Create that overwrites.
AdmissibleUpsert(c) == ~NoRows(c) /\ ~ForeignKeyViolation(c)

Admissible(c) == ~UniqueViolation(c) /\ ~NoRows(c) /\ ~ForeignKeyViolation(c)

Refusals == {"AlreadyExists", "NotFound", "FailedPrecondition"}

\* The gRPC code of the error a writer ends with when it does not commit.
Refused(c, code) ==
    \/ code = "AlreadyExists" /\ UniqueViolation(c)
    \/ code = "NotFound" /\ NoRows(c)
    \/ /\ code = "FailedPrecondition"
       /\ ForeignKeyViolation(c) /\ ~UniqueViolation(c) /\ ~NoRows(c)

-----------------------------------------------------------------------------
(* What a writer stores.                                                   *)

\* COALESCE($n, column): an omitted argument keeps the stored value.
Coalesce(arg, omitted, stored) == IF arg = omitted THEN stored ELSE arg

RegionInserted(c) == [name |-> c.name]

RegionUpdated(c) == [name |-> Coalesce(c.name, NoName, regions[c.id].name)]

\* Mutant: the omitted status of a Create reaches the INSERT.
ZoneInsertedAsAsked(c) == [region |-> c.region, name |-> c.name, status |-> c.status]

\* Create without a status means UP: the use case fills it in.
ZoneInserted(c) ==
    [region |-> c.region, name |-> c.name,
     status |-> Coalesce(c.status, Unspecified, "UP")]

ZoneUpdated(c) ==
    [region |-> Coalesce(c.region, NoRegion, zones[c.id].region),
     name   |-> Coalesce(c.name, NoName, zones[c.id].name),
     status |-> Coalesce(c.status, Unspecified, zones[c.id].status)]

Written(c) ==
    CASE c.verb = "Delete"                        -> Absent
      [] c.verb = "Create" /\ c.kind = "Region"   -> RegionInserted(c)
      [] c.verb = "Update" /\ c.kind = "Region"   -> RegionUpdated(c)
      [] c.verb = "Create" /\ c.kind = "Zone"     -> ZoneInserted(c)
      [] c.verb = "Update" /\ c.kind = "Zone"     -> ZoneUpdated(c)

-----------------------------------------------------------------------------
(* The writer transaction.                                                 *)

TypeOfEvent(verb) ==
    CASE verb = "Create" -> "CREATED"
      [] verb = "Update" -> "UPDATED"
      [] verb = "Delete" -> "DELETED"

AuditEvent(c, actor, o) ==
    [kind |-> c.kind, id |-> c.id, type |-> TypeOfEvent(c.verb),
     row |-> Written(c), actor |-> actor, op |-> o]

\* Mutant: the audit event is skipped by Delete.
EmitUnlessDelete(c, actor, o) ==
    outbox' = IF c.verb = "Delete" THEN outbox
              ELSE Append(outbox, AuditEvent(c, actor, o))

Emit(c, actor, o) == outbox' = Append(outbox, AuditEvent(c, actor, o))

\* One statement and one event, committed together.
Commit(c, actor, o) ==
    /\ Admissible(c)
    /\ \/ /\ c.kind = "Region"
          /\ regions' = [regions EXCEPT ![c.id] = Written(c)]
          /\ UNCHANGED zones
       \/ /\ c.kind = "Zone"
          /\ zones' = [zones EXCEPT ![c.id] = Written(c)]
          /\ UNCHANGED regions
    /\ Emit(c, actor, o)

\* A fresh database: the migrations seed nothing.
CatalogInit ==
    /\ regions = [r \in RegionIds |-> Absent]
    /\ zones = [z \in ZoneIds |-> Absent]
    /\ outbox = <<>>

WrittenBy(o) == \E i \in DOMAIN outbox : outbox[i].op = o

\* The catalog on its own: every operation commits at most once.
CatalogNext ==
    \E o \in Ops, c \in Requests, a \in Actors : ~WrittenBy(o) /\ Commit(c, a, o)

CatalogSpec == CatalogInit /\ [][CatalogNext]_catalogVars

-----------------------------------------------------------------------------
(* Properties.                                                             *)

CatalogTypeOK ==
    /\ regions \in [RegionIds -> RegionRow \cup {Absent}]
    /\ zones \in [ZoneIds -> ZoneRow \cup {Absent}]
    /\ outbox \in Seq(Event)

\* Every stored zone lies in a stored region, whatever creates, deletes and
\* moves came before: the foreign key zones.region_id with ON DELETE RESTRICT.
ReferentialIntegrity ==
    \A z \in ZoneIds :
        zones[z] # Absent => regions[zones[z].region] # Absent

About(e, kind, id) == e.kind = kind /\ e.id = id

\* The row `row' is what the audit trail says about a resource: the payload of
\* the last event about it, or nothing when there is none.
TrailSays(kind, id, row) ==
    LET trail == {i \in DOMAIN outbox : About(outbox[i], kind, id)}
    IN  \/ trail = {} /\ row = Absent
        \/ \E i \in trail : (\A j \in trail : j <= i) /\ outbox[i].row = row

\* Replaying geo_outbox gives the catalog: no writer commits a row without its
\* event, an event without its row, or a payload that differs from the row.
OutboxReflectsCatalog ==
    /\ \A r \in RegionIds : TrailSays("Region", r, regions[r])
    /\ \A z \in ZoneIds : TrailSays("Zone", z, zones[z])

\* j is the next event about the resource of event i.
Consecutive(i, j) ==
    /\ i < j /\ About(outbox[j], outbox[i].kind, outbox[i].id)
    /\ \A k \in DOMAIN outbox :
           i < k /\ k < j => ~About(outbox[k], outbox[i].kind, outbox[i].id)

\* The trail of one resource is a life: it starts with CREATED, CREATED comes
\* again only after DELETED, and nothing else comes after DELETED.
TrailIsALife ==
    \A j \in DOMAIN outbox :
        outbox[j].type = "CREATED" <=>
            \A i \in DOMAIN outbox : Consecutive(i, j) => outbox[i].type = "DELETED"

\* Of two Creates of an id that both wrote their row, a DELETED lies between: the
\* primary key lets only one of them win the life of a resource.
CreatesAreSeparated ==
    \A i, j \in DOMAIN outbox :
        /\ i < j /\ About(outbox[j], outbox[i].kind, outbox[i].id)
        /\ outbox[i].type = "CREATED" /\ outbox[j].type = "CREATED"
        => \E k \in DOMAIN outbox : /\ i < k /\ k < j
                                    /\ About(outbox[k], outbox[i].kind, outbox[i].id)
                                    /\ outbox[k].type = "DELETED"

\* A zone never changes region between CREATED and DELETED, as the API page of
\* Zone promises.  False: Update writes region_id.
ZoneRegionImmutable ==
    [][\A z \in ZoneIds : zones[z] # Absent /\ zones'[z] # Absent
            => zones'[z].region = zones[z].region]_zones

=============================================================================
