----------------------------- MODULE MCCatalogTx -----------------------------
(***************************************************************************)
(* Instance of CatalogTx: three transactions of any kind run side by side  *)
(* on what up to three earlier ones have left of two regions and a zone.   *)
(***************************************************************************)
EXTENDS CatalogTx, TLC, FiniteSets

CONSTANTS r1, r2, z1, n0, noRegion, o1, o2, o3, o4, o5, o6, admin

MCRegionIds == {r1, r2}
MCZoneIds == {z1}
MCNames == {n0}
MCOps == {o1, o2, o3, o4, o5, o6}
MCActors == {admin}

OfRegion(verb, id) == [kind |-> "Region", verb |-> verb, id |-> id, name |-> n0]
OfZone(verb, region, status) ==
    [kind |-> "Zone", verb |-> verb, id |-> z1, name |-> n0, region |-> region,
     status |-> status]

\* Both regions come and go; the zone is created in r1, moved to r2, switched
\* off where it is, and deleted.
Kinds ==
    <<OfRegion("Create", r1), OfRegion("Create", r2),
      OfRegion("Delete", r1), OfRegion("Delete", r2),
      OfZone("Create", r1, Unspecified), OfZone("Update", r2, Unspecified),
      OfZone("Update", noRegion, "DOWN"), OfZone("Delete", noRegion, "DOWN")>>

MCRequests == {Kinds[k] : k \in DOMAIN Kinds}

Kind(o) == CHOOSE k \in DOMAIN Kinds : Kinds[k] = cmd[o]

\* Some of three come first, one after the other, and do not fail; the other three
\* have any commands, in one order of them.
Setting == <<o1, o2, o3>>
Free == {o4, o5, o6}
First(o) == \E k \in DOMAIN Setting : Setting[k] = o
Rank(o) == CHOOSE k \in DOMAIN Setting : Setting[k] = o

MCInit ==
    /\ TxInit
    /\ cmd[o1] = Kinds[1] /\ cmd[o2] = Kinds[2] /\ cmd[o3] = Kinds[5]
    /\ Kind(o4) <= Kind(o5) /\ Kind(o5) <= Kind(o6)

InTurn ==
    \A o \in Ops :
        /\ stage[o] = "idle" /\ stage'[o] # "idle" =>
              /\ \A p \in Ops : stage[p] \in Running => p \in Free
              /\ First(o) => \A p \in Ops :
                                 p \in Free \/ Rank(p) > Rank(o) => stage[p] = "idle"
        /\ First(o) => stage'[o] # "failed"

MCSpec == MCInit /\ [][TxNext /\ InTurn]_vars /\ \A o \in Ops : WF_vars(Proceed(o))
=============================================================================
