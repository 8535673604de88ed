------------------------------ MODULE MCCatalog ------------------------------
(* Instance of Catalog: two regions, two zones, every verb, moves included. *)
EXTENDS Catalog, TLC, FiniteSets

CONSTANTS r1, r2, z1, z2, n0, n1, noRegion, o1, o2, o3, o4, o5, admin

MCRegionIds == {r1, r2}
MCZoneIds == {z1, z2}
MCNames == {n0, n1}
MCOps == {o1, o2, o3, o4, o5}
MCActors == {admin}

\* Every command but those that differ only in what their verb ignores.
MCRequests ==
    {c \in [kind : {"Region"}, verb : Verbs, id : MCRegionIds, name : MCNames] :
        c.verb = "Delete" => c.name = n0}
    \cup {c \in [kind : {"Zone"}, verb : Verbs, id : MCZoneIds, name : MCNames,
                 region : MCRegionIds \cup {noRegion},
                 status : {"DOWN", "STATUS_UNSPECIFIED"}] :
            /\ c.verb = "Create" => c.region # noRegion
            /\ c.verb = "Delete" =>
                 c.name = n0 /\ c.region = noRegion /\ c.status = "DOWN"}

Symmetry == Permutations(MCOps) \cup Permutations(MCRegionIds)
            \cup Permutations(MCZoneIds)
=============================================================================
