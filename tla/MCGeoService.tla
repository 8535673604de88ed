----------------------------- MODULE MCGeoService -----------------------------
(***************************************************************************)
(* Instances of GeoService.  The request sets are chosen per question: the *)
(* lives of one region, a zone and the region it lies in, or both.         *)
(***************************************************************************)
EXTENDS GeoService, TLC

CONSTANTS r1, z1, n0, n1, noRegion, o1, o2, o3, alice, nobody, unknown

MCRegionIds == {r1}
MCZoneIds == {z1}
MCNames == {n0, n1}
MCTwoOps == {o1, o2}
MCThreeOps == {o1, o2, o3}
MCOneAdmin == {alice}
MCAdmins == {alice, nobody}
MCAnonymous == {nobody}
MCNoAnonymous == {}
MCActors == MCAdmins \cup {unknown}
MCOneActor == MCOneAdmin \cup {unknown}

RegionDo(verb, id, name) == [kind |-> "Region", verb |-> verb, id |-> id, name |-> name]
ZoneDo(verb, id, name, region, status) ==
    [kind |-> "Zone", verb |-> verb, id |-> id, name |-> name,
     region |-> region, status |-> status]

\* One region: races of Create, Update and Delete.
MCRegionRace ==
    {RegionDo("Create", r1, n0), RegionDo("Update", r1, n1), RegionDo("Delete", r1, n0)}

\* A zone and its region: existence, partial updates, the restricting delete.
MCZoneRace ==
    {RegionDo("Create", r1, n0), RegionDo("Delete", r1, n0),
     ZoneDo("Create", z1, n1, r1, "STATUS_UNSPECIFIED"),
     ZoneDo("Update", z1, n0, noRegion, "DOWN"),
     ZoneDo("Delete", z1, n0, noRegion, "STATUS_UNSPECIFIED")}

MCBothRaces == MCRegionRace \cup MCZoneRace

Symmetry == Permutations(Ops)
=============================================================================
