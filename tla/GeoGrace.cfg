SPECIFICATION Spec
CONSTANTS
    r1 = r1
    z1 = z1
    n0 = n0
    n1 = n1
    noRegion = noRegion
    o1 = o1
    o2 = o2
    o3 = o3
    alice = alice
    nobody = nobody
    unknown = unknown
    Absent = Absent
    Unset = Unset
    NoName = n0
    NoRegion = noRegion
    ActorUnknown = unknown
    RegionIds <- MCRegionIds
    ZoneIds <- MCZoneIds
    Names <- MCNames
    Ops <- MCThreeOps
    Principals <- MCAdmins
    Anonymous <- MCAnonymous
    Actors <- MCActors
    Requests <- MCZoneRace
    GraceCoversWorkers = TRUE
    MaxCrashes = 0
SYMMETRY Symmetry
INVARIANTS
    LoneCreateIsTruthful
    ReferentialIntegrity
    OutboxReflectsCatalog
    TrailIsALife
PROPERTIES
    LateEffectMeansCancelled
CHECK_DEADLOCK FALSE
