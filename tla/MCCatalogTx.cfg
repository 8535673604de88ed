SPECIFICATION MCSpec
CONSTANTS
    r1 = r1
    r2 = r2
    z1 = z1
    n0 = n0
    noRegion = noRegion
    o1 = o1
    o2 = o2
    o3 = o3
    o4 = o4
    o5 = o5
    o6 = o6
    admin = admin
    Absent = Absent
    RegionIds <- MCRegionIds
    ZoneIds <- MCZoneIds
    Names <- MCNames
    NoName = n0
    NoRegion = noRegion
    Ops <- MCOps
    Actors <- MCActors
    Requests <- MCRequests
INVARIANTS
    RefusalsAreTrue
    OmittedFieldsKept
    SequenceOrdersEachResource
    ReplayKeepsReferences
    NoWaitCycle
PROPERTIES
    CatalogSpec
    EveryTxEnds
CHECK_DEADLOCK FALSE
