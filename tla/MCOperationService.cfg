SPECIFICATION ServiceSpec
CONSTANTS
    o1 = o1
    o2 = o2
    alice = alice
    bob = bob
    work = work
    answer = answer
    Absent = Absent
    Unset = Unset
    Ops <- MCOps
    Principals <- MCPrincipals
    Metadata <- MCMetadata
    Answers <- MCAnswers
SYMMETRY Symmetry
INVARIANTS
    ExactlyOneResult
    StrangersLearnNothing
    ToldStaysTrue
PROPERTIES
    SettledForever
    RefusedWhenFinished
    CallsTouchOwnRows
