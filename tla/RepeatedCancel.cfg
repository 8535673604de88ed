SPECIFICATION ServiceSpec
CONSTANTS
    o1 = o1
    o2 = o2
    alice = alice
    bob = bob
    work = work
    answer = answer
    Absent = Absent
    Unset = Unset
    Ops <- MCOps
    Principals <- MCPrincipals
    Metadata <- MCMetadata
    Answers <- MCAnswers
PROPERTIES RepeatedCancelRefused
