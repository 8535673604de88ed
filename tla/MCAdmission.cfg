SPECIFICATION MCSpec
CONSTANTS
    gateway = gateway
    other = other
    noSAN = noSAN
    alice = alice
    c1 = c1
    c2 = c2
    SANs <- MCSANs
    EmptySAN = noSAN
    Configurations <- AllKinds
    Calls <- TwoCalls
    Users <- OneUser
    TTL = 1
    CheckTimeout = 1
INVARIANTS
    UsersSpeakThroughForwarders
    BootstrapOwnsNothing
    PanicsContained
PROPERTIES
    CallsAnswered
    EntryIsWarranted
    DeniedForCause
CHECK_DEADLOCK FALSE
