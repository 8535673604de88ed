SPECIFICATION Spec
CONSTANTS
    gateway = gateway
    other = other
    noSAN = noSAN
    SANs <- MCSANs
    EmptySAN = noSAN
    Configurations <- AllConfigurations
INVARIANTS
    ServesGuarded
    NothingLeftOpen
CHECK_DEADLOCK FALSE
