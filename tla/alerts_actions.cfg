CONSTANTS
    Users = {1, 2}
    Devices = {2}
    Owner <- Owners
    Config <- FourAlerts
    more_than = 1
    less_than = 1
    OwnLcr <- Lcrs
    NewLcrs = {3}
    MayIgnore = {1}
    MaxEvents = 1
    MaxRemoved = 1
SPECIFICATION Spec
INVARIANTS
    LcrsAreStacked
    GroupIsNotSilent

    
