CONSTANTS
    ann = ann  bob = bob  day = day  night = night
    Calls = {1, 2, 3, 4, 5}
    LateCalls = {5}
    Accounts = {ann, bob}
    Payers <- PayersOfCalls
    Kind <- Kinds
    Rate <- Rates
    Date <- Dates
    OldPrice = 1
    Limit = 3
    BatchSize = 2
    Connections = 2
    MaxEvents = 2
SPECIFICATION FairSpec
CHECK_DEADLOCK FALSE
INVARIANTS
    BalancesFollowPrices
    PricesOfToday
PROPERTIES
    Terminates
