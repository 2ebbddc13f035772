CONSTANTS
    u1 = u1  u2 = u2  v1 = v1  c1 = c1  c2 = c2  d1 = d1  r1 = r1
    Nobody = Nobody  Admin = Admin
    Sessions = {s1, s2}
    Users = {u1, u2}
    Vouchers = {v1}
    Cards = {c1, c2}
    Owner <- Owners
    SameNumber <- Numbers
    Distributor <- Distributes
    Disable = TRUE
    MaxTries = 2
    Price = 1
    MayOwe <- Debts
    Unit = 2
    FaceValue = 1
    Deposit = 2
    MaxSessions = 3
    MaxCalls = 1
    MaxFaults = 1
SYMMETRY Symmetry
SPECIFICATION Spec
CHECK_DEADLOCK FALSE
INVARIANTS
    VoucherPaysOnce
    MarkedIsPaid
    NoMoneyIsLost
    NoMoneyIsMade
    DistributorPaysOnce
PROPERTIES
    BlockedIsNotTaken
