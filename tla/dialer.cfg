CONSTANTS
    a = a  b = b  n1 = n1  n2 = n2
    NoFile = NoFile
    Empty = Empty
    Campaigns = {a, b}
    Numbers = {n1, n2}
    Rows <- NumbersOfCampaigns
    Crons = {k1, k2}
    CallsPerPeriod = 2
    MaxRuns = 3
    MaxFaults = 1
SYMMETRY Symmetry
SPECIFICATION Spec
CHECK_DEADLOCK FALSE
INVARIANTS
    TakenIsDialled
    DialledAgainForAReason
