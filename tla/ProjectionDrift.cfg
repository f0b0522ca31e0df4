CONSTANTS
    Product = {p1}
    Request = {r1, r2}
    Worker = {w1}
    MaxVersion = 2
    MaxFaults = 0
    MaxStrays = 0
CHECK_DEADLOCK FALSE
SPECIFICATION FairSpec
PROPERTIES
    Converges
