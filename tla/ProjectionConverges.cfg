CONSTANTS
    Product = {p1}
    Request = {r1}
    Worker = {w1}
    MaxVersion = 4
    MaxFaults = 2
    MaxStrays = 0
CHECK_DEADLOCK FALSE
SPECIFICATION FairSpec
PROPERTIES
    Converges
