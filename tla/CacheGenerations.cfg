CONSTANTS
    Write = {w1}
    View = {v1}
    Reader = {r1, r2}
    MaxGeneration = 1
    MaxFaults = 1
    MaxFlushes = 1
SPECIFICATION FairSpec
INVARIANTS
    TypeOK
    AnswersAreFenced
PROPERTIES
    StaleDiesOut
