SPECIFICATION FairSpec
CONSTANTS
    MaxLoads = 2
    Shortest = 2
    MaxWords = 5
    InSize = 5
    Depth = 3
    MaxStall = 4
    Latency = 4
    OutSize = 9
INVARIANTS PlaysWaveform NoOverflow
PROPERTIES WordsStored PlayGoesOn
