SPECIFICATION EventsSpec
CONSTANTS
    MaxClients = 2
    ByteSize = 256
    MaxUserId = 3
    MaxDepth = 1
    Old = {}
    FirstFit = TRUE
INVARIANTS MapChangeDumpsTable
