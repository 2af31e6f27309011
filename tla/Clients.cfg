SPECIFICATION EventsSpec
CONSTANTS
    MaxClients = 2
    ByteSize = 2
    MaxUserId = 4
    MaxDepth = 2
    Old = {2}
    FirstFit = FALSE
INVARIANTS TypeOK UniqueIds LightCounterExact UserIdsResolve PresentIsListed LightsSpareOldClients
PROPERTIES DropForgetsUser ImplementsRoster ImplementsPresence EventuallyListed SameClientTold
