SPECIFICATION Spec
CONSTANTS
    Commanded <- Commands
    MaxCalls = 4
    MaxDepth = 3
INVARIANTS DeathRoles
