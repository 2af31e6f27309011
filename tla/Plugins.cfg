SPECIFICATION Spec
CONSTANTS
    MaxPlugins = 3
    Files <- MCFiles
    Broken <- MCBroken
    Nothing = Nothing
    MaxLoads = 4
    MaxDepth = 3
INVARIANTS TypeOK NamesAreTrue CrashesExplained
PROPERTIES ImplementsAudience
