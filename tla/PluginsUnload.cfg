SPECIFICATION Spec
CONSTANTS
    MaxPlugins = 3
    Files <- PlainFiles
    Broken = {}
    Nothing = Nothing
    MaxLoads = 4
    MaxDepth = 3
INVARIANTS UnloadFindsPlugin
