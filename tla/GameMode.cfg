SPECIFICATION FairSpec
CONSTANTS
    Configs <- AllConfigs
    MaxReads = 3
INVARIANTS TypeOK HooksFindGamemode InitBeforeEvents PluginsOnce
PROPERTIES EventuallyPlays
