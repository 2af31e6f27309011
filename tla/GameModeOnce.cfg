SPECIFICATION Spec
CONSTANTS
    Configs <- ReadmeOnly
    MaxReads = 3
INVARIANTS LoadedOnce
