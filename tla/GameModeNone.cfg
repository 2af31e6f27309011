SPECIFICATION Spec
CONSTANTS
    Configs <- NoGamemodeOnly
    MaxReads = 3
INVARIANTS RunsWithoutGamemode
