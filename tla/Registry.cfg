SPECIFICATION Spec
CONSTANTS
    MaxArgs = 3
    Texts <- MCTexts
    Lines <- MCLines
    Lower <- MCLower
    Commands <- MCCommands
    Functions = {f, g}
    NULL = NULL
    Garbage = Garbage
    Items <- MCItems
    Cells = 3
    MaxMaps = 2
INVARIANTS TypeOK FieldsSpellText ArgsFollowCommand TokensAreFields AddedCommandsAnswer VariablesApart
PROPERTY PreloadsReachEveryMap
SYMMETRY MCSymmetry
CONSTRAINT TextsAlone
