CONSTANTS
    Texts <- MCTexts
    Formats <- MCFormats
    Ops <- MCOps
    Capacity = 4
SPECIFICATION Spec
INVARIANTS
    TypeOK
    FieldIsItsOwn
    RenderExact
    LineWhole
CHECK_DEADLOCK FALSE
