SPECIFICATION Spec
CONSTANTS
    Texts <- MCTexts
    MaxGuards = 2
    MaxOrderKeys = 1
    MaxChooseOrdinals = 2
    MaxParams = 2
CHECK_DEADLOCK FALSE
INVARIANTS
    InsertionPoints
    BodiesExact
    DirectivesOwned
    EveryShapeFits
