SPECIFICATION Spec
CONSTANTS
    EntityIDs = {1, 2}
    SheetRowIDs = {2, 3}
    MaxVersion = 2
    Times = {3, 4}
    Limit = 3
    MaxRemote = 2
INVARIANTS
    TypeOK
    MergeKeepsNewest
    MergeIsStable
    Inv
