SPECIFICATION Spec
CONSTANTS
    v1 = v1
    v2 = v2
    Location = Location
    Variant = {v1, v2}
    MaxQty = 1
    Counted = {v1}
    MaxDrafts = 3
    MaxDocs = 2
    MaxSold = 1
    FirstLevel <- MCFirst
    Elsewhere <- MCElsewhere
INVARIANTS LevelExplained CountReached RecordedOnce
PROPERTY EveryDocumentEnds
CHECK_DEADLOCK FALSE
