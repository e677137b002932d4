SPECIFICATION PolicyLiveSpec
CONSTANTS
    p1 = p1
    p2 = p2
    Ids <- MCIds
    Linked <- MCLinked
    MaxCalls = 3
INVARIANTS PolicyInv VersionNamesContent MergeLaws PreviewTellsTheTruth
PROPERTIES Settles VersionsRise
CHECK_DEADLOCK FALSE
