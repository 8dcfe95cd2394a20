SPECIFICATION FairSpec
CONSTANTS
    a1 = a1
    a2 = a2
    NoAct = NoAct
    Acts = {a1, a2}
    Setups <- MCFetchFails
    MaxRevision = 3
PROPERTY ShowsLatest
