SPECIFICATION NextSpec
CONSTANTS
    a1 = a1
    a2 = a2
    Queries = {q1, q2}
    NoQuery = NoQuery
    MaxObserved = 3
    MaxSearches = 3
    MaxTyped = 3
    Texts = {"x", "y"}
    HelpSteps = 4
    MaxChains = 3
    Ids = {1, 2, 3}
    Machine <- MCMachine
    Inner <- MCInner
    Visits <- MCVisits
    MaxStack = 3
    MaxUpdates = 1
    NoAct = NoAct
    Acts = {a1, a2}
    Setups <- MCClients
    MaxRevision = 5
SYMMETRY NextSymmetry
INVARIANTS ClientTypeOK OneLaneOneWatch NoticesKeepTime CrashesOnlyAstray
PROPERTIES OnlyReloadRegresses LatestSearchAnswered DestroysConfirmed SelectionFollows
CHECK_DEADLOCK FALSE
