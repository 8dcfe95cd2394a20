SPECIFICATION Spec
CONSTANTS
    d1 = d1
    d2 = d2
    p1 = p1
    p2 = p2
    Daemons = {d1}
    Panes = {p1, p2}
    Actions <- MCActions
    NoKey = NoKey
    MaxRevision = 2
INVARIANT DiscardedSplitDetected
