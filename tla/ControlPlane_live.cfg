SPECIFICATION FairSpec
CONSTANTS
    d1 = d1
    d2 = d2
    p1 = p1
    p2 = p2
    Daemons = {d1, d2}
    Panes = {p1, p2}
    Actions <- MCFewActions
    NoKey = NoKey
    MaxRevision = 2
PROPERTY Converges
