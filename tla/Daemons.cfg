SPECIFICATION DaemonsSpec
CONSTANTS
    d1 = d1
    d2 = d2
    p1 = p1
    p2 = p2
    Daemons = {d1, d2}
    Panes = {p1, p2}
    Actions <- MCActions
    NoKey = NoKey
    NoPane = NoPane
    MaxRevision = 2
    Configured <- MCConfigured
    MaxPanes <- MCPanes
    ManagedPrefix <- MCPrefix
    TabOrder <- MCTabs
    Starts <- MCStarts
    MaxCommands = 2
    MaxChunks = 2
    MaxPlace = 3
    Fixture <- MCFixture
    MaxActs = 3
SYMMETRY MCSymmetry
INVARIANTS TypeOK LedgerAgrees AckedDurable ConfigNotLost CommittedWereCarriedOut NeverRepeated
    BackendsTypeOK NeverStuck PollsSettle
PROPERTIES RefinesLog OutagesKeep UndoUntilNextAct
