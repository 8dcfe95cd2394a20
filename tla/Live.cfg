SPECIFICATION FairSpec
CONSTANTS
    a1 = a1
    a2 = a2
    NoAct = NoAct
    c1 = c1
    c2 = c2
    c3 = c3
    user = user
    nobody = nobody
PROPERTIES ShowsLatest DemoAnswers Informed ClientsConnect ReloadsServed
CHECK_DEADLOCK FALSE
