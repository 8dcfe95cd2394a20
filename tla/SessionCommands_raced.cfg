SPECIFICATION MCSpec
CONSTANTS
    p1 = p1
    p2 = p2
    s1 = s1
    s2 = s2
    a = a
    b = b
    Procs = {p1, p2}
    Sessions = {s1, s2}
    Names = {a, b}
    Shell = Shell
    None = None
    Declared <- MCDeclared
    Mixes <- MCRaced
    Ops = {"kill", "killall", "undo", "save", "restore", "push", "init", "new", "scratch"}
    Faults = {}
    UserActs = {}
    MaxWindows = 2
    MaxActs = 4
SYMMETRY MCSymmetry
PROPERTY ExistingLeftAlone
CHECK_DEADLOCK FALSE
