SPECIFICATION TmhSpec
CONSTANTS
    p1 = p1
    p2 = p2
    s1 = s1
    s2 = s2
    a = a
    b = b
    Procs = {p1, p2}
    Sessions = {s1, s2}
    Names = {a, b}
    Shell = Shell
    None = None
    Declared <- MCDeclared
    Mixes <- MCMixes
    Ops = {"kill", "killall", "undo", "save", "restore", "push", "init", "new", "scratch"}
    Faults = {"abort", "persist"}
    UserActs = {"open", "close", "kill"}
    MaxWindows = 2
    MaxActs = 4
    Fits <- MCFits
    MaxTyped = 2
    Idents <- MCIdents
    Setups <- MCSetups
    Newcomers <- MCNewcomers
    Reports <- MCReports
    Letters <- MCLetters
    MaxRing = 3
    MaxSeq = 2
SYMMETRY MCSymmetry
INVARIANTS TmhTypeOK Delivers KillIsUndoable JumpsReturn CrashesOnlyUnopened ConfigFaithful
PROPERTIES OnlyUndoneForgotten SelectionAndNewest
CHECK_DEADLOCK FALSE
