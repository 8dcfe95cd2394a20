SPECIFICATION MCSpec
CONSTANTS
    p1 = p1
    p2 = p2
    w1 = w1
    w2 = w2
    s1 = s1
    s2 = s2
    Procs = {p1, p2}
    Windows = {w1, w2}
    Sessions = {s1}
    Active = Active
    Placeholder = Placeholder
    TTL = 1
    Ops = {"prune", "promote", "touch", "remove", "recover", "kill", "killwin"}
    Faults = {"abort", "persist"}
    UserActs = {"link", "unlink", "kill", "own", "restart"}
    MaxTime = 1
    MaxEpoch = 2
SYMMETRY MCSymmetry
INVARIANTS TypeOK PruneSettles
PROPERTIES CollisionUntouched PromotionDelivers OnlyKillsDestroy TouchNeverBack
