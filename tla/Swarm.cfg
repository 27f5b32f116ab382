CONSTANTS
    r1 = r1
    r2 = r2
    b1 = b1
    nobranch = nobranch
    Runners = {r1, r2}
    Branches = {b1}
    NoBranch = nobranch
    MaxAttempts = 2
    Faults = {"abort", "overlap"}
SPECIFICATION Spec
INVARIANTS PromotionIsEarned PromotedIsReady
PROPERTIES SettledIsFinal ImplementsLedger
SYMMETRY Symmetry
