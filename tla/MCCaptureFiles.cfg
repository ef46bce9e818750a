CONSTANTS
    Recorders = {r1, r2, r3}
    Raw = TRUE
    Concurrent = FALSE
SPECIFICATION Spec
INVARIANTS BagIsValid NothingLost LeavesOnlyBag
