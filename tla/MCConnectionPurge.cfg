SPECIFICATION Spec
CONSTANTS
    q1 = q1
    None = None
    Query = {q1}
    HasUser = FALSE
    Budgets <- PurgeBudget
INVARIANTS
    AckFindsItsWrite
CHECK_DEADLOCK FALSE
