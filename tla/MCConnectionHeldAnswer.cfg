SPECIFICATION Spec
CONSTANTS
    q1 = q1
    None = None
    Query = {q1}
    HasUser = FALSE
    Budgets <- HeldAnswerBudget
PROPERTIES
    AnswersAreReported
CHECK_DEADLOCK FALSE
