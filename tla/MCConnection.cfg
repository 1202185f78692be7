SPECIFICATION Spec
CONSTANTS
    q1 = q1
    None = None
    Query = {q1}
    HasUser = TRUE
    Budgets <- AnyBudget
INVARIANTS
    TypeOK
    UnackedIsInFlight
    ListensHeld
    CompletedOnce
    TransactionSentOnce
    ReceivedInOrder
    StaysOffline
    InfoSeesConnection
PROPERTIES
    Reconnects
    PutsAreSettled
CHECK_DEADLOCK FALSE
