SPECIFICATION Spec
INVARIANT EveryTransactionEnds
CHECK_DEADLOCK FALSE
