SPECIFICATION FileSpec
INVARIANTS AtPtr
CHECK_DEADLOCK FALSE
