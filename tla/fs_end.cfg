SPECIFICATION FileSpec
INVARIANTS LeadsToEnd
CHECK_DEADLOCK FALSE
