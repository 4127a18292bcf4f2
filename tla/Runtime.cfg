SPECIFICATION Spec
INVARIANTS NewestResult FoundIsFirst
PROPERTIES   ImplementsLru
CHECK_DEADLOCK FALSE
