\* One relay after a successful dial is enough.
SPECIFICATION Spec
CONSTANT MaxSealed = 4
INVARIANT RelayDelivers
CHECK_DEADLOCK FALSE
