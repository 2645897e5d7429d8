\* Bare calls in a method.
CONSTANT NoValue = NoValue
SPECIFICATION Spec
INVARIANT CallsAreProven
CHECK_DEADLOCK FALSE
