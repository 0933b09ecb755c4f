\* Each call of control with each choice of its optional fields.
SPECIFICATION Spec
INVARIANT Understood
CHECK_DEADLOCK FALSE
