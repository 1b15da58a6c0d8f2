SPECIFICATION Spec
CONSTANT Calls = {r1, r2}
INVARIANTS OutcomeHonest
PROPERTIES BothSidesEnd RequestReplySpec
CHECK_DEADLOCK FALSE
