CONSTANT Wires <- MCWires
SPECIFICATION Spec
INVARIANTS ParserFollowsBytes PaddingIsNotBuffered VerdictAtFin
PROPERTY NoRelayAfterRefusal
CHECK_DEADLOCK FALSE
