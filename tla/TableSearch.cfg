SPECIFICATION SearchSpec
CONSTANTS
  Rows = {r1, r2, r3}
  Letters = {a, b}
  MaxText = 2
INVARIANT OnlyTargetRemoved
CHECK_DEADLOCK FALSE
