SPECIFICATION CheckSpec
CONSTANTS
  NoMaxLength = NoMaxLength
  Types = {"String", "Integer", "Long", "Float", "String[]", "Integer[]", "Long[]"}
  MaxLengths = {NoMaxLength, 0, 2}
  Lengths = {2, 3}
  NRules = 1
INVARIANT NullMaxLengthIsNoLimit
CHECK_DEADLOCK FALSE
