SPECIFICATION RequestsSpec
CONSTANTS
  NoMaxLength = NoMaxLength
  Types = {"String", "Integer", "Float", "String[]", "Integer[]"}
  MaxLengths = {NoMaxLength, 0, 2}
  Lengths = {2, 3}
  NRules = 2
  Null = Null
  Unset = Unset
  t1 = t1
  t2 = t2
  Threads <- MCThreads
  Loads <- MCLoads
INVARIANTS OwnFragments CompleteWhenUp AcceptedConforms DocumentedRulesNeverCrash
CHECK_DEADLOCK FALSE
