SPECIFICATION ListPagesSpec
CONSTANTS
  MaxTotal = 24
  MaxPages = 3
  MaxAsked = 3
  MaxRecords = 11
  Lengths = {2, 5}
  MaxDraws = 3
  Rows = {r1, r2, r3}
  Letters = {a, b}
  MaxText = 2
INVARIANTS WindowFull LinksExist LastPageShown PageHasRows LastAnswerDrawn SearchExact
CHECK_DEADLOCK FALSE
