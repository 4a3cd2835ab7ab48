CONSTANTS
  Players = {p1, p2, p3}
  Levels = {l1, l2}
  First = l1
  Items = {0, 7, 53}
  StartHealth = 3
  StartCount = 1
  MaxChanges = 2
  MaxVisits = 1
SPECIFICATION FairSpec
INVARIANTS NoEcho NoNegativeItems AgreeWhenQuiet
PROPERTY ComesToRest
