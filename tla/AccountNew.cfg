SPECIFICATION Spec
CONSTANTS
  kachinsky = kachinsky
  cade = cade
  thatcher = thatcher
  hall = hall
  w1 = w1
  w2 = w2
  Workers = {w1}
  BasicPortraits <- TwoPortraits
  NoPortrait = NoPortrait
  MaxUpdates = 2
  Faults <- RedisDown
INVARIANTS
  NeverAuthFromNew
CHECK_DEADLOCK FALSE
