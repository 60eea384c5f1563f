SPECIFICATION Spec
CONSTANTS
  kachinsky = kachinsky
  cade = cade
  thatcher = thatcher
  hall = hall
  w1 = w1
  w2 = w2
  Workers = {w1, w2}
  BasicPortraits <- TwoPortraits
  NoPortrait = NoPortrait
  MaxUpdates = 1
  Faults <- Everything
SYMMETRY WorkerSymmetry
INVARIANTS
  TypeOK
  AuthenticatedWasAsked
  LeftNewIsLinked
CHECK_DEADLOCK FALSE
