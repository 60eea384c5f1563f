SPECIFICATION FairSpec
CONSTANTS
  kachinsky = kachinsky
  cade = cade
  thatcher = thatcher
  hall = hall
  w1 = w1
  w2 = w2
  Workers = {w1}
  BasicPortraits <- FourPortraits
  NoPortrait = NoPortrait
  MaxUpdates = 2
  Faults <- NoFaults
INVARIANTS
  AuthedIsAuthenticated
  AuthenticatedIsAuthed
  NoticeFits
PROPERTIES
  AuthenticationStays
  QueuedClears
CHECK_DEADLOCK FALSE
