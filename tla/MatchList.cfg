\* One race that can be chosen, two columns, three events, all answers in every order.
CONSTANTS
  Any = Any Null = Null Gone = Gone Unseen = Unseen
  Races = {"Z"}
  Columns = {"matches_count", "current_highest_league"}
  Links <- MCLinks
  Matches <- MCMatches
  Limit = 2
  MaxEvents = 3
SPECIFICATION Spec
INVARIANTS TypeOK DigestSettles CopiesAgree OneWinner ClicksTurnPages NewestListIsCurrent
PROPERTIES ImplementsSearch
CHECK_DEADLOCK FALSE
