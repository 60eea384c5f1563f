\* Three files, five messages, a channel that goes down and comes back.
CONSTANTS
  N = 3
  Name <- MCName
  Players <- MCPlayers
  SignedIn = FALSE
  MaxMessages = 5
SPECIFICATION FairSpec
INVARIANTS
  TypeOK
  ListedIsTimedOrFading
  UndrawnIsOwed
  FinalIsLeaving
  MatchIsShown
PROPERTIES
  ImplementsScreen
  NeverLeftStaring
\* The page leaves.
CHECK_DEADLOCK FALSE
