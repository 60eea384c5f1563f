SPECIFICATION Spec
CONSTANTS
  r1 = r1
  r2 = r2
  h1 = h1
  h2 = h2
  drop = drop
  Uploads = {drop}
  Handlers = {h1, h2}
  Replays = {r1, r2}
  Files <- TwoFiles
  NoReplay = NoReplay
  Listened = {r1}
  Faults <- LateCalls
SYMMETRY HandlerSymmetry
INVARIANTS
  AnsweredMeansDisposed
PROPERTIES
  FollowsLifecycle
CHECK_DEADLOCK FALSE
