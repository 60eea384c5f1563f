SPECIFICATION Spec
CONSTANTS
  r1 = r1
  r2 = r2
  h1 = h1
  h2 = h2
  drop = drop
  Uploads = {drop}
  Handlers = {h1}
  Replays = {r1}
  Files <- OneFile
  NoReplay = NoReplay
  Listened = {r1}
  Faults <- EarlyOnly
PROPERTIES
  FollowsLifecycle
CHECK_DEADLOCK FALSE
