SPECIFICATION FairSpec
CONSTANTS
  r1 = r1
  r2 = r2
  h1 = h1
  h2 = h2
  drop = drop
  Uploads = {drop}
  Handlers = {h1}
  Replays = {r1, r2}
  Files <- TwoFiles
  NoReplay = NoReplay
  Listened = {r1, r2}
  Faults <- RepeatOnly
INVARIANTS
  BrowserAgreesWithRow
  FullProgressMeansDone
PROPERTIES
  ReplaySettles
CHECK_DEADLOCK FALSE
