\* Two panels, three points (the last after the end), five events.
CONSTANTS
  Panels = {p1, p2}
  Spots = {"a", "b"}
  Slices = 3
  Diffs <- MCDiffs
  Duration = 6
  Points = {0, 2, 6}
  Pixels = {1, 2, 4}
  Start = 3
  Undefined = Undefined NoHash = NoHash Time = Time
  MaxEvents = 5
SYMMETRY Symmetry
SPECIFICATION Spec
INVARIANTS TypeOK LocationsAreTrue MinimapFollows EstimateIsSeen LineMarksFrame PanelsAgree
CHECK_DEADLOCK FALSE
