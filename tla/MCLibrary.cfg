\* Two requests at a time on an event and on a proposed source.
CONSTANTS
  Finds = {e, c}
  Candidates = {c}
  Paths = {p1, p2}
  Requests = {r1, r2}
  MaxStarts = 4
  MaxFaults = 1
  None = None
SYMMETRY Symmetry
SPECIFICATION Spec
INVARIANTS ShelfMatchesRow FlagHasDocument  PromotedLeavesQueue
PROPERTY UnpublishRemoves
CHECK_DEADLOCK FALSE
