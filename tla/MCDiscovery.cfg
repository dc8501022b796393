\* Overlapping passes over a feed and a page: do the stored validators stay
\* behind the stored rows, is everything listed stored in the end?
CONSTANTS
  Sources = {1, 2}
  Seeded = {1}
  Kinds <- KindsHere
  Passes = {p1, p2}
  MaxVersion <- VersionsOf
  Unparsed <- Broken
  FeedCap = 2
  PassLimit = 200
  MaxFaults = 1
  None = None
SPECIFICATION FairSpec
INVARIANT ValidatorCovered
PROPERTY NothingLost
PROPERTY LockReleased
CHECK_DEADLOCK FALSE
