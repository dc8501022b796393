\* Two dispatchers and an operator over two issues: does every due issue settle?
CONSTANTS
  MaxIssues = 2
  Finds = {}
  Subs = {u1}
  Dispatchers = {d1, d2}
  Editors = {e1}
  Attempts = 1
  MaxApprovals = 1
  MaxFaults = 0
  None = None
SPECIFICATION FairSpec
INVARIANT StrandedOnlyByFault
PROPERTY DueIssueSettles
CHECK_DEADLOCK FALSE
