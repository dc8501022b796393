\* One issue, its find and its reader: two dispatchers, two
\* editors who may write the find at once (an operator and the daily cycle), a fault.
CONSTANTS
  MaxIssues = 1
  Finds = {f1}
  Subs = {u1}
  Dispatchers = {d1, d2}
  Editors = {e1, e2}
  Attempts = 2
  MaxApprovals = 2
  MaxFaults = 1
  None = None
SYMMETRY NewsletterSymmetry
SPECIFICATION Spec
CONSTRAINT Uncrowded
INVARIANTS TypeOK SendsAreApproved FindsCoherent
CHECK_DEADLOCK FALSE
