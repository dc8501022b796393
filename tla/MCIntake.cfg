SPECIFICATION Spec
CONSTANTS
  Requests = {r1, r2}
  Emails = {"ann"}
  Roles = {"student"}
  Sessions = {"s1"}
  ContactIpLimit = 2
  SignupIpLimit = 2
  IntakeIpLimit = 2
  SessionLimit = 1
  NoRow = NoRow
  SweepsCooldown = FALSE
  MaxStarts = 3
  MaxFaults = 1
SYMMETRY RequestSymmetry
INVARIANTS
  MailedLinkWorks
  RepliesBounded
CHECK_DEADLOCK FALSE
