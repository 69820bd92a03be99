SPECIFICATION Spec
CONSTANTS
  w1 = w1
  m1 = m1
  m2 = m2
  None = None
  Ids = {w1, m1, m2}
  Warmups = {w1}
  Plans <- TwoPlans
  Outcomes = {"success", "timed_out"}
  Tears = {"missing", "truncated", "unterminated"}
  MaxRecords = 5
  MaxFaults = 2
INVARIANTS TypeOK SummaryFollowsJournal SuccessIsFinal
PROPERTIES TableFollowsJournal RunCompletes
CHECK_DEADLOCK FALSE
