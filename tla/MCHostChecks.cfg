SPECIFICATION HostSpec
CONSTANTS
  Null = Null
  Absent = Absent
  Torn = Torn
  Hangs = Hangs
  Executables <- TwoExecutables
  Conditions = {"missing", "plain", "broken", "works", "fails", "hangs", "garbled"}
  MaxBuilds = 2
  Events <- TwoEvents
  Answers <- SomeAnswers
  MaxChanges = 1
  MaxProbes = 2
INVARIANTS VerdictIsTrue ClassesAreTrue ReportsAgree
PROPERTIES ChecksEnd
CHECK_DEADLOCK FALSE
