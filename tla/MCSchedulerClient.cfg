SPECIFICATION Spec
CONSTANTS
  None = None
  Overflow = Overflow
  IntMax = 2
  Requests = {1, 2, 3}
  MaxActive = 2
  CounterLimit = 8
  MaxTime = 2
INVARIANTS TypeOK ViewsAgree
PROPERTIES FirstComeFirstServed DecisionsAreFresh EndedForGood
