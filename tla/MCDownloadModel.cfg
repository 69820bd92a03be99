SPECIFICATION Spec
CONSTANTS
  v1 = v1
  v2 = v2
  w1 = w1
  None = None
  Torn = Torn
  Files = {"a", "b"}
  Versions = {v1, v2, w1}
  Size <- TwoSizes
  Contents <- TwoFiles
  Main = "main"
  NamedFiles = {"a"}
  Quantizations = {"q8", "q4"}
  Configs <- SomeConfigs
  Ranges = {TRUE, FALSE}
  Lengths = {TRUE, FALSE}
  MaxFaults = 3
INVARIANTS PartialInOrder DoneIsVerified SidecarsAreTrue
PROPERTIES EstablishedStays
