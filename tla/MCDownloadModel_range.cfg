SPECIFICATION Spec
CONSTANTS
  v1 = v1
  v2 = v2
  w1 = w1
  None = None
  Torn = Torn
  Files = {"a"}
  Versions = {v1}
  Size <- OneSize
  Contents <- OneFile
  Main = "main"
  NamedFiles = {}
  Quantizations = {"q4"}
  Configs <- OneModel
  Ranges = {TRUE}
  Lengths = {TRUE}
  MaxFaults = 1
PROPERTIES EventuallyDownloaded
