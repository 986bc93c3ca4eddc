SPECIFICATION Spec
CONSTANTS
  Kilo = 4
  Word = 4096
  Configs <- MCConfigs
  Parameters = {"{}", "{a}", "{b}"}
  Refused = {"*", "{"}
INVARIANTS
  SizesAreAsWritten
CHECK_DEADLOCK FALSE
