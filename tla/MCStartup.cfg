SPECIFICATION Spec
CONSTANTS
  Kilo = 4
  Word = 4096
  Configs <- MCConfigs
  Parameters = {"{}", "{a}", "{b}"}
  Refused = {"*", "{"}
INVARIANTS
  RunningIsSound
  PlainRoutesReachTheirFlow
  SmallSizesAreAsWritten
CHECK_DEADLOCK FALSE
