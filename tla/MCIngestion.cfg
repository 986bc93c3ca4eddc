SPECIFICATION Spec
CONSTANTS
  r1 = r1
  r2 = r2
  Handlers = {h1, h2, h3}
  Routes = {r1, r2}
  Requests <- MCRequests
  MaxConcurrency = 1
  Buffers = {"sound", "unusable"}
INVARIANTS
  TokensAreConserved
  OneTrial
PROPERTIES
  RequestsAreAnswered
  RecoversFromGoodTrials
CHECK_DEADLOCK FALSE
