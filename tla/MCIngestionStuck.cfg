SPECIFICATION Spec
CONSTANTS
  r1 = r1
  r2 = r2
  Handlers = {h1, h2}
  Routes = {r1}
  Requests <- MCFewRequests
  MaxConcurrency = 1
  Buffers = {"sound"}
PROPERTIES
  BreakerReadmits
