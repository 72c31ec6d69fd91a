\* Two requests overlap in every way.  Codes: none, a grpc number, an informational
\* status, a success, one that both tables have under different names, a failure
\* of the service, and one that is no http status.
SPECIFICATION Spec
CONSTANTS
  Requests = {r1, r2}
  Masks <- MCMasks
  Customs <- MCCustoms
  Codes = {0, 5, 102, 200, 409, 503, 1001}
  Contexts = {c1, c2}
  NoContext = NoContext
  Conn = 1
SYMMETRY Symmetry
CHECK_DEADLOCK FALSE
INVARIANTS SlotsReturned CodeCarried ContextExclusive ForgetsOnlyEarly
