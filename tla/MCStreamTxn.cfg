\* Two client transactions on one connection, two calls each before
\* Commit or Discard; the connection may fail and the server may stop.
\* The system stops once both transactions ended and the server stopped.
CONSTANTS
  c1 = c1  c2 = c2
  Clients <- MCClients
  MaxCalls = 2
  MaxLateErrors = 1
  None = None
SPECIFICATION Spec
CHECK_DEADLOCK FALSE
INVARIANT TypeOK
INVARIANT FirstFrameHasHandler
PROPERTY EveryCallReturns
