\* The same instance, checking only that no Txn method dereferences the nil
\* frame FrameCh() yields after its stream or connection closed.
CONSTANTS
  c1 = c1  c2 = c2
  Clients <- MCClients
  MaxCalls = 2
  MaxLateErrors = 1
  None = None
SPECIFICATION Spec
CHECK_DEADLOCK FALSE
INVARIANT NoNilFrameDeref
