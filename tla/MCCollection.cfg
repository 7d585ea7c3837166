\* Two goroutines making every kind of call, ids from InsertOne only,
\* Close and reopen, one crash; the counter allows three leases.
CONSTANTS
  a = a  b = b
  SeqObj = SeqObj
  NoDid = NoDid
  Callers <- MCCallers
  Ops <- MCOps
  OwnCallers <- MCOwnCallers
  OwnOps <- MCOwnOps
  Bandwidth = 2
  MaxLease = 6
  MaxCrashes = 1
SPECIFICATION Spec
INVARIANT TypeOK
INVARIANT CloseDrains
INVARIANT InsertIdsFresh
INVARIANT UpdateNeverCreates
