\* One Close after an InsertOne: does the close persist the released lease?
CONSTANTS
  a = a  b = b
  SeqObj = SeqObj
  NoDid = NoDid
  Callers <- MCCallers
  Ops <- MCOps
  OwnCallers <- MCOwnCallers
  OwnOps <- MCOwnOps
  Bandwidth = 2
  MaxLease = 6
  MaxCrashes = 0
SPECIFICATION Spec
INVARIANT SpecReleasePersists
