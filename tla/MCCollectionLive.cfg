\* Close completes under fair scheduling of calls in flight.
CONSTANTS
  a = a  b = b
  SeqObj = SeqObj
  NoDid = NoDid
  Callers <- MCCallers
  Ops <- MCOps
  OwnCallers <- MCOwnCallers
  OwnOps <- MCOwnOps
  Bandwidth = 2
  MaxLease = 6
  MaxCrashes = 0
SPECIFICATION FairSpec
PROPERTY CloseCompletes
