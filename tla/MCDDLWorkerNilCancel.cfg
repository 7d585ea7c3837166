\* A conflicting commit in an iteration where runJob set no cancelFunc.
CONSTANTS
  j1 = j1  j2 = j2  j3 = j3  j4 = j4  c1 = c1  c2 = c2  c3 = c3  c4 = c4
  NoRec = NoRec
  NoFunc = NoFunc
  Jobs <- MCJobs
  Name <- MCName
  Cols <- MCCols
  Kind <- MCKindCreate
  InitialQueue <- MCInitialQueue
  MaxCrashes = 0
SPECIFICATION Spec
INVARIANT NoNilCancelCall
