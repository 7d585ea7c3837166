\* Progress: one job queued and three submitted while the worker runs,
\* one of an unknown type, duplicate names; CreateSequence may fail; two
\* crashes.
CONSTANTS
  j1 = j1  j2 = j2  j3 = j3  j4 = j4  c1 = c1  c2 = c2  c3 = c3  c4 = c4
  NoRec = NoRec
  NoFunc = NoFunc
  Jobs <- MCJobs
  Name <- MCName
  Cols <- MCCols
  Kind <- MCKindInvalid
  InitialQueue <- MCInitialQueue
  MaxCrashes = 2
SPECIFICATION FairSpec
PROPERTY JobsEventuallyArchived
