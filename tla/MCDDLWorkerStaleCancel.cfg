\* The cleanup of a committed CreateSchema is run again when a later
\* commit of the same handleJobQueue call conflicts with an append.
CONSTANTS
  j1 = j1  j2 = j2  j3 = j3  j4 = j4  c1 = c1  c2 = c2  c3 = c3  c4 = c4
  NoRec = NoRec
  NoFunc = NoFunc
  Jobs <- MCJobs
  Name <- MCName
  Cols <- MCCols
  Kind <- MCKindCreate
  InitialQueue <- MCInitialQueue
  MaxCrashes = 0
SPECIFICATION Spec
INVARIANT CommittedSchemaHasSequences
