\* Safety of the worker loop: four jobs (two pairs with the same name),
\* three of them submitted while the worker runs, so commits conflict; two
\* crashes.
CONSTANTS
  j1 = j1  j2 = j2  j3 = j3  j4 = j4  c1 = c1  c2 = c2  c3 = c3  c4 = c4
  NoRec = NoRec
  NoFunc = NoFunc
  Jobs <- MCJobs
  Name <- MCName
  Cols <- MCCols
  Kind <- MCKindNil
  InitialQueue <- MCInitialQueue
  MaxCrashes = 2
SPECIFICATION Spec
INVARIANT TypeOK
INVARIANT SchemaVersionConsistent
INVARIANT DBNamesUnique
INVARIANT CheckJobNeverPanics
