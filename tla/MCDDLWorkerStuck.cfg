\* Progress when a CreateSchema handler panics (nil collection entry).
CONSTANTS
  j1 = j1  j2 = j2  j3 = j3  j4 = j4  c1 = c1  c2 = c2  c3 = c3  c4 = c4
  NoRec = NoRec
  NoFunc = NoFunc
  Jobs <- MCJobs
  Name <- MCName
  Cols <- MCCols
  Kind <- MCKindNil
  InitialQueue <- MCAllQueued
  MaxCrashes = 0
SPECIFICATION FairSpec
PROPERTY JobsEventuallyArchived
