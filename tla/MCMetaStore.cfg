\* Two sessions, one database with one collection, two Meta calls per
\* transaction. Counters reach 2.
CONSTANTS
  s1 = s1  s2 = s2  d1 = d1  c1 = c1
  Sessions <- MCSessions
  DBs = {d1}
  Colls = {c1}
  MaxOps = 2
  MaxId = 2
  None = None
  NoW = NoW
  Info = Info
SYMMETRY MCSymmetry
SPECIFICATION Spec
VIEW MCView
INVARIANT TypeOK
INVARIANT GlobalIDsUnique
INVARIANT AutoIDsUnique
INVARIANT NoOrphanCollections
PROPERTY MetaSerializable
