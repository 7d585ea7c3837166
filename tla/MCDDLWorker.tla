--------------------------- MODULE MCDDLWorker ---------------------------
(* Model-checking instances of DDLWorker.                                 *)
EXTENDS DDLWorker, TLC

CONSTANTS j1, j2, j3, j4, c1, c2, c3, c4

\* j1 and j2 create databases of the same name; j3 is of another kind;
\* j4 creates a database with j3's name.
MCJobs == {j1, j2, j3, j4}
MCName == (j1 :> "n1" @@ j2 :> "n1" @@ j3 :> "n2" @@ j4 :> "n2")
MCCols == (j1 :> {c1} @@ j2 :> {c2} @@ j3 :> {c3} @@ j4 :> {c4})

\* j3 carries an action type the worker does not implement.
MCKindInvalid == (j1 :> "create" @@ j2 :> "create" @@ j3 :> "invalid" @@ j4 :> "create")
\* j3 is a CreateSchema job whose collection list holds a nil entry.
MCKindNil == (j1 :> "create" @@ j2 :> "create" @@ j3 :> "nilColl" @@ j4 :> "create")
\* j3 creates a second database with a different name.
MCKindCreate == (j1 :> "create" @@ j2 :> "create" @@ j3 :> "create" @@ j4 :> "create")

\* j1 is queued when the worker starts; the others are submitted later.
MCInitialQueue == <<j1>>
\* All four queued before the worker starts; nobody submits later.
MCAllQueued == <<j1, j2, j3, j4>>
===========================================================================
