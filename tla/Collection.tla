----------------------------- MODULE Collection -----------------------------
(***************************************************************************)
(* The document collection of package document                             *)
(* (src/document/collection.go), composed with its document Sequence      *)
(* (Sequence.tla) and with the close barrier of its DB.                    *)
(*                                                                         *)
(* Every CRUD call runs the prologue c.db.checkState() then                *)
(* c.db.closer.Add(1), with a deferred c.db.closer.Done().  InsertOne      *)
(* takes a document id from c.documentSequence.Next() and then writes the  *)
(* document in a one-shot transaction; updateOne reads Exists(docKey) and  *)
(* writes in one transaction; DeleteOne writes blindly; GetOne and GetMany *)
(* only read.  Callers (goroutines) run these calls concurrently on one   *)
(* DB handle.  Badger aborts a commit whose read keys were written by a    *)
(* transaction that committed after it started; a transaction that reads  *)
(* nothing never conflicts.  DB.Close (not under src/, modelled from spec  *)
(* sections 4.4 and 9) makes closer.Add fail, waits until no call is in    *)
(* flight, closes the collections (Sequence.ReleaseRemaining) and marks   *)
(* the DB closed.  After a crash or a Close the program may open a new DB  *)
(* handle on the same KV store; documents and the persisted sequence       *)
(* counter survive.  A call runs in a one-shot transaction (txn nil) or in *)
(* a transaction the caller supplied, which the call neither commits nor   *)
(* discards: the caller does, after the call has returned.                 *)
(***************************************************************************)
EXTENDS Naturals, FiniteSets

CONSTANTS
  Callers,       \* goroutines calling the collection
  Ops,           \* the calls they make: subset of {"insert", "update",
                 \* "upsert", "delete", "get"}
  OwnCallers,    \* callers whose calls may run in a transaction they
                 \* supply
  OwnOps,        \* the calls that may run in it
  SeqObj,        \* the collection's document Sequence
  Bandwidth,     \* documentIDBandWidth
  MaxLease,      \* bound on the persisted sequence counter
  MaxCrashes,    \* bound on process crashes
  NoDid

VARIABLES
  persisted, kvVer, next, leased, pc, txnVer, issued,  \* the Sequence
  docs,       \* ids whose document key is present in the KV store
  cpc,        \* cpc[c]: where caller c is in its call
  op,         \* op[c]: the call c makes
  did,        \* did[c]: its document id
  own,        \* own[c]: c's call runs in c's own transaction
  dirty,      \* dirty[c]: c's docKey was written by a commit since c's
              \* transaction started (its only read key)
  count,      \* the closer's count of calls in flight
  closing,    \* closer signalled by DB.Close: Add fails
  closed,     \* DB.Close finished: checkState fails
  crashes,
  inserted,   \* history: ids written by committed InsertOne calls
  reinserted, \* history: an InsertOne wrote an id an earlier one wrote
  updCreated  \* history: UpdateOne created an absent document

seqVars == <<persisted, kvVer, next, leased, pc, txnVer, issued>>
ghostVars == <<inserted, reinserted, updCreated>>
vars == <<seqVars, docs, cpc, op, did, own, dirty, count, closing, closed,
          crashes, ghostVars>>

S == INSTANCE Sequence WITH Instances <- {SeqObj}

Ids == 1..MaxLease
Pcs == {"idle", "checked", "run", "lease", "ins", "upd", "held"}

TypeOK ==
  /\ S!TypeOK
  /\ docs \subseteq Ids
  /\ cpc \in [Callers -> Pcs]
  /\ op \in [Callers -> Ops \cup {"none"}]
  /\ did \in [Callers -> Ids \cup {NoDid}]
  /\ own \in [Callers -> BOOLEAN]
  /\ dirty \in [Callers -> BOOLEAN]
  /\ count \in 0..Cardinality(Callers)
  /\ closing \in BOOLEAN
  /\ closed \in BOOLEAN
  /\ crashes \in 0..MaxCrashes
  /\ inserted \subseteq Ids
  /\ {reinserted, updCreated} \subseteq BOOLEAN

Init ==
  /\ S!Init
  /\ docs = {}
  /\ cpc = [c \in Callers |-> "idle"]
  /\ op = [c \in Callers |-> "none"]
  /\ did = [c \in Callers |-> NoDid]
  /\ own = [c \in Callers |-> FALSE]
  /\ dirty = [c \in Callers |-> FALSE]
  /\ count = 0
  /\ closing = FALSE
  /\ closed = FALSE
  /\ crashes = 0
  /\ inserted = {}
  /\ reinserted = FALSE
  /\ updCreated = FALSE

\* The ids a call may name: ids the sequence has issued to an InsertOne.
CallIds == issued[SeqObj]

\* Insert calls start only while the sequence can lease for every caller
\* (the model's bound on the counter, MaxLease).
InsertBudget == persisted + Bandwidth * Cardinality(Callers) <= MaxLease

\* The call returns (or the caller ends its transaction); its locals are
\* gone.
Leave(c) ==
  /\ cpc' = [cpc EXCEPT ![c] = "idle"]
  /\ op' = [op EXCEPT ![c] = "none"]
  /\ did' = [did EXCEPT ![c] = NoDid]
  /\ own' = [own EXCEPT ![c] = FALSE]

\* The deferred c.db.closer.Done(): the call returns.
Return(c) ==
  /\ count' = count - 1
  /\ Leave(c)

\* A commit of a write to key k: every open transaction of another caller
\* now conflicts if it read k.
Written(c, k) ==
  dirty' = [o \in Callers |-> dirty[o] \/ (o # c /\ did[o] = k)]

-----------------------------------------------------------------------------
(* The prologue.                                                           *)

\* c.db.checkState() passes (the DB is not closed); the call, its id and
\* its transaction are the caller's input.  A caller-supplied transaction
\* has started by now.
CheckState(c) ==
  /\ cpc[c] = "idle"
  /\ ~closed
  /\ \E o \in Ops :
       /\ o = "insert" => InsertBudget
       /\ op' = [op EXCEPT ![c] = o]
       /\ IF o = "insert"
            THEN did' = [did EXCEPT ![c] = NoDid]
            ELSE \E d \in CallIds : did' = [did EXCEPT ![c] = d]
       /\ \E m \in IF c \in OwnCallers /\ o \in OwnOps THEN BOOLEAN ELSE {FALSE} :
            own' = [own EXCEPT ![c] = m]
  /\ dirty' = [dirty EXCEPT ![c] = FALSE]
  /\ cpc' = [cpc EXCEPT ![c] = "checked"]
  /\ UNCHANGED <<seqVars, docs, count, closing, closed, crashes, ghostVars>>

PrologueNoAdd(c) ==
  /\ cpc[c] = "checked"
  /\ cpc' = [cpc EXCEPT ![c] = "run"]
  /\ UNCHANGED <<seqVars, docs, op, did, own, dirty, count, closing, closed,
                 crashes, ghostVars>>

CloserAddIgnoresClosing(c) ==
  /\ cpc[c] = "checked"
  /\ count' = count + 1
  /\ cpc' = [cpc EXCEPT ![c] = "run"]
  /\ UNCHANGED <<seqVars, docs, op, did, own, dirty, closing, closed, crashes,
                 ghostVars>>

\* c.db.closer.Add(1) succeeds: the call is in flight.
CloserAdd(c) ==
  /\ cpc[c] = "checked"
  /\ ~closing
  /\ count' = count + 1
  /\ cpc' = [cpc EXCEPT ![c] = "run"]
  /\ UNCHANGED <<seqVars, docs, op, did, own, dirty, closing, closed, crashes,
                 ghostVars>>

\* closer.Add fails once Close has begun: the call returns its error.
CloserAddFails(c) ==
  /\ cpc[c] = "checked"
  /\ closing
  /\ Leave(c)
  /\ UNCHANGED <<seqVars, docs, dirty, count, closing, closed,
                 crashes, ghostVars>>
-----------------------------------------------------------------------------
(* InsertOne.                                                              *)

\* documentSequence.Next() within the lease: the id is known.
InsertNext(c) ==
  /\ cpc[c] = "run"
  /\ op[c] = "insert"
  /\ S!NextInLease(SeqObj)
  /\ did' = [did EXCEPT ![c] = next'[SeqObj]]
  /\ cpc' = [cpc EXCEPT ![c] = "ins"]
  /\ UNCHANGED <<docs, op, own, dirty, count, closing, closed, crashes,
                 ghostVars>>

\* documentSequence.Next() needs a lease: updateLease holds the sequence's
\* mutex while its transaction is open.  When its txn.Set fails, Next and
\* InsertOne return the error.
InsertUpdateLease(c) ==
  /\ cpc[c] = "run"
  /\ op[c] = "insert"
  /\ S!UpdateLease(SeqObj)
  /\ IF pc'[SeqObj] = "leasing"
       THEN /\ cpc' = [cpc EXCEPT ![c] = "lease"]
            /\ UNCHANGED <<count, op, did, own>>
       ELSE Return(c)
  /\ UNCHANGED <<docs, dirty, closing, closed, crashes, ghostVars>>

\* updateLease commits (nothing else writes the key on this DB handle) and
\* Next returns the id.
InsertLeaseCommit(c) ==
  /\ cpc[c] = "lease"
  /\ S!LeaseCommit(SeqObj)
  /\ did' = [did EXCEPT ![c] = next'[SeqObj]]
  /\ cpc' = [cpc EXCEPT ![c] = "ins"]
  /\ UNCHANGED <<docs, op, own, dirty, count, closing, closed, crashes,
                 ghostVars>>

\* The one-shot transaction: txn.Set(docKey, data) and txn.Commit().  It
\* reads nothing, so it cannot conflict; an existing document under docKey
\* is replaced.
InsertCommit(c) ==
  /\ cpc[c] = "ins"
  /\ ~own[c]
  /\ docs' = docs \cup {did[c]}
  /\ Written(c, did[c])
  /\ inserted' = inserted \cup {did[c]}
  /\ reinserted' = (reinserted \/ did[c] \in inserted)
  /\ Return(c)
  /\ UNCHANGED <<seqVars, closing, closed, crashes, updCreated>>

-----------------------------------------------------------------------------
(* updateOne (UpdateOne with upsert = FALSE, UpsertOne with upsert = TRUE), *)
(* DeleteOne, GetOne and GetMany.                                          *)

\* The one-shot transaction starts (a caller's has already), reads
\* txn.Exists(docKey) and, when the document exists or upsert is set,
\* stages txn.Set(docKey, data).
UpdateRead(c) ==
  /\ cpc[c] = "run"
  /\ op[c] \in {"update", "upsert"}
  /\ did[c] \in docs \/ op[c] = "upsert"
  /\ dirty' = IF own[c] THEN dirty ELSE [dirty EXCEPT ![c] = FALSE]
  /\ cpc' = [cpc EXCEPT ![c] = "upd"]
  /\ UNCHANGED <<seqVars, docs, op, did, own, count, closing, closed, crashes,
                 ghostVars>>

UpdateNotExistsNoDone(c) ==
  /\ cpc[c] = "run"
  /\ op[c] = "update"
  /\ did[c] \notin docs
  /\ Leave(c)
  /\ UNCHANGED <<seqVars, docs, dirty, count, closing, closed,
                 crashes, ghostVars>>

\* !exists && !upsert: UpdateOne returns updated = false, err = nil.
UpdateNotExists(c) ==
  /\ cpc[c] = "run"
  /\ op[c] = "update"
  /\ did[c] \notin docs
  /\ Return(c)
  /\ UNCHANGED <<seqVars, docs, dirty, closing, closed, crashes, ghostVars>>

UpdateCommitBlind(c) ==
  /\ cpc[c] = "upd"
  /\ ~own[c]
  /\ docs' = docs \cup {did[c]}
  /\ Written(c, did[c])
  /\ updCreated' = (updCreated \/ (op[c] = "update" /\ did[c] \notin docs))
  /\ Return(c)
  /\ UNCHANGED <<seqVars, closing, closed, crashes, inserted, reinserted>>

\* txn.Commit() succeeds: no commit since the transaction started wrote
\* docKey.
UpdateCommit(c) ==
  /\ cpc[c] = "upd"
  /\ ~own[c]
  /\ ~dirty[c]
  /\ docs' = docs \cup {did[c]}
  /\ Written(c, did[c])
  /\ updCreated' = (updCreated \/ (op[c] = "update" /\ did[c] \notin docs))
  /\ Return(c)
  /\ UNCHANGED <<seqVars, closing, closed, crashes, inserted, reinserted>>

\* txn.Commit() fails with ErrConflict: the write is dropped.
UpdateConflict(c) ==
  /\ cpc[c] = "upd"
  /\ ~own[c]
  /\ dirty[c]
  /\ Return(c)
  /\ UNCHANGED <<seqVars, docs, dirty, closing, closed, crashes, ghostVars>>

\* DeleteOne: txn.Delete(docKey) and txn.Commit() (a blind write).
DeleteOne(c) ==
  /\ cpc[c] = "run"
  /\ op[c] = "delete"
  /\ ~own[c]
  /\ docs' = docs \ {did[c]}
  /\ Written(c, did[c])
  /\ Return(c)
  /\ UNCHANGED <<seqVars, closing, closed, crashes, ghostVars>>

\* In the caller's transaction InsertOne's Set, updateOne's Set or
\* DeleteOne's Delete is staged and not committed: the call returns and
\* its deferred closer.Done runs while the write is pending.
StageInCallerTxn(c) ==
  /\ own[c]
  /\ \/ cpc[c] \in {"ins", "upd"}
     \/ cpc[c] = "run" /\ op[c] = "delete"
  /\ count' = count - 1
  /\ cpc' = [cpc EXCEPT ![c] = "held"]
  /\ UNCHANGED <<seqVars, docs, op, did, own, dirty, closing, closed, crashes,
                 ghostVars>>

\* GetOne / GetMany: a read-only transaction; ErrDocNotFound or the data.
GetOne(c) ==
  /\ cpc[c] = "run"
  /\ op[c] = "get"
  /\ Return(c)
  /\ UNCHANGED <<seqVars, docs, dirty, closing, closed, crashes, ghostVars>>

-----------------------------------------------------------------------------
(* The caller ends its own transaction after the call returned.            *)

\* The caller's txn.Commit() succeeds: the KV store is still open, and an
\* updateOne's Exists read was not overwritten since the transaction began.
CallerCommit(c) ==
  /\ cpc[c] = "held"
  /\ ~closed
  /\ op[c] \in {"update", "upsert"} => ~dirty[c]
  /\ docs' = IF op[c] = "delete" THEN docs \ {did[c]} ELSE docs \cup {did[c]}
  /\ Written(c, did[c])
  /\ inserted' = IF op[c] = "insert" THEN inserted \cup {did[c]} ELSE inserted
  /\ reinserted' = (reinserted \/ (op[c] = "insert" /\ did[c] \in inserted))
  /\ updCreated' = (updCreated \/ (op[c] = "update" /\ did[c] \notin docs))
  /\ Leave(c)
  /\ UNCHANGED <<seqVars, count, closing, closed, crashes>>

\* The caller discards its transaction, or its commit fails (a conflict, or
\* the KV store torn down by DB.Close): the staged write is dropped.
CallerDiscard(c) ==
  /\ cpc[c] = "held"
  /\ Leave(c)
  /\ UNCHANGED <<seqVars, docs, dirty, count, closing, closed, crashes,
                 ghostVars>>

-----------------------------------------------------------------------------
(* DB lifecycle.                                                           *)

\* DB.Close begins: the closer is signalled, closer.Add fails from now on.
CloseBegin ==
  /\ ~closing
  /\ closing' = TRUE
  /\ UNCHANGED <<seqVars, docs, cpc, op, did, own, dirty, count, closed,
                 crashes, ghostVars>>

\* DB.Close ends once no call is in flight: collection.close calls
\* documentSequence.ReleaseRemaining, and the DB is closed.
CloseEnd ==
  /\ closing
  /\ ~closed
  /\ count = 0
  /\ \/ S!ReleaseRemaining(SeqObj)
     \/ /\ leased[SeqObj] = next[SeqObj]
        /\ UNCHANGED seqVars
  /\ closed' = TRUE
  /\ UNCHANGED <<docs, cpc, op, did, own, dirty, count, closing, crashes,
                 ghostVars>>

\* A new DB handle on the same KV store, after a Close (NewDB) or after a
\* crash of the process: every in-memory object is new.
Reopen ==
  /\ S!Restart
  /\ cpc' = [c \in Callers |-> "idle"]
  /\ did' = [c \in Callers |-> NoDid]
  /\ own' = [c \in Callers |-> FALSE]
  /\ dirty' = [c \in Callers |-> FALSE]
  /\ count' = 0
  /\ closing' = FALSE
  /\ closed' = FALSE
  /\ UNCHANGED <<docs, op, ghostVars>>

ReopenAfterClose ==
  /\ closed
  /\ Reopen
  /\ UNCHANGED crashes

Crash ==
  /\ crashes < MaxCrashes
  /\ crashes' = crashes + 1
  /\ Reopen

\* The steps of a call once it has started.
InCallStep(c) ==
  \/ CloserAdd(c) \/ CloserAddFails(c)
  \/ InsertNext(c) \/ InsertUpdateLease(c) \/ InsertLeaseCommit(c)
  \/ InsertCommit(c)
  \/ UpdateRead(c) \/ UpdateNotExists(c) \/ UpdateCommit(c)
  \/ UpdateConflict(c)
  \/ DeleteOne(c) \/ GetOne(c) \/ StageInCallerTxn(c)

Next ==
  \/ \E c \in Callers : CheckState(c) \/ InCallStep(c)
                        \/ CallerCommit(c) \/ CallerDiscard(c)
  \/ CloseBegin \/ CloseEnd \/ ReopenAfterClose \/ Crash

Spec == Init /\ [][Next]_vars

\* A started call runs to completion: nothing in it blocks except the
\* sequence mutex, which its holder releases; Close waits only on calls
\* in flight.  Callers are not obliged to start calls.
FairSpec ==
  /\ Spec
  /\ \A c \in Callers : WF_vars(InCallStep(c))
  /\ WF_vars(CloseEnd)

-----------------------------------------------------------------------------
(* Properties.                                                             *)

\* The close barrier: once DB.Close has finished, no CRUD call is past its
\* prologue, although a call may have passed checkState before Close began
\* and reach closer.Add after it; only callers' own transactions, whose
\* calls have returned, may still hold a staged write.
CloseDrains ==
  closed => /\ count = 0
            /\ \A c \in Callers : cpc[c] \in {"idle", "checked", "held"}

\* No InsertOne writes a document id an earlier InsertOne wrote: the
\* sequence never hands an id out twice, across Close, reopen and crashes
\* with leases cut short.
InsertIdsFresh == ~reinserted

\* UpdateOne (upsert = FALSE) never creates a document: a DeleteOne that
\* commits between its Exists read and its commit makes it conflict.
UpdateNeverCreates == ~updCreated

\* DB.Close, once begun, finishes: every call in flight reaches its
\* deferred closer.Done, and calls that start later fail in closer.Add.
CloseCompletes == closing ~> closed

\* Spec section 2: the value persisted under the sequence key equals the
\* lease bound, and ReleaseRemaining writes next back on a clean Close.
\* collection.close calls ReleaseRemaining, whose transaction is
\* discarded without a commit.
SpecReleasePersists == closed => persisted = leased[SeqObj]
=============================================================================
