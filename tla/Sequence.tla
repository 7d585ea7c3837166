------------------------------ MODULE Sequence ------------------------------
(***************************************************************************)
(* The lease-based id allocator document.Sequence                          *)
(* (src/unnamed/part_002, lines 340-448).                                  *)
(*                                                                         *)
(* Next hands out s.next+1 while s.next < s.leased.  Otherwise it runs     *)
(* updateLease: a read-write KV transaction reads the persisted counter,   *)
(* stores it in s.next, writes s.next+bandwidth back, sets s.leased and    *)
(* commits; on a failed commit s.leased is restored, s.next is not.        *)
(* ReleaseRemaining sets s.leased to s.next; its transaction is discarded  *)
(* without a commit.                                                       *)
(*                                                                         *)
(* Several Sequence objects may share one key: every document.DB handle   *)
(* on the same KV store builds its own Collection, and so its own         *)
(* Sequence, for a collection name.  Their lease transactions interleave; *)
(* the KV engine (badger) aborts at commit a transaction whose read key   *)
(* was written by a transaction that committed after it started.  Each    *)
(* object holds its own mutex for the whole of Next, so the steps of one  *)
(* object do not interleave with each other.  The process may crash and   *)
(* restart at any time; only the persisted counter survives.              *)
(***************************************************************************)
EXTENDS Naturals

CONSTANTS
  Instances,   \* Sequence objects sharing one persisted key
  Bandwidth,   \* the bandwidth given to NewSequence (documentIDBandWidth)
  MaxLease     \* bound on the persisted counter, to keep the model finite

\* NewSequence refuses a zero bandwidth with ErrZeroBandwidth.
ASSUME Bandwidth \in Nat \ {0}
ASSUME MaxLease \in Nat

VARIABLES
  persisted, \* the value under s.key; 0 when absent (updateLease reads
             \* ErrKeyNotFound as 0)
  kvVer,     \* number of committed writes of s.key (badger's commit ts)
  next,      \* next[i]: field s.next of object i
  leased,    \* leased[i]: field s.leased of object i
  pc,        \* "idle", or "leasing" while updateLease's txn is open
  txnVer,    \* txnVer[i]: kvVer when i's lease transaction started
  issued     \* history: the ids each object's Next returned, kept across
             \* restarts

vars == <<persisted, kvVer, next, leased, pc, txnVer, issued>>

Ids == 1..MaxLease

TypeOK ==
  /\ persisted \in 0..MaxLease
  /\ kvVer \in Nat
  /\ next \in [Instances -> 0..MaxLease]
  /\ leased \in [Instances -> 0..MaxLease]
  /\ pc \in [Instances -> {"idle", "leasing"}]
  /\ txnVer \in [Instances -> Nat]
  /\ issued \in [Instances -> SUBSET Ids]

\* NewSequence: next = leased = 0 for every object of a fresh key.
Init ==
  /\ persisted = 0
  /\ kvVer = 0
  /\ next = [i \in Instances |-> 0]
  /\ leased = [i \in Instances |-> 0]
  /\ pc = [i \in Instances |-> "idle"]
  /\ txnVer = [i \in Instances |-> 0]
  /\ issued = [i \in Instances |-> {}]

\* The tail of Next: s.next++ and return s.next.
HandOut(i, from) ==
  /\ next' = [next EXCEPT ![i] = from + 1]
  /\ issued' = [issued EXCEPT ![i] = @ \cup {from + 1}]

NextInLeaseOffByOne(i) ==
  /\ pc[i] = "idle"
  /\ next[i] <= leased[i]
  /\ next[i] < MaxLease
  /\ HandOut(i, next[i])
  /\ UNCHANGED <<persisted, kvVer, leased, pc, txnVer>>

\* Next when s.next < s.leased: no lease refresh is needed.
NextInLease(i) ==
  /\ pc[i] = "idle"
  /\ ~(next[i] >= leased[i])
  /\ HandOut(i, next[i])
  /\ UNCHANGED <<persisted, kvVer, leased, pc, txnVer>>

UpdateLeaseIgnoreValue(i) ==
  /\ pc[i] = "idle"
  /\ next[i] >= leased[i]
  /\ persisted + Bandwidth <= MaxLease
  /\ next' = [next EXCEPT ![i] = 0]
  /\ pc' = [pc EXCEPT ![i] = "leasing"]
  /\ txnVer' = [txnVer EXCEPT ![i] = kvVer]
  /\ UNCHANGED <<persisted, kvVer, leased, issued>>

\* Next when s.next >= s.leased calls updateLease: the transaction reads
\* the counter into s.next, then txn.Set writes s.next+bandwidth.  If Set
\* fails, Next returns the error with s.next already overwritten.
UpdateLease(i) ==
  /\ pc[i] = "idle"
  /\ next[i] >= leased[i]
  /\ persisted + Bandwidth <= MaxLease
  /\ next' = [next EXCEPT ![i] = persisted]
  /\ \/ /\ pc' = [pc EXCEPT ![i] = "leasing"]
        /\ txnVer' = [txnVer EXCEPT ![i] = kvVer]
     \/ UNCHANGED <<pc, txnVer>>
  /\ UNCHANGED <<persisted, kvVer, leased, issued>>

LeaseCommitOverLease(i) ==
  LET lease == next[i] + Bandwidth + 1 IN
  /\ pc[i] = "leasing"
  /\ txnVer[i] = kvVer
  /\ persisted' = lease
  /\ kvVer' = kvVer + 1
  /\ leased' = [leased EXCEPT ![i] = lease]
  /\ HandOut(i, next[i])
  /\ pc' = [pc EXCEPT ![i] = "idle"]
  /\ UNCHANGED txnVer

\* txn.Commit succeeds: s.leased = s.next + bandwidth is persisted, and
\* Next goes on to hand out s.next + 1.
LeaseCommit(i) ==
  LET lease == next[i] + Bandwidth IN
  /\ pc[i] = "leasing"
  /\ txnVer[i] = kvVer
  /\ persisted' = lease
  /\ kvVer' = kvVer + 1
  /\ leased' = [leased EXCEPT ![i] = lease]
  /\ HandOut(i, next[i])
  /\ pc' = [pc EXCEPT ![i] = "idle"]
  /\ UNCHANGED txnVer

LeaseConflictNoRestore(i) ==
  /\ pc[i] = "leasing"
  /\ txnVer[i] # kvVer
  /\ leased' = [leased EXCEPT ![i] = next[i] + Bandwidth]
  /\ pc' = [pc EXCEPT ![i] = "idle"]
  /\ UNCHANGED <<persisted, kvVer, next, txnVer, issued>>

\* txn.Commit fails with ErrConflict (another object committed the key
\* after this transaction started): s.leased = oldLease, s.next keeps the
\* value read, and Next returns the error.
LeaseConflict(i) ==
  /\ pc[i] = "leasing"
  /\ txnVer[i] # kvVer
  /\ pc' = [pc EXCEPT ![i] = "idle"]
  /\ UNCHANGED <<persisted, kvVer, next, leased, txnVer, issued>>

\* ReleaseRemaining: when s.leased /= s.next, txn.Set(key, s.next) and
\* s.leased = s.next; the deferred txn.Discard drops the write.
ReleaseRemaining(i) ==
  /\ pc[i] = "idle"
  /\ leased[i] # next[i]
  /\ leased' = [leased EXCEPT ![i] = next[i]]
  /\ UNCHANGED <<persisted, kvVer, next, pc, txnVer, issued>>

\* The process crashes and restarts: open transactions are lost and every
\* object is rebuilt by NewSequence; the persisted counter survives.
Restart ==
  /\ next' = [i \in Instances |-> 0]
  /\ leased' = [i \in Instances |-> 0]
  /\ pc' = [i \in Instances |-> "idle"]
  /\ UNCHANGED <<persisted, kvVer, txnVer, issued>>

Next ==
  \/ \E i \in Instances :
       \/ NextInLease(i)
       \/ UpdateLease(i)
       \/ LeaseCommit(i)
       \/ LeaseConflict(i)
       \/ ReleaseRemaining(i)
  \/ Restart

Spec == Init /\ [][Next]_vars

-----------------------------------------------------------------------------
(* Properties.                                                             *)

\* Every id some object's Next has returned is at most the persisted
\* counter, so after a crash updateLease restarts above it: the lease
\* written by updateLease must cover every id handed out under it, also
\* when lease transactions of two objects race and one fails.
LeaseCoversIssued ==
  \A i \in Instances : \A x \in issued[i] : x <= persisted

\* Sequence implements the abstract allocator: the ids returned by Next
\* are positive, unique across all objects sharing the key, and strictly
\* increasing per object, across conflicting lease refreshes and restarts.
Allocator == INSTANCE IdAllocator WITH Owners <- Instances, Ids <- Ids
AllocatorSpec == Allocator!Spec
=============================================================================
