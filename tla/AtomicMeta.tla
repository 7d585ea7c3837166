----------------------------- MODULE AtomicMeta -----------------------------
(***************************************************************************)
(* What the meta store promises its callers: the Meta calls of a committed *)
(* transaction take effect together, as if they ran alone on the store as *)
(* it is when the transaction commits, one transaction after the other in *)
(* commit order.  Nothing else changes the store.                          *)
(***************************************************************************)
CONSTANTS
  Batches,    \* the call sequences one transaction can make
  Store0,     \* the empty store
  Run(_, _)   \* Run(b, st): the store after the calls b run alone on st

VARIABLES
  store,      \* the committed store
  batch       \* the calls of the last committed transaction

Init == store = Store0 /\ batch = <<>>

\* A transaction commits its calls atomically.
CommitBatch ==
  /\ batch' \in Batches
  /\ store' = Run(batch', store)

Spec == Init /\ [][CommitBatch]_<<store, batch>>
=============================================================================
