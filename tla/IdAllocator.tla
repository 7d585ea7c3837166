----------------------------- MODULE IdAllocator -----------------------------
(***************************************************************************)
(* What document.Sequence promises its callers (spec section 4.2 and the   *)
(* "Sequence monotonicity" property of section 8): every id handed out is  *)
(* positive, no id is handed out twice, and the ids one Sequence object     *)
(* hands out strictly increase, also across a restart of the process.      *)
(* Sequence.tla is shown to implement this module.                         *)
(***************************************************************************)
EXTENDS Naturals

CONSTANTS
  Owners,   \* the Sequence objects that share one persisted key
  Ids       \* the ids that may be handed out (a finite range for TLC)

VARIABLE issued   \* issued[o]: every id owner o has returned so far

Init == issued = [o \in Owners |-> {}]

\* Owner o hands out id: fresh for everyone and above all of o's earlier ids.
Allocate(o, id) ==
  /\ id > 0
  /\ \A p \in Owners : id \notin issued[p]
  /\ \A x \in issued[o] : x < id
  /\ issued' = [issued EXCEPT ![o] = @ \cup {id}]

Next == \E o \in Owners, id \in Ids : Allocate(o, id)

Spec == Init /\ [][Next]_issued
==============================================================================
