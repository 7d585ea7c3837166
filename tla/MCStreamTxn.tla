---------------------------- MODULE MCStreamTxn ----------------------------
(* Model-checking instance of StreamTxn.                                   *)
EXTENDS StreamTxn, TLC
CONSTANTS c1, c2
MCClients == {c1, c2}
MCSymmetry == Permutations(MCClients)
=============================================================================
