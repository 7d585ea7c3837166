---------------------------- MODULE MCSequence ----------------------------
(* Model-checking instance of Sequence: two objects on one key.           *)
EXTENDS Sequence, TLC

CONSTANTS s1, s2

MCInstances == {s1, s2}

\* The objects are interchangeable: symmetry is sound for the safety
\* properties checked here.
MCSymmetry == Permutations(MCInstances)
===========================================================================
