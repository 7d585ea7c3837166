---------------------------- MODULE MCMetaStore ----------------------------
(* Model-checking instance of MetaStore.                                   *)
EXTENDS MetaStore

CONSTANTS s1, s2, d1, c1

MCSessions == {s1, s2}
MCSymmetry == Permutations(MCSessions)

\* States that differ only in the calls of the last committed transaction
\* have the same futures: the refinement check of a commit step reads only
\* the calls of that commit.
MCView == <<kv, tx, gids, dupGid, autos, dupAuto, created>>
=============================================================================
