--------------------------- MODULE MCCollection ---------------------------
(* Model-checking instance of Collection.                                 *)
EXTENDS Collection

CONSTANTS a, b

MCCallers == {a, b}
MCOps == {"insert", "update", "upsert", "delete", "get"}
MCOwnCallers == {a}
MCOwnOps == {"update", "delete"}
===========================================================================
