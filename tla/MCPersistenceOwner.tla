------------------------- MODULE MCPersistenceOwner -------------------------
(* Small instances of PersistenceOwner: the first ticket costs two tokens, *)
(* the others one.                                                         *)
EXTENDS PersistenceOwner

CONSTANTS t1, t2, t3

MCCost == [t \in Tickets |-> IF t = t1 THEN 2 ELSE 1]
=============================================================================
