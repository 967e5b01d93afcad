------------------------- MODULE MCPersistentDict -------------------------
(* Instances of PersistentDict for TLC. *)
EXTENDS PersistentDict

(* A dump with an expiration for one of its fields, and one without. *)
MCImports ==
  LET d == [k \in Keys |-> <<"set", {}>>]
      first == CHOOSE k \in Keys : TRUE
  IN {[data |-> d, exp |-> [k \in Keys |-> IF k = first THEN 1 ELSE None]],
      [data |-> d, exp |-> [k \in Keys |-> None]]}
=============================================================================
