--------------------------- MODULE MCOpSemaphore ---------------------------
(* Instances of OpSemaphore for TLC. *)
EXTENDS OpSemaphore
=============================================================================
