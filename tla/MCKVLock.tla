------------------------------ MODULE MCKVLock ------------------------------
(* Instances of KVLock for TLC. *)
EXTENDS KVLock, TLC

CONSTANTS u1, u2, u3, l1, l2

(* Two users in one event loop, one in another. *)
MCLoop == u1 :> l1 @@ u2 :> l1 @@ u3 :> l2
=============================================================================
