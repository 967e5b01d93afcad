---------------------------- MODULE MCJobListen ----------------------------
(* Instances of JobListen for TLC. *)
EXTENDS JobListen

CONSTANTS k1, k2, w1

(* Two jobs of the shared queue, or one of them and one of a broadcast. *)
MCOwns == {k1 :> None @@ k2 :> None, k1 :> None @@ k2 :> w1}
=============================================================================
