---------------------------- MODULE MCSession ----------------------------
EXTENDS Session, TLC

CONSTANTS json, pickle

Ask(n, k, c, over, own) == [name |-> n, kind |-> k, setCtx |-> c, over |-> over, own |-> own]

(* Both serializers from settings.url, one with a url of its own, one that *)
(* overwrites with and one without set_as_ctx.  get_session passes no      *)
(* overwrite.                                                              *)
MCAsked ==
  { Ask(QueueName, pickle, None, FALSE, FALSE),
    Ask(Default, pickle, TRUE, TRUE, TRUE), Ask(Default, json, None, TRUE, FALSE) }

ThreadSymmetry == Permutations(Threads)
=============================================================================
