---------------------------- MODULE MCRegistry ----------------------------
EXTENDS Registry

CONSTANTS base, sub1, sub2, m1, m2

MCParent == (base :> None) @@ (sub1 :> base) @@ (sub2 :> base)

(* The methods that base, sub1 and sub2 mark; a subclass defines both.     *)
Marks(b, s1, s2) == (base :> b) @@ (sub1 :> s1) @@ (sub2 :> s2)
Of(ts, cs, m, d) ==
  [threads |-> ts, classes |-> cs, objects |-> {}, marked |-> m, given |-> d,
   methods |-> [c \in Classes |-> IF c = base THEN m[c] ELSE {m1, m2}]]

One == {CHOOSE t \in Threads : TRUE}
Tree == {base, sub1, sub2}

(* Programs with classes use one thread, the one with threads no class:    *)
(* an instance gets its queue as any other caller does.                    *)
MCPrograms ==
  { Of(One, Tree, Marks({m1, m2}, {m1}, {m1}), {<<base, m1>>, <<sub1, m1>>}),
    Of(One, Tree, Marks({m1, m2}, {m1}, {m2}), {<<base, m2>>, <<sub1, m1>>, <<sub2, "cls">>}),
    Of(One, Tree, Marks({m1, m2}, {m1, m2}, {}), {<<base, "cls">>, <<base, m1>>, <<sub1, m2>>, <<sub2, "cls">>}),
    Of(One, Tree, Marks({}, {m1}, {m2}), {<<sub1, m1>>, <<sub2, m2>>}),
    [Of(One, {}, Marks({m1}, {m1, m2}, {m2}), {<<base, m1>>, <<sub1, m2>>, <<sub2, m2>>, <<sub1, "cls">>})
       EXCEPT !.objects = Tree],
    Of(Threads, {}, Marks({}, {}, {}), {}) }
=============================================================================
