--------------------------- MODULE MCKnowledgeBase ---------------------------
EXTENDS KnowledgeBase, TLC
CONSTANTS a, b, t, u, v1, v2, c1, c2

Installed == (v1 :> (a :> t @@ b :> None)) @@ (v2 :> (a :> u @@ b :> None))
Demo == a :> t @@ b :> None

Of(d, x) == [doc |-> d, text |-> x]
Requests == {<<Of(d, x)>> : d \in {a, b}, x \in {t, u}}
            \cup {<<Of(b, Invalid)>>, <<Of(a, Invalid), Of(a, t), Of(b, u)>>,
                   <<Of(b, u), Of(a, u)>>}

Swaps == Permutations({c1, c2})
=============================================================================
