----------------------------- MODULE MCNetRoute -----------------------------
(* NetRoute on small tables, over names one of which begins another.        *)
EXTENDS NetRoute

e == <<"e">>
e0 == <<"e", "0">>
w == <<"w">>
l == <<"l">>
Names == {e, e0, w, l}

TablesOf(names, n) == UNION {[1 .. k -> names] : k \in 0 .. n}
SmallTables == TablesOf(Names, 5)
=============================================================================
