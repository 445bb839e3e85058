------------------------------ MODULE MCPatterns ------------------------------
(* A small instance of Patterns for TLC. *)
EXTENDS Patterns

CONSTANTS t1, t2

Record(t, at, services, anchors) ==
    [tenant |-> t, createdAt |-> at, services |-> services, anchors |-> anchors]

\* Service b is affected once and has two selectors, the one of fewer records
\* being the more frequent; the newest record only anchors it.
MCRecords ==
    {Record(t1, 1, {"a", "b"}, <<<<"b", "x">>>>),
     Record(t1, 2, {"a"}, <<<<"b", "y">>, <<"b", "x">>, <<"b", "y">>, <<"b", "y">>>>),
     Record(t2, 1, {"a"}, <<<<"a", "y">>>>)}

\* Asked with and without a service, and for the other tenant.
MCAsks == {<<t1, "a">>, <<t1, NoService>>, <<t2, "a">>}

Symmetry == Permutations(Callers)

===============================================================================
