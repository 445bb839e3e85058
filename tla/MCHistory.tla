------------------------------ MODULE MCHistory ------------------------------
(* A small instance of History for TLC. *)
EXTENDS History

CONSTANTS t1, t2

Result(id, t, at, services) ==
    [id |-> id, tenant |-> t, at |-> at, services |-> services]

\* Two ticks are a second: results 2 and 3 fall into the same one.
MCResults ==
    {Result(1, t1, 1, {"a"}), Result(2, t1, 2, {"a", "b"}), Result(3, t1, 3, {"b"}),
     Result(4, t1, 4, {"a"}), Result(5, t1, 5, {"b"}), Result(6, t2, 3, {"a"})}

MCEarly == {r \in MCResults : r.id \in {1, 3, 4, 6}}

Query(t, s, from, to, size) ==
    [tenant |-> t, service |-> s, start |-> from, end |-> to, size |-> size]

\* All records by pages of one, of the default size and of too large a size;
\* a service; and windows that begin or end within a second.
MCQueries ==
    {Query(t1, NoService, NoValue, NoValue, 1), Query(t1, NoService, NoValue, NoValue, 0),
     Query(t1, "a", NoValue, NoValue, 1), Query(t1, NoService, NoValue, 3, 3),
     Query(t1, NoService, 3, NoValue, 2), Query(t1, NoService, 2, 4, 1),
     Query(t2, "a", 0, NoValue, 4)}

=============================================================================
