--------------------------- MODULE MCInvestigation ---------------------------
(* Small instances of Investigation for TLC. *)
EXTENDS Investigation, TLC

CONSTANTS t1, t2

\* The first tenant has a curated incident, the second one without advice.
MCSeed ==
    {[by |-> Nobody, tenant |-> t1, id |-> 0,
      recs |-> [origin |-> "curated", tenant |-> t1]],
     [by |-> Nobody, tenant |-> t2, id |-> 0,
      recs |-> [origin |-> "none", tenant |-> t2]]}

Symmetry == Permutations(Rpcs)

=============================================================================
