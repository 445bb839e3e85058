----------------------------- MODULE MCAnalysis -----------------------------
(* Small inputs for Analysis. *)
EXTENDS Analysis

MCNames == {"checkout", "Checkout", "payments", "cart"}
MCFold == [n \in MCNames \cup {""} |-> IF n = "Checkout" THEN "checkout" ELSE n]
MCListed == <<"", "checkout", "cart">>
MCSymptoms == <<"latency">>
MCAnomalies ==
    [kind : {"metrics"}, time : {2, 4}, service : {""}, score : {1, 3}, error : {FALSE}]
    \cup [kind : {"logs"}, time : {2, 4}, service : {""}, score : {3}, error : {FALSE}]
    \cup {a \in [kind : {"traces"}, time : {2, 4}, service : {"checkout", "payments"},
                  score : {-1, 3}, error : BOOLEAN] : a.error <=> a.score < 2}

Rule(service, severity, keywords, recommendations) ==
    [service |-> service, severity |-> severity, keywords |-> keywords,
     recommendations |-> recommendations]

\* Rules by service, severity and selector, one that repeats another's advice
\* and the severity "error", which no event has.
MCRules ==
    <<Rule("payments", "", {}, <<"scale", "">>), Rule("Checkout", "high", {"cpu"}, <<"throttle", "scale">>),
      Rule("", "error", {}, <<"inspect">>), Rule("cart", "low", {}, <<"warm up", "throttle">>)>>
MCMentions == [metrics |-> {"cpu"}, logs |-> {"error"}, traces |-> {"pay"}]
MCRecalled == <<"roll back">>

\* Edges into, out of and past the service, with both spellings of its name; the
\* edges from cart differ in both rates, and the busier ones have fewer errors.
MCEdges ==
    [source : {"payments"}, target : {"checkout"}, calls : {1, 2}, errors : {0, 1}]
    \cup [source : {"cart"}, target : {"checkout"}, calls : {1}, errors : {0, 2}]
    \cup [source : {"cart"}, target : {"checkout"}, calls : {2}, errors : {0, 1}]
    \cup [source : {"payments"}, target : {"Checkout"}, calls : {1}, errors : {0, 1}]
    \cup [source : {"checkout"}, target : {"cart"}, calls : {1}, errors : {0}]
    \cup [source : {"cart"}, target : {"payments"}, calls : {1}, errors : {1}]

=============================================================================
