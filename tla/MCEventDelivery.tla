---------------------------- MODULE MCEventDelivery ----------------------------
(* Two processes, a stream with two overlapping patterns, one critical     *)
(* event and one INTERNAL entry.                                           *)
EXTENDS EventDelivery

CONSTANTS e1, in, worker, backend, cat, s1, star

MCHome == [s \in {cat, s1} |-> IF s = s1 THEN backend ELSE worker]
MCPatternsOf == [s \in {cat, s1} |->
                    IF s = cat THEN {<<"ledger", "categorize">>} ELSE {<<star>>, <<"ledger", star>>}]
MCMessages == {Critically(e1)} \union {Categorize(in)}
MCTopicOf == [m \in MCMessages |-> IF m.kind = "critical" THEN <<"sweep", "executed">>
                                   ELSE <<"ledger", "categorize">>]
=============================================================================
