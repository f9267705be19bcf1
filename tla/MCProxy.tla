------------------------------ MODULE MCProxy ------------------------------
(***************************************************************************)
(* Instances of Proxy for TLC: a plan and a cash endpoint, the plan first. *)
(***************************************************************************)
EXTENDS Proxy, TLC

MCEndpoints == {"plan", "cash"}
MCKind      == [plan |-> "plans", cash |-> "cash"]
MCOrder     == [plan |-> 10, cash |-> 20]
MCPos       == [plan |-> 1, cash |-> 2]
MCEnabled   == [plan |-> TRUE, cash |-> TRUE]
MCOptOut    == [plan |-> FALSE, cash |-> FALSE]
MCRulesOf   == [plan |-> {"always"}, cash |-> {"always"}]
Unmeasured  == [exhausted |-> FALSE, measured |-> FALSE, surplus |-> FALSE, awaited |-> FALSE]
MCReported  == [plan |-> [Unmeasured EXCEPT !.measured = TRUE], cash |-> Unmeasured]
MCPins      == {{}, {"plan"}}
NoPins      == {{}}

RequestSymmetry == Permutations(Requests)
=============================================================================
