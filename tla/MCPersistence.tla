----------------------------- MODULE MCPersistence -----------------------------
(* An instance of Persistence: a request of an old file and a new one on the  *)
(* same day.                                                                  *)
EXTENDS Persistence

CONSTANTS o, a

MCRequests == {o, a}
MCDays == {1}
MCDayOf == [r \in MCRequests |-> 1]
MCAllowanceOf == [r \in MCRequests |-> "plan"]
MCOldRequests == {o}

MCDocs == Totals

\* A file written before there was a history.
MCOldFile == [Zero EXCEPT !.stats = {o}, !.ledger = {o}]
=============================================================================
