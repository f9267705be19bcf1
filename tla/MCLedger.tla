------------------------------ MODULE MCLedger ------------------------------
(***************************************************************************)
(* Instances of Ledger for TLC: a window shorter than the span of the      *)
(* clock and one longer.                                                   *)
(***************************************************************************)
EXTENDS Ledger, TLC

CONSTANTS r1, r2, r3

MCWindows == {"rolling", "week"}
MCPeriod  == [rolling |-> 2, week |-> 3]

(* A new installation; an old file, with the record once, twice, and with  *)
(* one request more under the one name than under the other.               *)
Old1 == [ts |-> 1, cost |-> 1, size |-> 1, by |-> r1]
Old2 == [ts |-> 1, cost |-> 2, size |-> 2, by |-> r2]
MCOldFiles == {<< >>, <<<<Old1>>>>, <<<<Old1>>, <<Old1>>>>, <<<<Old1>>, <<Old1, Old2>>>>}

=============================================================================
