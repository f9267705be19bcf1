------------------------------ MODULE MCAllowance ------------------------------
(* An instance of Allowance: a month of 60, of which a request draws 6; one    *)
(* window of 12 that is open for three moments; and a billing cycle that       *)
(* begins with the third moment.  Four stages of a calibration: as many as     *)
(* deriving twice takes, or deriving, editing the plan value and undoing it.   *)
EXTENDS Allowance

MCWindows == {"rolling"}
MCPeriod == [w \in MCWindows |-> 3]
MCCycleStart == [t \in 1..MaxClock |-> IF t < 3 THEN 1 ELSE 3]
MCTotal == [w \in MCWindows |-> 12]
MCBackOff == [unparseable |-> 2, gone |-> 4, failing |-> 2, error |-> 2]

Bounded == [limit |-> [w \in MCWindows |-> 100], monthly |-> 60, probed |-> FALSE]
Probed == [limit |-> [w \in MCWindows |-> 12], monthly |-> 60, probed |-> TRUE]
MCQuotas == {Bounded, Probed}
(* What a probe reports needs no calibration.                                  *)
MCMaxCalls == [probed \in BOOLEAN |-> IF probed THEN 0 ELSE 4]
=============================================================================
