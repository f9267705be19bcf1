----------------------------- MODULE RoutePlan -----------------------------
(***************************************************************************)
(* The routing decision of src/router.rs, Router::plan: which endpoints a  *)
(* request may be sent to, and in which order.                             *)
(*                                                                         *)
(* The decision reads one "situation" s, a record of everything the code   *)
(* looks at:                                                               *)
(*   mode, idle     router.mode and router.idle_prefer                     *)
(*   peak           cfg.is_peak(now)                                       *)
(*   usable         endpoints left by the pin and the protocol filter      *)
(*   forced         the client pinned an endpoint                          *)
(*   kind, order, pos, enabled, optOut, rules                              *)
(*                  the endpoints' configuration: side, "order:", place in *)
(*                  the list, "enabled:", no_error_fallback, rules         *)
(*   class          the quota class of each endpoint (ClassifyPlan)        *)
(*   cooling        endpoints whose cooldown has not elapsed               *)
(*   skipped        endpoints inside a skip window                         *)
(*   bound          the endpoint the session is bound to, as a set of at   *)
(*                  most one (empty: no session, affinity off, or expired) *)
(*                                                                         *)
(* The order is given here as a relation between candidates.  RouteLoop    *)
(* holds the two passes over the buckets that compute it.                  *)
(***************************************************************************)
EXTENDS Integers, FiniteSets, Sequences

Kinds   == {"plans", "cash"}
Classes == {"surplus", "tight", "exhausted"}
Modes   == {"auto", "plans", "fallback"}
Idles   == {"surplus_first", "plans", "fallback"}
Rules   == {"always", "peak", "offpeak", "quota_low", "quota_exhausted",
            "primary_unavailable", "never"}

(* A plan nothing is known about counts as unused, unless a configured     *)
(* probe has not answered yet (awaited).  The other fields are what        *)
(* QuotaState::report returns.                                             *)
Reports == [exhausted : BOOLEAN, measured : BOOLEAN, surplus : BOOLEAN, awaited : BOOLEAN]

ClassifyPlan(report) ==
    IF report.exhausted THEN "exhausted"
    ELSE IF (IF report.measured THEN report.surplus ELSE ~report.awaited)
         THEN "surplus" ELSE "tight"

Plans(s)          == {e \in s.usable : s.kind[e] = "plans"}
PlansAvailable(s) == \E e \in Plans(s) : s.class[e] # "exhausted"
PlansSurplus(s)   == \E e \in Plans(s) : s.class[e] = "surplus"

RuleMatches(rule, s) ==
    \/ rule = "always"
    \/ rule = "peak" /\ s.peak
    \/ rule = "offpeak" /\ ~s.peak
    \/ rule = "quota_low" /\ ~PlansSurplus(s)
    \/ rule \in {"quota_exhausted", "primary_unavailable"} /\ ~PlansAvailable(s)

RulesOk(s, e) == \E rule \in s.rules[e] : RuleMatches(rule, s)

Buckets(s) ==
    CASE s.mode = "plans"                   -> <<"plans", "cash">>
      [] s.mode = "fallback"                -> <<"cash", "plans">>
      [] s.mode = "auto" /\ s.peak          -> <<"plans", "cash">>
      [] s.mode = "auto" /\ ~s.peak /\ s.idle = "plans"    -> <<"plans", "cash">>
      [] s.mode = "auto" /\ ~s.peak /\ s.idle = "fallback" -> <<"cash", "plans">>
      [] OTHER                              -> <<"plans-surplus", "cash", "plans-tight">>

BucketHolds(bucket, s, e) ==
    \/ bucket = s.kind[e]
    \/ bucket = "plans-surplus" /\ s.kind[e] = "plans" /\ s.class[e] = "surplus"
    \/ bucket = "plans-tight" /\ s.kind[e] = "plans" /\ s.class[e] = "tight"

PreferEligible(s, e) ==
    /\ RulesOk(s, e)
    /\ s.kind[e] = "plans" => s.class[e] # "exhausted"

(* Mutants: the first pass takes cooling endpoints too; the second pass    *)
(* asks for the rules to hold.                                             *)
KeptThoughCooling(pass, s, e) ==
    /\ s.enabled[e] \/ s.forced
    /\ IF pass = 0 THEN PreferEligible(s, e) ELSE RulesOk(s, e) \/ ~s.optOut[e]

KeptByRules(pass, s, e) ==
    /\ s.enabled[e] \/ s.forced
    /\ IF pass = 0 THEN e \notin s.cooling /\ PreferEligible(s, e) ELSE RulesOk(s, e)

(* What the two passes keep: the healthy eligible endpoints first, then    *)
(* everything that did not opt out of being a last resort.                 *)
Kept(pass, s, e) ==
    /\ s.enabled[e] \/ s.forced
    /\ IF pass = 0 THEN e \notin s.cooling /\ PreferEligible(s, e)
                   ELSE RulesOk(s, e) \/ ~s.optOut[e]

Bucketed(s, e) == \E i \in DOMAIN Buckets(s) : BucketHolds(Buckets(s)[i], s, e)

Candidates(s) ==
    {e \in s.usable : Bucketed(s, e) /\ (Kept(0, s, e) \/ Kept(1, s, e))}

-----------------------------------------------------------------------------
(* Where a candidate stands: affinity first, then pass, bucket, "order:"   *)
(* and place in the list.                                                  *)

Promoted(s, e) == ~s.forced /\ e \in s.bound /\ e \notin s.skipped

BucketIndex(s, e) ==
    IF BucketHolds(Buckets(s)[1], s, e) THEN 1
    ELSE IF BucketHolds(Buckets(s)[2], s, e) THEN 2 ELSE 3

Standing(s, e) ==
    << IF Promoted(s, e) THEN 0 ELSE 1,
       IF Kept(0, s, e) THEN 0 ELSE 1,
       BucketIndex(s, e),
       s.order[e],
       s.pos[e] >>

Precedes(s, a, b) ==
    \E i \in 1..5 :
        /\ Standing(s, a)[i] < Standing(s, b)[i]
        /\ \A j \in 1..(i-1) : Standing(s, a)[j] = Standing(s, b)[j]

(* The candidate lists the decision may produce: the candidates in order   *)
(* of Precedes.  Positions differ, so there is exactly one.                *)
Orderings(s) ==
    {p \in [1..Cardinality(Candidates(s)) -> Candidates(s)] :
        \A i, j \in DOMAIN p : i < j => Precedes(s, p[i], p[j])}
=============================================================================
