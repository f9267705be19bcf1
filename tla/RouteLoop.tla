----------------------------- MODULE RouteLoop -----------------------------
(***************************************************************************)
(* Router::plan of src/router.rs as the code computes it: two passes over  *)
(* the buckets, a set of the names already added, and a last move of the   *)
(* session's endpoint to the front.  A situation (see RoutePlan) is asked  *)
(* for and answered; the properties compare the answer with what           *)
(* RoutePlan, the documentation and the comments say of it.                *)
(***************************************************************************)
EXTENDS RoutePlan, SequencesExt

CONSTANT Situations     \* the situations a request can meet

(* No two endpoints share a place in the list, and a session is bound to   *)
(* one endpoint at most.                                                   *)
ASSUME SituationsAssumption ==
    \A s \in Situations :
        /\ s.mode \in Modes /\ s.idle \in Idles /\ s.peak \in BOOLEAN
        /\ IsFiniteSet(s.usable)
        /\ \A e \in s.usable :
               /\ s.kind[e] \in Kinds /\ s.class[e] \in Classes
               /\ s.order[e] \in Int /\ s.pos[e] \in Nat
        /\ \A a, b \in s.usable : s.pos[a] = s.pos[b] => a = b
        /\ \A a, b \in s.bound : a = b

VARIABLES situation,    \* the one being decided
          candidates,   \* RoutePlan.candidates
          phase         \* "asked" | "answered"

vars == <<situation, candidates, phase>>

-----------------------------------------------------------------------------
(* bucket_accounts: the endpoints of one bucket one pass keeps ...          *)
BucketAccounts(bucket, pass, s) ==
    {e \in s.usable : BucketHolds(bucket, s, e) /\ Kept(pass, s, e)}

(* ... by "order:" and, within one order, by place in the list.            *)
Before(s, a, b) ==
    \/ s.order[a] < s.order[b]
    \/ s.order[a] = s.order[b] /\ s.pos[a] < s.pos[b]

Listed(found, s) ==
    [k \in 1..Cardinality(found) |->
        CHOOSE e \in found : Cardinality({a \in found : Before(s, a, e)}) = k - 1]

(* A mutant: the second pass adds again what the first one added.          *)
AddAgain(list, found, s) == list \o Listed(found, s)

AddOnce(list, found, s) == list \o Listed(found \ ToSet(list), s)

TwoPasses(s) ==
    LET pass(n) == [i \in DOMAIN Buckets(s) |-> BucketAccounts(Buckets(s)[i], n, s)]
    IN  FoldLeft(LAMBDA list, found : AddOnce(list, found, s), <<>>, pass(0) \o pass(1))

(* Conversation affinity: the bound endpoint moves to the front when it is *)
(* a candidate and not inside a skip window.                               *)
WithAffinity(list, s) ==
    LET kept == {i \in DOMAIN list : list[i] \in s.bound \ s.skipped}
    IN  IF s.forced \/ kept = {} THEN list
        ELSE LET i == CHOOSE i \in kept : TRUE IN <<list[i]>> \o RemoveAt(list, i)

Plan(s) == WithAffinity(TwoPasses(s), s)

-----------------------------------------------------------------------------
Init == situation \in Situations /\ candidates = <<>> /\ phase = "asked"

Decide ==
    /\ phase = "asked"
    /\ candidates' = Plan(situation)
    /\ phase' = "answered"
    /\ UNCHANGED situation

Next == Decide

Spec == Init /\ [][Next]_vars

-----------------------------------------------------------------------------
Answered == phase = "answered"

(* The two passes, the set of added names and the affinity move of         *)
(* Router::plan amount to the one order RoutePlan states.                  *)
LoopIsOrdering == Answered => Orderings(situation) = {candidates}

(* An endpoint that cools down, breaks its rules or has run dry comes      *)
(* after every healthy eligible one, the session's own endpoint excepted.  *)
LastResortComesLast ==
    Answered =>
        \A i, j \in DOMAIN candidates :
            (/\ i < j
             /\ candidates[i] \notin situation.bound
             /\ candidates[i] \in situation.cooling \/ ~PreferEligible(situation, candidates[i]))
            => \/ candidates[j] \in situation.cooling
               \/ ~PreferEligible(situation, candidates[j])

(* "The second pass adds everything still usable as a last resort,         *)
(* including cooling-down endpoints, unless they opted out"                *)
(* (docs/routing.md): no enabled endpoint that did not opt out is lost,    *)
(* under every policy but surplus_first off-peak, whose buckets have no    *)
(* place for an exhausted plan.                                            *)
OnlySurplusFirstLoses ==
    Answered =>
        \A e \in situation.usable :
            (/\ situation.enabled[e] /\ ~situation.optOut[e]
             /\ ~Contains(candidates, e))
            => /\ situation.mode = "auto" /\ ~situation.peak
               /\ situation.idle = "surplus_first"
               /\ situation.kind[e] = "plans" /\ situation.class[e] = "exhausted"
=============================================================================
