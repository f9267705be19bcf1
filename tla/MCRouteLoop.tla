---------------------------- MODULE MCRouteLoop ----------------------------
(***************************************************************************)
(* Situations for RouteLoop: two plans and a cash endpoint, each in every  *)
(* quota class, cooling or not, under a handful of configurations that     *)
(* differ in what the decision looks at.                                   *)
(***************************************************************************)
EXTENDS RouteLoop

Endpoint == {"plan1", "plan2", "cash"}
KindOf   == [plan1 |-> "plans", plan2 |-> "plans", cash |-> "cash"]
PosOf    == [plan1 |-> 1, plan2 |-> 2, cash |-> 3]

(* "order:" agreeing with the list, against it, and tied *)
OrdersOf == {[plan1 |-> 10, plan2 |-> 20, cash |-> 30],
             [plan1 |-> 20, plan2 |-> 10, cash |-> 10],
             [plan1 |-> 10, plan2 |-> 10, cash |-> 10]}

Setting(on, out, rule) == [enabled |-> on, optOut |-> out, rules |-> rule]
PlanSettings == {Setting(TRUE, FALSE, {"always"}),
                 Setting(TRUE, TRUE, {"peak"}),
                 Setting(FALSE, FALSE, {"always"})}
CashSettings == {Setting(TRUE, FALSE, {"always"}),
                 Setting(TRUE, FALSE, {"offpeak", "quota_low"}),
                 Setting(TRUE, TRUE, {"quota_exhausted"}),
                 Setting(TRUE, FALSE, {"never"})}

(* mode, peak and idle_prefer: every bucket order the code can choose *)
Policies == {[mode |-> m, peak |-> p, idle |-> "plans"] : m \in Modes, p \in BOOLEAN}
            \cup {[mode |-> "auto", peak |-> FALSE, idle |-> i] : i \in Idles}

(* the filter: everyone, all but the first plan, or a pin *)
Filters == {[usable |-> Endpoint, forced |-> FALSE],
            [usable |-> {"plan2", "cash"}, forced |-> FALSE],
            [usable |-> {"plan1"}, forced |-> TRUE]}

(* the session's endpoint, and whether it is inside a skip window *)
Bindings == {[bound |-> {}, skipped |-> {}], [bound |-> {"plan2"}, skipped |-> {}],
             [bound |-> {"cash"}, skipped |-> {}], [bound |-> {"cash"}, skipped |-> {"cash"}]}

SituationOf(set, cls, cool, ord, pol, flt, bnd) ==
    [mode |-> pol.mode, idle |-> pol.idle, peak |-> pol.peak,
     usable |-> flt.usable, forced |-> flt.forced,
     kind |-> KindOf, order |-> ord, pos |-> PosOf,
     enabled |-> [e \in Endpoint |-> set[e].enabled],
     optOut  |-> [e \in Endpoint |-> set[e].optOut],
     rules   |-> [e \in Endpoint |-> set[e].rules],
     class |-> cls, cooling |-> cool, bound |-> bnd.bound, skipped |-> bnd.skipped]

Settings == {[plan1 |-> a, plan2 |-> Setting(TRUE, FALSE, {"always"}), cash |-> c] :
                a \in PlanSettings, c \in CashSettings}
ClassesOf == {[plan1 |-> a, plan2 |-> b, cash |-> "surplus"] :
                a \in Classes, b \in Classes}

MCSituations ==
    {SituationOf(set, cls, cool, ord, pol, flt, bnd) :
        set \in Settings, cls \in ClassesOf,
        cool \in {{}, {"plan1"}, {"cash"}, {"plan1", "cash"}},
        ord \in OrdersOf, pol \in Policies, flt \in Filters, bnd \in Bindings}
=============================================================================
