--------------------------- MODULE MCUsageHistory ---------------------------
(* Instances of UsageHistory: the 146097 days of the Gregorian cycle, a week   *)
(* of schedules, two months around a leap day, and a turn of the year.         *)
EXTENDS UsageHistory

Long(from, to) == [from |-> from * Day, to |-> to * Day, step |-> Day, requests |-> 0,
                   changes |-> 0, busy |-> {}, anchors |-> {29, 31}, specs |-> {}]

(* From Monday 2024-01-01 on.                                                  *)
Week == [Long(19723, 19730) EXCEPT !.step = Day \div 8, !.anchors = {},
    !.specs = {
        {Window({<<0, 4>>}, {<<60, 240>>, <<360, 600>>}, 0)},
        {Window({<<4, 0>>}, {<<1320, 120>>}, 480), Window({<<5, 5>>}, {<<0, 1440>>}, -300)},
        {Window({<<6, 6>>}, {<<1439, 1440>>}, 0)},
        {Window({<<0, 6>>}, {<<0, 1440>>}, 0)}}]

(* From 2023-01-01 on, over a leap day, with every anchor.                     *)
Cycles == [Long(19358, 20100) EXCEPT !.anchors = 1..31]

(* From 2024-02-29 on, with requests on 1 and 30 March.                       *)
Spring == [Long(19782, 19812) EXCEPT !.anchors = {}, !.requests = 2, !.busy = {19783, 19812}]

(* From 2024-12-31 on.                                                         *)
NewYear == [Long(20088, 20089) EXCEPT !.to = @ + Day \div 3, !.step = Day \div 3, !.anchors = {},
                                      !.requests = 2, !.changes = 1, !.busy = {20088, 20089}]

MCWalks == {Long(0, 10957), Long(10957, 47482), Long(47482, 84006), Long(84006, 120530),
            Long(120530, 146097), Week, Cycles, Spring, NewYear}
MCDateOf ==
    [t \in {w.from : w \in MCWalks} |->
        CASE t = 0            -> <<1970, 1, 1>>
          [] t = 10957 * Day  -> <<2000, 1, 1>>
          [] t = 47482 * Day  -> <<2100, 1, 1>>
          [] t = 84006 * Day  -> <<2200, 1, 1>>
          [] t = 120530 * Day -> <<2300, 1, 1>>
          [] t = 19723 * Day  -> <<2024, 1, 1>>
          [] t = 19358 * Day  -> <<2023, 1, 1>>
          [] t = 19782 * Day  -> <<2024, 2, 29>>
          [] OTHER            -> <<2024, 12, 31>>]

MCReports == [p |-> [prompt |-> 2, completion |-> 0], c |-> [prompt |-> 1, completion |-> 3]]
MCBodies == {<<"data", "open", "p", "nl", "open", "c">>,
             <<"text", "text", "text", "text", "nl", "open", "p">>}
MCPolicies == {[offset |-> 0, retention |-> 1], [offset |-> 480, retention |-> 2]}
=============================================================================
