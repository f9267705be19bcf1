------------------------------ MODULE TimeUtil ------------------------------
(***************************************************************************)
(* The calendar and the peak schedule of src/timeutil.rs.                  *)
(*                                                                         *)
(* Time is in whole minutes since 1970, which every boundary falls on.     *)
(* The divisions of the source that truncate towards zero are guarded so   *)
(* that they round down, as \div does.                                     *)
(***************************************************************************)
EXTENDS Integers, FiniteSets

Day == 24 * 60

DayOf(t) == t \div Day

(* 0 is a Monday.                                                          *)
Weekday(n) == (n + 3) % 7

(* A mutant: the centuries are leap years.                                 *)
DaysFromCivilJulian(date) ==
    LET y   == IF date[2] <= 2 THEN date[1] - 1 ELSE date[1]
        era == y \div 400
        yoe == y - era * 400
        mp  == (date[2] + 9) % 12
        doy == (153 * mp + 2) \div 5 + date[3] - 1
        doe == yoe * 365 + yoe \div 4 + doy
    IN  era * 146097 + doe - 719468

(* The days from 1970-01-01 to a date <<year, month, day>>.                *)
DaysFromCivil(date) ==
    LET y   == IF date[2] <= 2 THEN date[1] - 1 ELSE date[1]
        era == y \div 400
        yoe == y - era * 400
        mp  == (date[2] + 9) % 12
        doy == (153 * mp + 2) \div 5 + date[3] - 1
        doe == yoe * 365 + yoe \div 4 - yoe \div 100 + doy
    IN  era * 146097 + doe - 719468

CivilFromDays(n) ==
    LET z   == n + 719468
        era == z \div 146097
        doe == z - era * 146097
        yoe == (doe - doe \div 1460 + doe \div 36524 - doe \div 146096) \div 365
        doy == doe - (365 * yoe + yoe \div 4 - yoe \div 100)
        mp  == (5 * doy + 2) \div 153
        d   == doy - (153 * mp + 2) \div 5 + 1
        m   == IF mp < 10 THEN mp + 3 ELSE mp - 9
    IN  <<yoe + era * 400 + IF m <= 2 THEN 1 ELSE 0, m, d>>

DaysInMonth(y, m) ==
    CASE m \in {4, 6, 9, 11} -> 30
      [] m = 2 -> IF (y % 4 = 0 /\ y % 100 # 0) \/ y % 400 = 0 THEN 29 ELSE 28
      [] OTHER -> 31

Lower(a, b) == IF a < b THEN a ELSE b

MonthAfter(y, m)  == IF m = 12 THEN <<y + 1, 1>> ELSE <<y, m + 1>>
MonthBefore(y, m) == IF m = 1 THEN <<y - 1, 12>> ELSE <<y, m - 1>>

(* A mutant: a month too short for the anchor runs over into the next.     *)
AnchorSpilled(ym, anchor) == DaysFromCivil(<<ym[1], ym[2], anchor>>)

(* The day of a month a cycle begins on.                                   *)
Anchor(ym, anchor) == DaysFromCivil(<<ym[1], ym[2], Lower(anchor, DaysInMonth(ym[1], ym[2]))>>)

(* The first day of the cycle a day lies in, and of the next cycle.        *)
CycleBounds(n, anchor) ==
    LET date == CivilFromDays(n)
        y    == date[1]
        m    == date[2]
        this == Anchor(<<y, m>>, anchor)
    IN  IF n >= this THEN <<this, Anchor(MonthAfter(y, m), anchor)>>
                     ELSE <<Anchor(MonthBefore(y, m), anchor), this>>

-----------------------------------------------------------------------------
(* Peak windows                                                            *)

(* The weekdays of a part of a window, "Fri-Mon": from the first on to the *)
(* last, over the end of the week if need be.                              *)
WeekdaysFrom(part) == {(part[1] + k) % 7 : k \in 0..(part[2] - part[1]) % 7}

(* A window as parse_window makes it: parts are pairs of weekdays, ranges  *)
(* pairs of minutes of the day.                                            *)
Window(parts, ranges, offset) ==
    [days |-> UNION {WeekdaysFrom(p) : p \in parts}, ranges |-> ranges, offset |-> offset]

(* A range that ends before it begins goes over midnight: it is the end    *)
(* and the beginning of one day, not of two.                               *)
InRange(minute, range) ==
    LET s == range[1]
        e == range[2]
    IN  \/ s < e /\ minute >= s /\ minute < e
        \/ s > e /\ (minute >= s \/ minute < e)

Matches(w, t) ==
    LET here == t + w.offset
    IN  /\ Weekday(DayOf(here)) \in w.days
        /\ \E range \in w.ranges : InRange(here % Day, range)

IsPeakAt(t, windows) == \E w \in windows : Matches(w, t)

(* A mutant: a working week ahead is enough.                               *)
HorizonOfFive == 5 * Day

Horizon == 8 * Day

(* eval_schedule's next_change: the first minute it is otherwise, or the   *)
(* horizon.                                                                *)
NextChange(t, windows) ==
    LET changed(u) == IsPeakAt(u, windows) # IsPeakAt(t, windows)
        ahead      == (t + 1)..(t + Horizon)
    IN  IF \E u \in ahead : changed(u)
        THEN CHOOSE u \in ahead : changed(u) /\ \A v \in (t + 1)..(u - 1) : ~changed(v)
        ELSE t + Horizon
=============================================================================
