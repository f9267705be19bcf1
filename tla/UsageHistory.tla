---------------------------- MODULE UsageHistory ----------------------------
(***************************************************************************)
(* What each day counted (UsageHistory, src/state.rs): a streamed answer   *)
(* is scanned for its usage (src/sse.rs) and filed under the local day its *)
(* head came on (src/timeutil.rs); weeks and months are folded from the    *)
(* days.  The boundary of a day and the retention follow a reload, and a   *)
(* start fills days that have nothing from the usage ledger.               *)
(*                                                                         *)
(* A behaviour is a walk along the calendar.  The state file is written    *)
(* before a stop: module Persistence is about the stops that do not.       *)
(***************************************************************************)
EXTENDS TimeUtil, UsageScanner, FiniteSetsExt

CONSTANTS
    Walks,      \* first minute, last minute and step; how many requests and
                \* changes, on which days; the anchors and peak windows asked
    Bodies,     \* what an upstream may stream
    Policies,   \* stats.utc_offset_minutes and stats.retention_days
    DateOf      \* the date of each walk's first day, by the almanac

ASSUME HistoryAssumption ==
    /\ \A w \in Walks :
           /\ w.from \in Nat /\ w.to \in Nat /\ w.from <= w.to /\ w.step \in 1..Day
           /\ w.anchors \subseteq 1..31
           /\ \A s \in w.specs : \A window \in s : window.offset \in Int
    /\ \A body \in Bodies : body \in Seq(ToSet(body))
    /\ \A p \in Policies : p.offset \in Int /\ p.retention \in Nat \ {0}

-----------------------------------------------------------------------------
(* The almanac, for the properties: what is a date, which follows it, and  *)
(* the days from 1970-01-01 to it by the lengths of years and months.      *)
IsDate(date) ==
    /\ date = <<date[1], date[2], date[3]>>
    /\ date[1] \in Int /\ date[2] \in 1..12 /\ date[3] \in 1..DaysInMonth(date[1], date[2])

NextDate(date) ==
    IF date[3] < DaysInMonth(date[1], date[2]) THEN <<date[1], date[2], date[3] + 1>>
    ELSE <<MonthAfter(date[1], date[2])[1], MonthAfter(date[1], date[2])[2], 1>>

Leaps(y) == y \div 4 - y \div 100 + y \div 400

BeforeMonth == <<0, 31, 59, 90, 120, 151, 181, 212, 243, 273, 304, 334>>

DayNumber(date) ==
    LET y == date[1]
    IN  365 * (y - 1970) + Leaps(IF date[2] <= 2 THEN y - 1 ELSE y) - Leaps(1969)
            + BeforeMonth[date[2]] + date[3] - 1

ASSUME AlmanacAssumption ==
    \A w \in Walks : LET date == DateOf[w.from]
                    IN  IsDate(date) /\ DayNumber(date) = DayOf(w.from)

VARIABLES
    clock,
    walk,
    today,      \* for the properties: the date, by counting
    stream,     \* the answer being forwarded: what is left, and the scanner
    days,       \* the day buckets, by date
    policy,     \* the boundary and retention in force
    prunedOn,   \* the local date retention was last applied on
    counted,    \* the requests counted, and where they were filed: those with
                \* tokens are the samples of the usage ledger
    horizon,    \* for the properties: the days before it may be gone,
    moved,      \* and whether a start found samples filed by another offset
    left        \* bounds: requests and changes that may still come
vars == <<clock, walk, today, stream, days, policy, prunedOn, counted, horizon, moved, left>>

NoStream == [at |-> 0]
NoDate   == <<0, 0, 0>>
Nothing  == [requests |-> 0, prompt |-> 0, completion |-> 0]

Plus(a, b) == [requests |-> a.requests + b.requests, prompt |-> a.prompt + b.prompt,
               completion |-> a.completion + b.completion]

LocalDay(t, offset) == DayOf(t + offset)
DayKey(t, offset)   == CivilFromDays(LocalDay(t, offset))

(* Keys are compared as texts YYYY-MM-DD.                                  *)
Earlier(a, b) ==
    \/ a[1] < b[1]
    \/ a[1] = b[1] /\ a[2] < b[2]
    \/ a[1] = b[1] /\ a[2] = b[2] /\ a[3] < b[3]

Filed(history, key, bucket) ==
    [k \in DOMAIN history \cup {key} |->
        IF k # key THEN history[k]
        ELSE IF k \in DOMAIN history THEN Plus(history[k], bucket) ELSE bucket]

(* A mutant: retention counts today as one of its days.                    *)
PrunedShort(history, at) ==
    LET oldest == CivilFromDays(LocalDay(clock, at.offset) - at.retention + 1)
    IN  [k \in {k \in DOMAIN history : ~Earlier(k, oldest)} |-> history[k]]

Pruned(history, at) ==
    LET oldest == CivilFromDays(LocalDay(clock, at.offset) - at.retention)
    IN  [k \in {k \in DOMAIN history : ~Earlier(k, oldest)} |-> history[k]]

Dropped(at) == Max({horizon, LocalDay(clock, at.offset) - at.retention})

Bucket(x) == [requests |-> 1, prompt |-> x.prompt, completion |-> x.completion]

SumOf(samples) == FoldSet(LAMBDA x, sum : Plus(sum, Bucket(x)), Nothing, samples)

(* The usage ledger has a sample of each request that used tokens.         *)
Samples == {x \in counted : x.prompt + x.completion > 0}

(* backfill: days that have nothing get what the ledger has of them.       *)
Backfilled(history, offset) ==
    LET mine(key) == {x \in Samples : DayKey(x.at, offset) = key}
        missing   == {DayKey(x.at, offset) : x \in Samples} \ DOMAIN history
    IN  [k \in DOMAIN history \cup missing |->
            IF k \in missing THEN SumOf(mine(k)) ELSE history[k]]

-----------------------------------------------------------------------------
(* Forwarding an answer                                                    *)

Busy == \E d \in walk.busy : DayOf(clock) = d

(* The head has come: now_secs is read, and the scanner is new.            *)
Begin ==
    /\ stream = NoStream /\ Busy /\ left.requests > 0
    /\ \E body \in Bodies :
          stream' = [at |-> clock, body |-> body, rest |-> body, scan |-> Fresh]
    /\ left' = [left EXCEPT !.requests = @ - 1]
    /\ UNCHANGED <<clock, walk, today, days, policy, prunedOn, counted, horizon, moved>>

Piece ==
    /\ stream # NoStream
    /\ \E n \in DOMAIN stream.rest :
          stream' = [stream EXCEPT !.scan = Feed(@, SubSeq(stream.rest, 1, n)),
                                   !.rest = SubSeq(@, n + 1, Len(@))]
    /\ UNCHANGED <<clock, walk, today, days, policy, prunedOn, counted, horizon, moved, left>>

(* For the properties: the lines of a stream, and what they report         *)
(* together.                                                               *)
Lines(text) ==
    {SubSeq(text, r[1], r[2]) : r \in
        {r \in (DOMAIN text) \X (DOMAIN text) :
            /\ \A i \in r[1]..r[2] : text[i] # "nl"
            /\ r[1] = 1 \/ text[r[1] - 1] = "nl"
            /\ r[2] = Len(text) \/ text[r[2] + 1] = "nl"}}
Fits(text) ==
    \A line \in Lines(text) : Len(line) > Limit =>
        \A i \in DOMAIN line : LineUsage(SubSeq(line, i, Len(line))) = NoUsage

Reported(text) ==
    [requests |-> 1,
     prompt |-> Max({0} \cup {LineUsage(line).prompt : line \in Lines(text)}),
     completion |-> Max({0} \cup {LineUsage(line).completion : line \in Lines(text)})]

(* The upstream ends or breaks off: record_success files the day and adds  *)
(* the sample, with the usage that was found.                              *)
Record ==
    /\ stream # NoStream
    /\ LET usage == Finished(stream.scan)
           key   == DayKey(stream.at, policy.offset)
           sent  == SubSeq(stream.body, 1, Len(stream.body) - Len(stream.rest))
       IN  /\ days' = Filed(days, key, Bucket(usage))
           /\ counted' = counted \cup
                {[id |-> Cardinality(counted), at |-> stream.at, key |-> key, offset |-> policy.offset,
                  reported |-> Reported(sent), fits |-> Fits(sent),
                  prompt |-> usage.prompt, completion |-> usage.completion]}
    /\ stream' = NoStream
    /\ UNCHANGED <<clock, walk, today, policy, prunedOn, horizon, moved, left>>

-----------------------------------------------------------------------------
(* Retention and the boundary                                              *)

(* Every flush prunes, when the local date is another than last time.  (A  *)
(* walk without busy days has nothing to prune.)                           *)
Prune ==
    /\ walk.busy # {}
    /\ prunedOn # DayKey(clock, policy.offset)
    /\ prunedOn' = DayKey(clock, policy.offset)
    /\ days' = Pruned(days, policy)
    /\ horizon' = Dropped(policy)
    /\ UNCHANGED <<clock, walk, today, stream, policy, counted, moved, left>>

Change == left.changes > 0 /\ left' = [left EXCEPT !.changes = @ - 1]

(* A reload: what is filed already keeps its day.                          *)
SetPolicy ==
    /\ Change
    /\ \E p \in Policies \ {policy} : policy' = p
    /\ UNCHANGED <<clock, walk, today, stream, days, prunedOn, counted, horizon, moved>>

(* restore_history at a start: the boundary of the configuration, the days *)
(* of the file, those the ledger still has, and retention.                 *)
Restart ==
    /\ Change
    /\ \E p \in Policies :
        /\ policy' = p
        /\ days' = Pruned(Backfilled(days, p.offset), p)
        /\ prunedOn' = DayKey(clock, p.offset)
        /\ horizon' = Dropped(p)
        /\ moved' = (moved \/ \E x \in Samples : x.offset # p.offset)
    /\ stream' = NoStream
    /\ UNCHANGED <<clock, walk, today, counted>>

-----------------------------------------------------------------------------
(* The periods of the console                                              *)

Fold(from, to) ==
    FoldSet(LAMBDA k, sum : Plus(sum, days[k]), Nothing,
            {k \in DOMAIN days : DaysFromCivil(k) \in from..to})

MonthStart(ym) == DaysFromCivil(<<ym[1], ym[2], 1>>)

(* A mutant: the day of the month may lie after the end of the month.      *)
MonthPrevEndSpilled(n) ==
    LET date == CivilFromDays(n)
    IN  MonthStart(MonthBefore(date[1], date[2])) + n - MonthStart(date)

(* The same day of the month before, or its last day.                      *)
MonthPrevEnd(n) ==
    LET date == CivilFromDays(n)
        prev == MonthBefore(date[1], date[2])
    IN  MonthStart(prev) + Lower(n - MonthStart(date), DaysInMonth(prev[1], prev[2]) - 1)

Totals(n) ==
    LET date   == CivilFromDays(n)
        monday == n - Weekday(n)
    IN  [today |-> Fold(n, n), week |-> Fold(monday, n), weekPrev |-> Fold(monday - 7, n - 7),
         month |-> Fold(MonthStart(date), n),
         monthPrev |-> Fold(MonthStart(MonthBefore(date[1], date[2])), MonthPrevEnd(n))]

-----------------------------------------------------------------------------
Tick ==
    /\ clock + walk.step <= walk.to
    /\ clock' = clock + walk.step
    /\ today' = IF DayOf(clock') # DayOf(clock) THEN NextDate(today) ELSE today
    /\ UNCHANGED <<walk, stream, days, policy, prunedOn, counted, horizon, moved, left>>

Init ==
    /\ walk \in Walks
    /\ clock = walk.from
    /\ today = DateOf[walk.from]
    /\ stream = NoStream
    /\ days = [k \in {} |-> Nothing]
    /\ policy \in IF walk.requests > 0 THEN Policies ELSE {[offset |-> 0, retention |-> 1]}
    /\ prunedOn = NoDate
    /\ counted = {}
    /\ horizon = 0
    /\ moved = FALSE
    /\ left = [requests |-> walk.requests, changes |-> walk.changes]

Next == Begin \/ Piece \/ Record \/ Prune \/ SetPolicy \/ Restart \/ Tick

Spec == Init /\ [][Next]_vars
-----------------------------------------------------------------------------
(* Properties                                                              *)

(* The dates of every day of the Gregorian cycle are those of the almanac, *)
(* both ways.                                                              *)
CalendarIsTrue ==
    CivilFromDays(DayOf(clock)) = today /\ DaysFromCivil(today) = DayOf(clock)

(* "A month too short to hold it uses that month's last day" (cycle_bounds,*)
(* timeutil.rs:102): the cycles of every anchor lie end to end over all    *)
(* days, and begin on the anchor or on the last day of a shorter month.    *)
CyclesTile ==
    \A a \in walk.anchors :
        LET n     == DayOf(clock)
            b     == CycleBounds(n, a)
            first == CivilFromDays(b[1])
        IN  /\ b[1] <= n /\ n < b[2]
            /\ CycleBounds(b[1] - 1, a)[2] = b[1]
            /\ CycleBounds(b[2], a)[1] = b[2]
            /\ \/ first[3] = a
               \/ first[3] < a /\ first[3] = DaysInMonth(first[1], first[2])

(* "The next peak<->off-peak transition" (timeutil.rs:394), looked for     *)
(* "at most 8 days" ahead: it is one, for windows over midnight and over   *)
(* the week's end and in any zone, unless there is none at all.            *)
NextChangeFound ==
    \A s \in walk.specs :
        LET u == NextChange(clock, s)
        IN  \/ IsPeakAt(u, s) # IsPeakAt(clock, s)
            \/ \A v \in clock..(clock + 15 * Day) : IsPeakAt(v, s) = IsPeakAt(clock, s)

Truth(samples) == FoldSet(LAMBDA x, sum : Plus(sum, x.reported), Nothing, samples)
AllFit == \A x \in counted : x.fits

DaysAreTrue ==
    \A key \in {x.key : x \in counted} \cup DOMAIN days :
        DaysFromCivil(key) >= horizon =>
            /\ key \in DOMAIN days
            /\ days[key] = Truth({x \in counted : x.key = key})

(* "The same numbers ... at one moment" and "days already filed are never  *)
(* reshuffled": a day within the retention counts each of its requests     *)
(* once, with the usage the stream reports, however it was cut; whatever   *)
(* reloads, restarts and midnights came between, as long as no start files *)
(* the ledger by another boundary and no event is longer than the buffer.  *)
HistoryIsTruth == ~moved /\ AllFit => DaysAreTrue

(* "Compared against a *whole* last week is not a comparison" (totals): by *)
(* their dates, the days of this week and month up to today, and those of  *)
(* the week and month before up to the same day.                           *)
PeriodsMatch ==
    LET n       == LocalDay(clock, policy.offset)
        date    == CivilFromDays(n)
        prev    == MonthBefore(date[1], date[2])
        week(m) == (m + 3) \div 7
        sum(D)  == FoldSet(LAMBDA k, total : Plus(total, days[k]), Nothing, D)
        in(ym)  == {k \in DOMAIN days : k[1] = ym[1] /\ k[2] = ym[2] /\ k[3] <= date[3]}
        of(w)   == {k \in DOMAIN days : /\ week(DaysFromCivil(k)) = w
                                        /\ Weekday(DaysFromCivil(k)) <= Weekday(n)}
    IN  /\ Totals(n).month = sum(in(date)) /\ Totals(n).monthPrev = sum(in(prev))
        /\ Totals(n).week = sum(of(week(n))) /\ Totals(n).weekPrev = sum(of(week(n) - 1))

=============================================================================
