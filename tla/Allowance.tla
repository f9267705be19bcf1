------------------------------ MODULE Allowance ------------------------------
(***************************************************************************)
(* The allowance of one plan: what the router believes the provider has    *)
(* counted (QuotaState::report and to_json, src/state.rs), the calibration *)
(* that anchors this belief on readings of the provider's console          *)
(* (calibrate_endpoint, src/api.rs) and the usage probe (src/quota.rs).    *)
(*                                                                         *)
(* The ledger is the money recorded in each second (module Ledger has its  *)
(* samples one by one).  Every request is of one size and draws TrueRate   *)
(* from the plan, whatever the configured rate records for it.  The        *)
(* provider counts by the rules the code is written for: a month that      *)
(* follows the billing cycle (cycle_day is set), and shorter windows that  *)
(* open on use.  Its console shows exact percentages; amounts are whole    *)
(* numbers of money.                                                       *)
(***************************************************************************)
EXTENDS Integers, FiniteSetsExt

CONSTANTS
    Windows,        \* the windows that open on use: "rolling", "weekly"
    Period,         \* the length of each
    CycleStart,     \* per moment, when the billing cycle it lies in began
    Quotas,         \* the quota blocks the plan may be configured with
    Monthlies,      \* what an editor may set the monthly plan value to
    FirstRates,     \* what the configured rates may make of a request
    TrueRate,       \* what the provider counts for it
    Grant, Total,   \* what the provider grants: in a month, in each window
    ExhaustAt,      \* exhaust_at_pct
    MarkFor,        \* how long a refusal marks the plan exhausted: 300 s
    BackOff,        \* how long a probe waits after each kind of bad answer
    RefreshEvery,   \* refresh_secs
    MaxClock, MaxSent, MaxUnseen,   \* bounds of the model: time, requests
    MaxCalls                        \* the console's calls, probed or not

Times == 1..MaxClock

ASSUME AllowanceAssumption ==
    /\ Period \in [Windows -> Nat \ {0}]
    /\ CycleStart \in [Times -> Times] /\ \A t \in Times : CycleStart[t] <= t
    /\ Quotas \subseteq [limit : [Windows -> Nat], monthly : Nat, probed : BOOLEAN]
    /\ FirstRates \subseteq Nat \ {0} /\ Monthlies \subseteq Nat \ {0}
    /\ TrueRate \in Nat \ {0} /\ Grant \in Nat \ {0} /\ Total \in [Windows -> Nat \ {0}]
    /\ BackOff \in [{"unparseable", "gone", "failing", "error"} -> Nat]

VARIABLES
    clock,
    quota,      \* the configured quota block
    rate,       \* what the configured rates record for a request
    sent,       \* requests the router has recorded, per second
    ledger,     \* the money it has recorded for them
    windows,    \* QuotaWindows: the start of each window, 0 before the first
    reading,    \* QuotaState.reading: the first half of a calibration
    cal,        \* QuotaState.calibration
    remote,     \* the usage probe's last good answer
    until,      \* exhausted_until
    probeAfter, \* probe_after
    unseen,     \* the provider's side: requests the router has no record of,
    provider,   \* and the start of each window by its count
    calls       \* for the bound on the console's calls
routerVars == <<sent, ledger, windows, reading, cal, remote, until, probeAfter>>
vars == <<routerVars, clock, quota, rate, unseen, provider, calls>>

Points(part, whole) == (100 * part) \div whole
Share(whole, pct)   == (whole * pct) \div 100

All == Windows \cup {"monthly"}

NoReading == [at |-> 0]
NoCal     == [at |-> 0]
NoRemote  == [at |-> 0]

Sum(f, from) == MapThenSumSet(LAMBDA t : f[t], {t \in Times : t >= from})

CostSince(from) == Sum(ledger, from)

-----------------------------------------------------------------------------
(* The provider's count, which its console shows                           *)

Drawn(from) == TrueRate * (Sum(sent, from) + Sum(unseen, from))

Open(starts, w) == starts[w] > 0 /\ clock < starts[w] + Period[w]

Counted(w) == IF w = "monthly" THEN Drawn(CycleStart[clock])
              ELSE IF Open(provider, w) THEN Drawn(provider[w]) ELSE 0

Granted(w) == IF w = "monthly" THEN Grant ELSE Total[w]

ConsolePct(w) == Points(Counted(w), Granted(w))

Left == \A w \in All : Counted(w) + TrueRate <= Granted(w)

-----------------------------------------------------------------------------
(* What the router reports                                                 *)

(* A derivation made against another plan value is set aside.              *)
PlanChanged == cal # NoCal /\ cal.plan > 0 /\ cal.plan # quota.monthly

(* A mutant: a reference is in force whatever cycle it was taken in.       *)
AnchoredForGood ==
    /\ cal # NoCal /\ ~PlanChanged
    /\ cal.refAt > 0 /\ (cal.base["monthly"] > 0 \/ cal.refPct["monthly"] > 0)

Anchored ==
    /\ cal # NoCal /\ ~PlanChanged
    /\ cal.refAt > 0 /\ (cal.base["monthly"] > 0 \/ cal.refPct["monthly"] > 0)
    /\ cal.refAt >= CycleStart[clock]

(* The level at the reference: money, or a percentage of an old file.      *)
Base(w, total) == IF cal.base[w] > 0 THEN cal.base[w] ELSE Share(total, cal.refPct[w])

(* A mutant: the ledger is added from the cycle's start, not the           *)
(* reference's.                                                            *)
MonthlyUsedTwice ==
    IF Anchored THEN Base("monthly", quota.monthly) + CostSince(CycleStart[clock])
                ELSE CostSince(CycleStart[clock])

MonthlyUsed ==
    IF Anchored THEN Base("monthly", quota.monthly) + CostSince(cal.refAt)
                ELSE CostSince(CycleStart[clock])

Limit(w) == IF w = "monthly" THEN quota.monthly ELSE quota.limit[w]

(* The sum of every window begins with the cycle, where there is one.      *)
LocalUsed(w) == IF w = "monthly" THEN MonthlyUsed ELSE CostSince(CycleStart[clock])

(* An answer that names neither a reset nor a status says nothing of a     *)
(* window at zero.                                                         *)
Says(w) == remote # NoRemote /\ (remote.pct[w] > 0 \/ ~remote.bare)

(* With a probe configured, an empty ledger says nothing.                  *)
HasData(w) ==
    \/ Says(w)
    \/ Limit(w) > 0 /\ (LocalUsed(w) > 0 \/ ~quota.probed)

Pct(w) == IF Says(w) THEN remote.pct[w]
          ELSE IF HasData(w) THEN Points(LocalUsed(w), Limit(w)) ELSE 0

RemoteSpent == remote # NoRemote /\ remote.spent

(* A mutant: the monthly window is left out.                               *)
ExhaustedByWindows ==
    \/ clock < until \/ RemoteSpent
    \/ HasData("rolling") /\ \E w \in Windows : Pct(w) >= ExhaustAt

(* The percentages count only when the five-hour window has one.           *)
Exhausted ==
    \/ clock < until \/ RemoteSpent
    \/ HasData("rolling") /\ \E w \in All : Pct(w) >= ExhaustAt

(* to_json's derived_view: the shorter windows of a derivation, which the  *)
(* console shows and routing never sees.  NoView: the report's own view    *)
(* is shown instead.                                                       *)
NoView == -1

ShownUsed(w) ==
    LET start  == windows[w]
        inside == /\ cal.refAt > 0 /\ cal.refAt >= start
                  /\ cal.base[w] > 0 \/ cal.refPct[w] > 0
        first  == {t \in Times : sent[t] > 0}
    IN  IF cal = NoCal \/ PlanChanged \/ start <= 0 THEN NoView
        ELSE IF ~Open(windows, w) THEN 0
        ELSE IF cal.total[w] <= 0 THEN NoView
        ELSE IF inside THEN Base(w, cal.total[w]) + CostSince(cal.refAt)
        ELSE IF first # {} /\ Min(first) > start THEN NoView
        ELSE CostSince(start)

-----------------------------------------------------------------------------
(* Requests                                                                *)

Roll(starts) == [w \in Windows |-> IF Open(starts, w) THEN starts[w] ELSE clock]

(* A request is answered: record_success rolls the windows and records     *)
(* what the request cost, at the rates in force.                           *)
Send ==
    /\ Left /\ Sum(sent, 1) < MaxSent
    /\ sent' = [sent EXCEPT ![clock] = @ + 1]
    /\ ledger' = [ledger EXCEPT ![clock] = @ + rate]
    /\ windows' = Roll(windows)
    /\ provider' = Roll(provider)
    /\ UNCHANGED <<clock, quota, rate, reading, cal, remote, until, probeAfter, unseen, calls>>

(* Somebody else uses the same credential.                                 *)
SendElsewhere ==
    /\ Left /\ Sum(unseen, 1) < MaxUnseen
    /\ unseen' = [unseen EXCEPT ![clock] = @ + 1]
    /\ provider' = Roll(provider)
    /\ UNCHANGED <<routerVars, clock, quota, rate, calls>>

(* The provider refuses: maybe_cooldown marks the plan exhausted.          *)
Refused ==
    /\ ~Left
    /\ until' = clock + MarkFor
    /\ probeAfter' = 0
    /\ UNCHANGED <<clock, quota, rate, sent, ledger, windows, reading, cal, remote,
                   unseen, provider, calls>>

-----------------------------------------------------------------------------
(* The usage probe: spawn_refreshers and refresh_usage                     *)

ProbeDue == quota.probed /\ (remote = NoRemote \/ clock - remote.at >= RefreshEvery)
            /\ clock >= probeAfter

ProbeAnswers ==
    /\ ProbeDue
    /\ \E bare \in BOOLEAN, spent \in {FALSE, ~Left} :
        /\ ~(bare /\ spent)
        /\ remote' = [at |-> clock, pct |-> [w \in All |-> ConsolePct(w)],
                      bare |-> bare, spent |-> spent]
    /\ probeAfter' = 0
    /\ UNCHANGED <<clock, quota, rate, sent, ledger, windows, reading, cal, until,
                   unseen, provider, calls>>

(* The last good answer stays, however old it grows.                       *)
ProbeFails ==
    /\ ProbeDue
    /\ \E how \in DOMAIN BackOff : probeAfter' = clock + BackOff[how]
    /\ UNCHANGED <<clock, quota, rate, sent, ledger, windows, reading, cal, remote, until,
                   unseen, provider, calls>>

-----------------------------------------------------------------------------
(* The stages of calibrate_endpoint, one console request each.  The        *)
(* operator copies what the console shows at that moment.                  *)

Recording == <<sent, ledger, remote, until, probeAfter, clock, quota, unseen, provider>>

Call == calls < MaxCalls[quota.probed] /\ calls' = calls + 1

Shown == [w \in All |-> ConsolePct(w)]

(* clean: for the properties.  No request of this second came before.      *)
NewReading == [at |-> clock, pct |-> Shown, clean |-> sent[clock] = 0 /\ unseen[clock] = 0]

Start ==
    /\ Call
    /\ reading' = NewReading
    /\ UNCHANGED <<Recording, windows, cal, rate>>

Cancel ==
    /\ Call
    /\ reading' = NoReading
    /\ UNCHANGED <<Recording, windows, cal, rate>>

Bases(total) ==
    [w \in All |-> Share(IF w = "monthly" THEN quota.monthly ELSE total[w], ConsolePct(w))]

(* A mutant: sync moves the reference and leaves the level behind.         *)
SyncKeepsLevel ==
    /\ Call
    /\ IF cal = NoCal
       THEN reading' = NewReading /\ UNCHANGED cal
       ELSE /\ cal' = [cal EXCEPT !.refAt = clock, !.refPct = Shown, !.plan = quota.monthly,
                                  !.moved = FALSE, !.verified = FALSE]
            /\ UNCHANGED reading
    /\ UNCHANGED <<Recording, windows, rate>>

(* set_reference: without a derivation the reading is kept as a first one. *)
Sync ==
    /\ Call
    /\ IF cal = NoCal
       THEN reading' = NewReading /\ UNCHANGED cal
       ELSE /\ cal' = [cal EXCEPT !.refAt = clock, !.refPct = Shown, !.plan = quota.monthly,
                                  !.base = Bases(cal.total),
                                  !.moved = FALSE, !.verified = FALSE]
            /\ UNCHANGED reading
    /\ UNCHANGED <<Recording, windows, rate>>

(* "limits": the total of each window S names, from one reading of it;     *)
(* refused when one of them is closed, reads zero or has no money in it.   *)
Limits ==
    /\ Call
    /\ \E S \in SUBSET Windows \ {{}} :
        LET money(w) == CostSince(windows[w])
            measured == [w \in S |-> Points(money(w), ConsolePct(w))]
            total    == [w \in Windows |-> IF w \in S THEN measured[w]
                                           ELSE IF cal = NoCal THEN 0 ELSE cal.total[w]]
            zero     == [w \in All |-> 0]
        IN  /\ \A w \in S : Open(windows, w) /\ ConsolePct(w) > 0 /\ money(w) > 0
            /\ cal' = IF cal = NoCal
                      THEN [at |-> clock, total |-> total, refAt |-> 0, refPct |-> zero,
                            base |-> zero, plan |-> 0, verified |-> FALSE,
                            moved |-> FALSE, priced |-> 0, derived |-> 0, by |-> "limits"]
                      ELSE [cal EXCEPT !.total = total, !.by = "limits",
                                !.base = [w \in All |->
                                    IF w = "monthly" THEN @[w]
                                    ELSE Share(total[w], cal.refPct[w])]]
    /\ UNCHANGED <<Recording, windows, reading, rate>>

(* "anchors": the countdowns set the starts; a window that is not sent is  *)
(* left alone, and one that is not running is cleared.                     *)
Anchors ==
    /\ Call
    /\ \E S \in SUBSET Windows :
        windows' = [w \in Windows |->
            IF w \notin S THEN windows[w]
            ELSE IF Open(provider, w) THEN provider[w] ELSE 0]
    /\ UNCHANGED <<Recording, reading, cal, rate>>

CostBetween(from, to) == CostSince(from) - CostSince(to)

(* A mutant: only a whole period between the readings makes them useless.  *)
CrossedByLength(w) == clock - reading.at >= Period[w]

(* The two readings of a window are not of one window.                     *)
Crossed(w) ==
    \/ windows[w] > reading.at /\ windows[w] <= clock
    \/ clock - reading.at >= Period[w]

(* How many points a window moved between the readings.  The least         *)
(* movement that counts, 0.3 points, is less than one.                     *)
Moved(w) == ConsolePct(w) - reading.pct[w]

(* What the readings say the router's money was worth: k * l.              *)
Worth == Share(quota.monthly, Moved("monthly"))

(* "finish": the second reading.  Every refusal leaves the first in place. *)
(* The rates are corrected in the configuration file, which may fail; the  *)
(* derivation stays in memory, and nothing marks it to be saved.           *)
Finish ==
    /\ Call
    /\ reading # NoReading
    /\ CycleStart[reading.at] = CycleStart[clock]
    /\ Moved("monthly") >= 1
    /\ LET l     == CostBetween(reading.at, clock)
           total == [w \in Windows |-> IF Crossed(w) \/ Moved(w) < 1 THEN 0
                                       ELSE Points(Worth, Moved(w))]
           clean == reading.clean /\ l = rate * (Sum(sent, reading.at) - Sum(sent, clock))
       IN  /\ l > 0
           /\ \E written \in BOOLEAN :
                /\ rate' = IF written THEN (rate * Worth) \div l ELSE rate
                /\ cal' = [at |-> clock, total |-> total, refAt |-> clock, refPct |-> Shown,
                           base |-> Bases(total), plan |-> quota.monthly, verified |-> FALSE,
                           moved |-> FALSE, by |-> "finish", derived |-> quota.monthly,
                           priced |-> IF written /\ clean THEN quota.monthly ELSE 0]
    /\ reading' = NoReading
    /\ UNCHANGED <<Recording, windows>>

(* "verify": a third reading is compared with the money since the          *)
(* reference (0.5 points apart at most) and becomes the reference.         *)
Verify ==
    /\ Call
    /\ cal # NoCal
    /\ LET l        == CostBetween(cal.refAt, clock)
           residual == quota.monthly * (ConsolePct("monthly") - cal.refPct["monthly"]) - 100 * l
       IN  cal' = [cal EXCEPT !.refPct["monthly"] = ConsolePct("monthly"), !.refAt = clock,
                              !.verified = 2 * residual \in -quota.monthly..quota.monthly,
                              !.moved = TRUE]
    /\ UNCHANGED <<Recording, windows, reading, rate>>

-----------------------------------------------------------------------------
(* An editor changes the plan value; the calibration is not told.          *)
EditPlan ==
    /\ Call
    /\ \E m \in Monthlies \ {quota.monthly} : quota' = [quota EXCEPT !.monthly = m]
    /\ UNCHANGED <<routerVars, clock, rate, unseen, provider>>

Tick == clock < MaxClock /\ clock' = clock + 1
        /\ UNCHANGED <<routerVars, quota, rate, unseen, provider, calls>>

Init ==
    /\ clock = 1
    /\ quota \in Quotas /\ rate \in FirstRates
    /\ sent = [t \in Times |-> 0] /\ ledger = sent /\ unseen = sent
    /\ windows = [w \in Windows |-> 0] /\ provider = windows
    /\ reading = NoReading /\ cal = NoCal /\ remote = NoRemote
    /\ until = 0 /\ probeAfter = 0
    /\ calls = 0

Next ==
    \/ Send \/ SendElsewhere \/ Refused
    \/ ProbeAnswers \/ ProbeFails
    \/ Start \/ Cancel \/ Sync \/ Limits \/ Anchors \/ Finish \/ Verify
    \/ EditPlan \/ Tick

Spec == Init /\ [][Next]_vars

-----------------------------------------------------------------------------
(* Properties                                                              *)

(* A derivation of this plan value, over requests of one price, whose      *)
(* rates were saved.                                                       *)
Derived == cal # NoCal /\ cal.priced = quota.monthly

(* What the provider has counted since the reference and the router never  *)
(* saw, and what was recorded in the very second of the reference.         *)
UnseenSince == TrueRate * Sum(unseen, cal.refAt)
SameSecond  == ledger[cal.refAt]
AllSeen     == Sum(unseen, 1) = 0

(* The provider's count, in the money of the configured plan value.        *)
Due(w) == (Counted(w) * quota.monthly) \div Grant

(* "level + what the ledger recorded since" (docs/configuration.md:245):   *)
(* after a derivation the monthly amount is the provider's own.  It is low *)
(* by no more than what the router never saw since the reference, and,     *)
(* when the rates came out right, high by no more than what was recorded   *)
(* in that second: whatever was synced, derived again, edited and undone.  *)
LevelIsProviders ==
    Derived /\ Anchored /\ ~cal.moved =>
        /\ MonthlyUsed + UnseenSince >= Due("monthly")
        /\ AllSeen /\ rate * Grant = TrueRate * quota.monthly =>
              MonthlyUsed <= Due("monthly") + SameSecond

(* A "window whose readings cross its own reset ... is skipped rather than *)
(* derived from broken numbers" (docs/configuration.md:238): while all the *)
(* traffic is the router's, a derived total is the right one or none, for  *)
(* the plan value it was derived for.  It need not be for the value it is  *)
(* in force for: a sync after an edit of the plan value takes the totals   *)
(* over as they are (state.rs:1405).                                       *)
TotalsRight ==
    cal # NoCal /\ cal.by = "finish" /\ AllSeen =>
        \A w \in Windows : cal.total[w] \in {0, (Total[w] * cal.derived) \div Grant}

(* "So the console can show the same percentages the provider does"        *)
(* (state.rs:607): the windows of a derivation do not read low either.     *)
WindowsNeverLow ==
    Derived /\ cal.by = "finish" /\ ~cal.moved /\ AllSeen =>
        \A w \in Windows : ShownUsed(w) # NoView => ShownUsed(w) >= Due(w)

(* "At this percentage the plan stops being preferred"                     *)
(* (docs/configuration.md:331): a plan is taken for exhausted as soon as   *)
(* the provider has counted that much, when a calibrated level says so or  *)
(* the probe's last answer still holds.  Either says it only to a router   *)
(* that knows something of the five-hour window.                           *)
DrySeen ==
    LET byLevel == /\ quota.limit["rolling"] > 0 /\ ~quota.probed
                   /\ Derived /\ Anchored /\ ~cal.moved /\ AllSeen
                   /\ Counted("monthly") * 100 >= ExhaustAt * Grant
        byProbe == /\ remote # NoRemote /\ remote.pct = Shown /\ ConsolePct("rolling") > 0
                   /\ \E w \in All : ConsolePct(w) >= ExhaustAt
    IN  byLevel \/ byProbe => Exhausted

=============================================================================
