------------------------------- MODULE Proxy -------------------------------
(***************************************************************************)
(* The request path of src/proxy.rs: every connection thread runs proxy()  *)
(* for its request, and the threads meet in the endpoints' runtime state   *)
(* (cooldowns, in-flight marks, the exhausted mark), the router's health   *)
(* and affinity maps, and the process counters.                            *)
(*                                                                         *)
(* A request reads the clock once, on entry; the plan, the skip test and   *)
(* every cooldown it sets are computed from that reading, however long the *)
(* upstream takes.  An attempt is split where the thread waits (for the    *)
(* upstream, for the retry delay, for the body), between the skip test and *)
(* the first sending, and inside set_cooldown, which loads and stores      *)
(* without a lock.                                                         *)
(*                                                                         *)
(* The order of the candidates is RoutePlan's.                             *)
(***************************************************************************)
EXTENDS RoutePlan, Functions

CONSTANTS
    Requests, Endpoints, Sessions,
    Pins,                   \* the endpoints a model string may pin; {} is no pin
    Kind, Order, Pos, Enabled, OptOut, RulesOf,  \* AccountCfg, per endpoint
    Reported,               \* the quota report of each endpoint but for the mark
    Mode, Idle, Peak,       \* routing policy
    Streams,                \* the requests that ask for a stream
    NoSession,              \* a request without a session key
    Cooldown, AuthCooldown, ServerCooldown,
    QuotaRest,              \* how long a quota error marks a plan exhausted
    SkipAfter, SkipSecs,
    RateRetries, RateDelay, Budget, AffinityTtl,
    RetryOnModelError,
    Statuses,               \* the failures upstreams answer with
    MaxClock                \* bound of the model

(* transport: no answer; auth: 401, 403; rate, quota: 429, by what its     *)
(* text says; slow: 408; server: 500, 502, 503, 504, 529; odd: any other   *)
(* 5xx; payment: 402; model, param: 400, 404, 405, 409, 422, by its text.  *)
AllStatuses == {"transport", "auth", "rate", "quota", "slow", "server", "odd",
                "payment", "model", "param"}

ASSUME ConfigAssumption ==
    /\ IsFiniteSet(Requests) /\ IsFiniteSet(Endpoints)
    /\ NoSession \notin Sessions
    /\ Pins \subseteq SUBSET Endpoints
    /\ Statuses \subseteq AllStatuses
    /\ Streams \subseteq Requests
    /\ RetryOnModelError \in BOOLEAN
    /\ \A n \in {Cooldown, AuthCooldown, ServerCooldown, QuotaRest, SkipAfter,
                 SkipSecs, RateRetries, RateDelay, Budget, AffinityTtl, MaxClock} :
            n \in Nat
    /\ Reported \in [Endpoints -> Reports]
    /\ Order \in [Endpoints -> Int] /\ Pos \in [Endpoints -> Int]
    /\ Enabled \in [Endpoints -> BOOLEAN]

VARIABLES
    clock,      \* util::now_secs()
    ep,         \* per endpoint: AccountRuntime and EndpointHealth
    affinity,   \* per session: AffinityMap, with no endpoint as {}
    statics,    \* the process counters
    req         \* per request: the locals of its thread

vars == <<clock, ep, affinity, statics, req>>

-----------------------------------------------------------------------------
(* State                                                                   *)

EpState == [cooldownUntil : Nat, skipUntil : Nat, streak : Nat,
            exhaustedUntil : Nat, inFlight : Int, served : Nat, failed : Nat]

Binding == [to : SUBSET Endpoints, ts : Nat]

Counters == [proxied : Nat, errors : Nat, retries : Nat]

(* "choose": at the head of the candidate loop; "ready": the endpoint is   *)
(* not skipped and the request is made up for it; "sent": waiting for the  *)
(* upstream; "wait": in the retry delay; "cooling": a failure is recorded  *)
(* and set_cooldown has loaded; "body": a 2xx head arrived, body under way *)
Places == {"idle", "choose", "ready", "sent", "wait", "cooling", "body", "done"}
Busy   == {"sent", "wait", "cooling", "body"}

Answers == {"none", "ok", "cut", "client", "502", "503"}

ReqState == [pc : Places, now : Nat, pin : SUBSET Endpoints,
             session : Sessions \cup {NoSession},
             plan : Seq(Endpoints), idx : Nat, attempts : SUBSET Endpoints,
             sends : [Endpoints -> Nat], tries : Nat,
             status : AllStatuses \cup {"none"}, load : Nat, head : Nat,
             answer : Answers]

Idle0 == [pc |-> "idle", now |-> 0, pin |-> {}, session |-> NoSession,
          plan |-> <<>>, idx |-> 1, attempts |-> {},
          sends |-> [e \in Endpoints |-> 0], tries |-> 0,
          status |-> "none", load |-> 0, head |-> 0, answer |-> "none"]

Init ==
    /\ clock = 0
    /\ ep = [e \in Endpoints |->
                [cooldownUntil |-> 0, skipUntil |-> 0, streak |-> 0,
                 exhaustedUntil |-> 0, inFlight |-> 0, served |-> 0, failed |-> 0]]
    /\ affinity = [s \in Sessions |-> [to |-> {}, ts |-> 0]]
    /\ statics = [proxied |-> 0, errors |-> 0, retries |-> 0]
    /\ req = [r \in Requests |-> Idle0]

Cur(r) == req[r].plan[req[r].idx]

-----------------------------------------------------------------------------
(* Planning                                                                *)

BoundTo(session) ==
    IF /\ session # NoSession
       /\ AffinityTtl > 0
       /\ clock - affinity[session].ts <= AffinityTtl
    THEN affinity[session].to ELSE {}

Situation(pin, session) ==
    [mode |-> Mode, idle |-> Idle, peak |-> Peak,
     usable |-> IF pin = {} THEN Endpoints ELSE pin,
     forced |-> pin # {},
     kind |-> Kind, order |-> Order, pos |-> Pos,
     enabled |-> Enabled, optOut |-> OptOut, rules |-> RulesOf,
     class   |-> [e \in Endpoints |-> ClassifyPlan(
                    [Reported[e] EXCEPT !.exhausted = @ \/ clock < ep[e].exhaustedUntil])],
     cooling |-> {e \in Endpoints : ep[e].cooldownUntil > clock},
     skipped |-> {e \in Endpoints : ep[e].skipUntil > clock},
     bound   |-> BoundTo(session)]

(* proxy() from the clock reading to the candidate list p; nobody to ask   *)
(* is a 503.                                                               *)
Asked(r, pin, session, p) ==
    LET asked == [req[r] EXCEPT !.now = clock, !.pin = pin,
                                !.session = session, !.plan = p]
    IN  IF p = <<>>
        THEN /\ req' = [req EXCEPT ![r] = [asked EXCEPT !.pc = "done", !.answer = "503"]]
             /\ statics' = [statics EXCEPT !.errors = @ + 1]
        ELSE /\ req' = [req EXCEPT ![r] = [asked EXCEPT !.pc = "choose"]]
             /\ UNCHANGED statics

Arrive(r) ==
    /\ req[r].pc = "idle"
    /\ \E pin \in Pins, session \in Sessions \cup {NoSession} :
          \E p \in Orderings(Situation(pin, session)) : Asked(r, pin, session, p)
    /\ UNCHANGED <<clock, ep, affinity>>

-----------------------------------------------------------------------------
(* The candidate loop                                                      *)

OutOfBudget(r) == req[r].idx > 1 /\ clock - req[r].now >= Budget

Exhausted(r) == req[r].idx > Len(req[r].plan) \/ OutOfBudget(r)

(* is_skipped asks with the reading taken when the request arrived.        *)
IsSkipped(r, e) == req[r].pin = {} /\ ep[e].skipUntil > req[r].now

GiveUp(r) ==
    /\ req[r].pc = "choose"
    /\ Exhausted(r)
    /\ req' = [req EXCEPT ![r].pc = "done", ![r].answer = "502"]
    /\ statics' = [statics EXCEPT !.errors = @ + 1]
    /\ UNCHANGED <<clock, ep, affinity>>

(* A mutant: a skipped endpoint leaves no entry in the failure detail.     *)
PassOverSilently(r) ==
    /\ req[r].pc = "choose" /\ ~Exhausted(r) /\ IsSkipped(r, Cur(r))
    /\ req' = [req EXCEPT ![r].idx = @ + 1]
    /\ UNCHANGED <<clock, ep, affinity, statics>>

PassOver(r) ==
    /\ req[r].pc = "choose"
    /\ ~Exhausted(r)
    /\ IsSkipped(r, Cur(r))
    /\ req' = [req EXCEPT ![r].idx = @ + 1,
                          ![r].attempts = @ \cup {Cur(r)}]
    /\ UNCHANGED <<clock, ep, affinity, statics>>

(* What another thread learns of the endpoint from here on comes too late. *)
TurnTo(r) ==
    /\ req[r].pc = "choose"
    /\ ~Exhausted(r)
    /\ ~IsSkipped(r, Cur(r))
    /\ req' = [req EXCEPT ![r].pc = "ready"]
    /\ UNCHANGED <<clock, ep, affinity, statics>>

(* One attempt goes out; the in-flight guard is taken before the first and *)
(* dropped when the loop leaves the endpoint.                              *)
Sent(q, e) == [q EXCEPT !.pc = "sent", !.sends[e] = @ + 1]

Held(h)     == [h EXCEPT !.inFlight = @ + 1]
Released(h) == [h EXCEPT !.inFlight = @ - 1]

Send(r) ==
    /\ req[r].pc = "ready"
    /\ req' = [req EXCEPT ![r] = [Sent(@, Cur(r)) EXCEPT !.tries = 0]]
    /\ ep' = [ep EXCEPT ![Cur(r)] = Held(@)]
    /\ UNCHANGED <<clock, affinity, statics>>

-----------------------------------------------------------------------------
(* A failed attempt                                                        *)

Verdict(status) ==
    IF \/ status \in {"transport", "auth", "rate", "quota", "slow", "server"}
       \/ status = "model" /\ RetryOnModelError
    THEN "retry" ELSE "client"

CooldownFor(status) ==
    IF status = "auth" THEN AuthCooldown
    ELSE IF status \in {"server", "odd"} THEN ServerCooldown
    ELSE IF status \in {"rate", "quota", "transport"} THEN Cooldown
    ELSE Cooldown \div 2

(* The loop goes on to the next candidate.                                 *)
NextCandidate(q, e) ==
    [q EXCEPT !.pc = "choose", !.idx = @ + 1, !.attempts = @ \cup {e},
              !.status = "none", !.load = 0]

(* AccountRuntime::record_error                                            *)
Failed(h) == [h EXCEPT !.failed = @ + 1]

(* A mutant: one retry too many.                                           *)
RetriesOnce(r, status) == status = "rate" /\ req[r].tries <= RateRetries

RetriesHere(r, status) == status = "rate" /\ req[r].tries < RateRetries

(* A mutant: moving on for want of time leaks the in-flight mark.          *)
RateLimitedLeaks(r) ==
    /\ req[r].pc = "sent"
    /\ "rate" \in Statuses /\ RetriesHere(r, "rate")
    /\ statics' = [statics EXCEPT !.retries = @ + 1]
    /\ ep' = [ep EXCEPT ![Cur(r)] = Failed(@)]
    /\ req' = [req EXCEPT ![r] =
                  IF clock - req[r].now + RateDelay >= Budget
                  THEN NextCandidate(@, Cur(r))
                  ELSE [@ EXCEPT !.pc = "wait", !.tries = @ + 1,
                                 !.attempts = @ \cup {Cur(r)}]]
    /\ UNCHANGED <<clock, affinity>>

(* A transient rate limit is retried here, unless the wait would overrun   *)
(* the budget: then the loop moves on with nothing cooled down.            *)
RateLimited(r) ==
    /\ req[r].pc = "sent"
    /\ "rate" \in Statuses /\ RetriesHere(r, "rate")
    /\ statics' = [statics EXCEPT !.retries = @ + 1]
    /\ IF clock - req[r].now + RateDelay >= Budget
       THEN /\ req' = [req EXCEPT ![r] = NextCandidate(@, Cur(r))]
            /\ ep' = [ep EXCEPT ![Cur(r)] = Released(Failed(@))]
       ELSE /\ req' = [req EXCEPT ![r].pc = "wait", ![r].tries = @ + 1,
                                  ![r].attempts = @ \cup {Cur(r)}]
            /\ ep' = [ep EXCEPT ![Cur(r)] = Failed(@)]
    /\ UNCHANGED <<clock, affinity>>

(* A mutant: the retry is counted when it is decided and when it is sent.  *)
ResendCounts(r) ==
    /\ req[r].pc = "wait"
    /\ req' = [req EXCEPT ![r] = Sent(@, Cur(r))]
    /\ statics' = [statics EXCEPT !.retries = @ + 1]
    /\ UNCHANGED <<clock, ep, affinity>>

(* A mutant: after the wait the budget is asked again, and nothing is done *)
(* when it is spent.                                                       *)
ResendInTime(r) ==
    /\ req[r].pc = "wait"
    /\ clock - req[r].now + RateDelay < Budget
    /\ req' = [req EXCEPT ![r] = Sent(@, Cur(r))]
    /\ UNCHANGED <<clock, ep, affinity, statics>>

Resend(r) ==
    /\ req[r].pc = "wait"
    /\ req' = [req EXCEPT ![r] = Sent(@, Cur(r))]
    /\ UNCHANGED <<clock, ep, affinity, statics>>

(* record_error, and the load half of set_cooldown                         *)
Fail(r, status) ==
    /\ req[r].pc = "sent"
    /\ ~RetriesHere(r, status)
    /\ req' = [req EXCEPT ![r].pc = "cooling", ![r].status = status,
                          ![r].load = ep[Cur(r)].cooldownUntil]
    /\ ep' = [ep EXCEPT ![Cur(r)] = Failed(@)]
    /\ UNCHANGED <<clock, affinity, statics>>

(* A mutant: the skip window is counted backwards.                         *)
RecordFailureBackwards(h, now) ==
    [h EXCEPT !.streak = @ + 1,
              !.skipUntil = IF SkipAfter > 0 /\ h.streak + 1 >= SkipAfter /\ now >= @
                            THEN now - SkipSecs ELSE @]

(* A mutant: every failure of a long enough streak sets the window anew.   *)
RecordFailureAnew(h, now) ==
    LET streak == h.streak + 1
    IN  [h EXCEPT !.streak = streak,
                  !.skipUntil = IF SkipAfter > 0 /\ streak >= SkipAfter THEN now + SkipSecs ELSE @]

(* HealthMap::record_failure: the streak, and a skip window unless one is  *)
(* open as the request's clock reading sees it.                            *)
RecordFailure(h, now) ==
    LET streak == h.streak + 1
    IN  [h EXCEPT !.streak = streak,
                  !.skipUntil = IF SkipAfter > 0 /\ streak >= SkipAfter /\ now >= @
                                THEN now + SkipSecs ELSE @]

(* The store half of set_cooldown and mark_exhausted.                      *)
CoolDown(h, r) ==
    LET until == req[r].now + CooldownFor(req[r].status)
    IN  [h EXCEPT !.cooldownUntil = IF until > req[r].load THEN until ELSE @,
                  !.exhaustedUntil = IF req[r].status = "quota" /\ Kind[Cur(r)] = "plans"
                                     THEN req[r].now + QuotaRest ELSE @]

(* The rest of the failure: try the next candidate, or hand the client an  *)
(* error that is about its request and not about the endpoint.             *)
Settle(r) ==
    /\ req[r].pc = "cooling"
    /\ IF Verdict(req[r].status) = "retry"
       THEN /\ ep' = [ep EXCEPT ![Cur(r)] =
                          Released(RecordFailure(CoolDown(@, r), req[r].now))]
            /\ req' = [req EXCEPT ![r] = NextCandidate(@, Cur(r))]
            /\ statics' = [statics EXCEPT !.retries = @ + 1]
       ELSE /\ ep' = [ep EXCEPT ![Cur(r)] = Released(CoolDown(@, r))]
            /\ req' = [req EXCEPT ![r].pc = "done", ![r].answer = "client",
                                  ![r].attempts = @ \cup {Cur(r)}]
            /\ statics' = [statics EXCEPT !.errors = @ + 1]
    /\ UNCHANGED <<clock, affinity>>

-----------------------------------------------------------------------------
(* A 2xx answer                                                            *)

(* The head of a stream is on the wire before its body is read; a whole    *)
(* response is read first.                                                 *)
Accept(r) ==
    /\ req[r].pc = "sent"
    /\ req' = [req EXCEPT ![r].pc = "body", ![r].head = clock,
                          ![r].answer = IF r \in Streams THEN "ok" ELSE @]
    /\ UNCHANGED <<clock, ep, affinity, statics>>

(* A mutant: a success ends the streak and leaves the skip window open.    *)
ServedKeepsSkip(h) == [h EXCEPT !.streak = 0, !.served = @ + 1]

(* AccountRuntime::record_success and HealthMap::record_success            *)
Served(h) == [h EXCEPT !.streak = 0, !.skipUntil = 0, !.served = @ + 1]

(* AffinityMap::put: the last to end wins, with the stamp of its head.     *)
Bound(r) == [to |-> {Cur(r)}, ts |-> req[r].head]

(* The body ends, or breaks off upstream, which is told apart nowhere:     *)
(* record_success, the health and affinity maps, the counters.             *)
Deliver(r) ==
    /\ req[r].pc = "body"
    /\ ep' = [ep EXCEPT ![Cur(r)] = Released(Served(@))]
    /\ affinity' = IF req[r].session = NoSession THEN affinity
                   ELSE [affinity EXCEPT ![req[r].session] = Bound(r)]
    /\ statics' = [statics EXCEPT !.proxied = @ + 1]
    /\ req' = [req EXCEPT ![r].pc = "done", ![r].answer = "ok"]
    /\ UNCHANGED clock

(* Mutants: a cut delivery is not counted; it is tried elsewhere.          *)
ClientGoneUncounted(r) ==
    /\ req[r].pc = "body"
    /\ ep' = [ep EXCEPT ![Cur(r)] = Released(@)]
    /\ req' = [req EXCEPT ![r].pc = "done",
                          ![r].answer = IF @ = "none" THEN "cut" ELSE @]
    /\ UNCHANGED <<clock, affinity, statics>>

ClientGoneRetries(r) ==
    /\ req[r].pc = "body"
    /\ ep' = [ep EXCEPT ![Cur(r)] = Released(@)]
    /\ req' = [req EXCEPT ![r] = NextCandidate(@, Cur(r))]
    /\ UNCHANGED <<clock, affinity, statics>>

(* The client went away while it was written to: deliver_success returns   *)
(* early, nothing is recorded, and the request counts as proxied.          *)
ClientGone(r) ==
    /\ req[r].pc = "body"
    /\ ep' = [ep EXCEPT ![Cur(r)] = Released(@)]
    /\ statics' = [statics EXCEPT !.proxied = @ + 1]
    /\ req' = [req EXCEPT ![r].pc = "done",
                          ![r].answer = IF @ = "none" THEN "cut" ELSE @]
    /\ UNCHANGED <<clock, affinity>>

Tick ==
    /\ clock < MaxClock
    /\ clock' = clock + 1
    /\ UNCHANGED <<ep, affinity, statics, req>>

-----------------------------------------------------------------------------
Upstream(r) == Accept(r) \/ RateLimited(r) \/ \E status \in Statuses : Fail(r, status)

Body(r) == Deliver(r) \/ ClientGone(r)

Thread(r) == GiveUp(r) \/ PassOver(r) \/ TurnTo(r) \/ Send(r) \/ Resend(r) \/ Settle(r)

Next == Tick \/ \E r \in Requests : Arrive(r) \/ Thread(r) \/ Upstream(r) \/ Body(r)

Spec == Init /\ [][Next]_vars

(* The thread runs; the socket timeouts of the upstream agent and of the   *)
(* client connection end every silence.  An upstream that never stops      *)
(* sending a body is left out: no timeout of the code would end it.        *)
Fairness == \A r \in Requests : WF_vars(Thread(r)) /\ WF_vars(Upstream(r)) /\ WF_vars(Body(r))

FairSpec == Spec /\ Fairness
-----------------------------------------------------------------------------
(* Properties                                                              *)

TypeOK ==
    /\ clock \in Nat
    /\ ep \in [Endpoints -> EpState]
    /\ affinity \in [Sessions -> Binding]
    /\ statics \in Counters
    /\ req \in [Requests -> ReqState]

Holding(e) == {r \in Requests : req[r].pc \in Busy /\ Cur(r) = e}

Finished == {r \in Requests : req[r].pc = "done"}

(* The in-flight mark of an endpoint is the number of attempts that are    *)
(* there now, whichever way the others ended (InFlightGuard, state.rs).    *)
InFlightExact == \A e \in Endpoints : ep[e].inFlight = Cardinality(Holding(e))

(* Every finished request was counted once, as proxied or as an error, and *)
(* no other was (Statics, proxy.rs).                                       *)
CountedOnce == statics.proxied + statics.errors = Cardinality(Finished)

(* Every failure an endpoint's statistics show was followed by a retry, or *)
(* answered to the client, or is being settled.                            *)
FailuresAccounted ==
    SumFunction([e \in Endpoints |-> ep[e].failed])
        = statics.retries + Cardinality({r \in Requests :
              req[r].answer = "client" \/ req[r].pc = "cooling"})

(* A request sends to an endpoint only as often as rate_limit_retries      *)
(* allows, whatever it met before, and to none but the one it pins.        *)
SendsAllowed ==
    \A r \in Requests, e \in Endpoints :
        req[r].sends[e] > 0 =>
            /\ req[r].sends[e] <= 1 + RateRetries
            /\ req[r].pin # {} => e \in req[r].pin

(* "502 with the per-endpoint failure detail": when every candidate has    *)
(* failed, each of them has an entry in the detail, and at any time only   *)
(* candidates already reached have one.                                    *)
AttemptsExplained ==
    \A r \in Requests :
        LET reached(n) == {req[r].plan[i] : i \in 1..n}
        IN  req[r].pc \notin {"idle"} /\ req[r].answer # "503" =>
              /\ reached(req[r].idx - 1) \subseteq req[r].attempts
              /\ req[r].idx <= Len(req[r].plan) =>
                    req[r].attempts \subseteq reached(req[r].idx)

(* A skip window is open only on an endpoint with a streak of at least     *)
(* skip_after_failures, and neither it nor a cooldown reaches further than *)
(* one window from now: nothing puts an endpoint away for good.            *)
PutAwayForAWhile ==
    \A e \in Endpoints :
        /\ ep[e].skipUntil > 0 => SkipAfter > 0 /\ ep[e].streak >= SkipAfter
        /\ ep[e].skipUntil <= clock + SkipSecs
        /\ \E c \in {Cooldown, AuthCooldown, ServerCooldown} : ep[e].cooldownUntil <= clock + c
        /\ ep[e].exhaustedUntil <= clock + QuotaRest

(* "Skip an endpoint entirely after N consecutive failures, for this long" *)
(* (docs/configuration.md:337): once it is open, only an answer ends a     *)
(* window early.  Requests that came before and fail after it was opened   *)
(* count from an older reading of the clock, and do not shorten it.        *)
SkipWindowLasts ==
    [][\A e \in Endpoints : ep'[e].skipUntil < ep[e].skipUntil =>
          ep'[e].served = ep[e].served + 1]_vars

(* "Once the head is on the wire the response is committed"                *)
(* (docs/routing.md): an answered request is not answered again and sends  *)
(* to no further endpoint.                                                 *)
CommittedIsFinal ==
    [][\A r \in Requests : req[r].answer # "none" =>
          /\ req'[r].answer = req[r].answer
          /\ req'[r].sends = req[r].sends]_vars

(* Every request is answered: the candidate loop, the retries and the      *)
(* delays all end.                                                         *)
EveryRequestEnds == \A r \in Requests : req[r].pc # "idle" ~> req[r].pc = "done"

-----------------------------------------------------------------------------
(* What the documentation says and the code does not do.                   *)

(* "401 / 403: cool the endpoint for auth_cooldown_secs" (docs/routing.md):*)
(* the rest an endpoint was given is not cut short by a lesser failure.    *)
CooldownNotShortened ==
    [][\A e \in Endpoints : ep'[e].cooldownUntil >= ep[e].cooldownUntil]_vars
=============================================================================
