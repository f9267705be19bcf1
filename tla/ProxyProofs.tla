---------------------------- MODULE ProxyProofs ----------------------------
(***************************************************************************)
(* Theorems about Proxy, for every number of requests and endpoints, every *)
(* configuration and every clock: the types, the way of a request through  *)
(* its candidates, and what is counted of it.                              *)
(***************************************************************************)
EXTENDS Proxy, FoldFacts, SequenceTheorems

-----------------------------------------------------------------------------
(* The inductive invariant: the types, and the fact that a request that    *)
(* has turned to an endpoint stands at one of its candidates.              *)

Turned == Busy \cup {"ready"}

PlanIndexed ==
    \A r \in Requests :
        /\ req[r].idx >= 1
        /\ req[r].pc \in Turned => req[r].idx <= Len(req[r].plan)

(* Only a finished request carries an answer, or one whose head is out:    *)
(* then it is the answer of a delivery.                                    *)
AnswerPlaced ==
    \A r \in Requests : req[r].answer # "none" =>
        req[r].pc = "done" \/ (req[r].pc = "body" /\ req[r].answer = "ok")

(* The settings are numbers.                                               *)
LEMMA ConstantTypes ==
    /\ Cooldown \in Nat /\ AuthCooldown \in Nat /\ ServerCooldown \in Nat
    /\ QuotaRest \in Nat /\ SkipAfter \in Nat /\ SkipSecs \in Nat
    /\ RateRetries \in Nat /\ Budget \in Nat
BY ConfigAssumption

(* A cooldown is a number of seconds.                                      *)
LEMMA CooldownForType ==
    ASSUME NEW status PROVE CooldownFor(status) \in Nat
BY ConstantTypes DEF CooldownFor

(* A candidate list the planner may return is a sequence of endpoints.     *)
LEMMA OrderingsType ==
    ASSUME TypeOK, NEW pin \in SUBSET Endpoints, NEW session,
           NEW p \in Orderings(Situation(pin, session))
    PROVE  p \in Seq(Endpoints)
<1> DEFINE C == Candidates(Situation(pin, session))
<1>1. C \subseteq Endpoints
  BY DEF Candidates, Situation
<1>2. IsFiniteSet(C) /\ Cardinality(C) \in Nat
  BY <1>1, ConfigAssumption, FS_Subset, FS_CardinalityType
<1>3. p \in [1..Cardinality(C) -> C]
  BY DEF Orderings
<1>4. p \in Seq(C)
  BY <1>2, <1>3
<1> QED
  BY <1>1, <1>4, SeqMonotonic

(* The candidate at hand is an endpoint.                                   *)
LEMMA CurIsEndpoint ==
    ASSUME TypeOK, PlanIndexed, NEW r \in Requests,
           req[r].idx <= Len(req[r].plan)
    PROVE  Cur(r) \in Endpoints
<1>1. /\ req[r].plan \in Seq(Endpoints) /\ req[r].idx \in Nat
      /\ req[r].idx >= 1
  BY DEF TypeOK, ReqState, PlanIndexed
<1>2. Len(req[r].plan) \in Nat
  BY <1>1, LenProperties
<1>3. req[r].idx \in 1..Len(req[r].plan)
  BY <1>1, <1>2
<1> QED
  BY <1>1, <1>3, ElementOfSeq DEF Cur

-----------------------------------------------------------------------------
(* Preservation, one lemma per group of actions.                           *)

IndInv == TypeOK /\ PlanIndexed /\ AnswerPlaced

(* IndInv holds at the start.                                              *)
LEMMA InitIndInv == Init => IndInv
<1> SUFFICES ASSUME Init PROVE IndInv
  OBVIOUS
<1>1. Idle0 \in ReqState
  BY DEF Idle0, ReqState, Places, Answers
<1>2. TypeOK
  BY <1>1 DEF Init, TypeOK, EpState, Binding, Counters
<1>3. PlanIndexed /\ AnswerPlaced
  BY DEF Init, PlanIndexed, AnswerPlaced, Idle0, Turned, Busy
<1> QED
  BY <1>2, <1>3 DEF IndInv

(* Where the thread works on its current candidate, that is an endpoint.   *)
LEMMA CurType ==
    ASSUME IndInv, NEW r \in Requests,
           req[r].pc \in Turned \/ (req[r].pc = "choose" /\ ~Exhausted(r))
    PROVE  Cur(r) \in Endpoints /\ req[r].idx <= Len(req[r].plan)
<1>1. /\ req[r].plan \in Seq(Endpoints) /\ req[r].idx \in Nat
      /\ Len(req[r].plan) \in Nat
  BY LenProperties DEF IndInv, TypeOK, ReqState
<1>2. req[r].idx <= Len(req[r].plan)
  BY <1>1 DEF IndInv, PlanIndexed, Exhausted
<1> QED
  BY <1>2, CurIsEndpoint DEF IndInv

(* A step that only changes the record of one request.                     *)
LEMMA ReqIndInv ==
    ASSUME IndInv, NEW r \in Requests, NEW q \in ReqState,
           req' = [req EXCEPT ![r] = q],
           q.idx >= 1,
           q.pc \in Turned => q.idx <= Len(q.plan),
           q.answer # "none" => q.pc = "done" \/ (q.pc = "body" /\ q.answer = "ok")
    PROVE  req' \in [Requests -> ReqState] /\ PlanIndexed' /\ AnswerPlaced'
BY DEF IndInv, TypeOK, PlanIndexed, AnswerPlaced

(* IndInv is kept by Arrive.                                               *)
LEMMA ArriveIndInv ==
    ASSUME IndInv, NEW r \in Requests, Arrive(r) PROVE IndInv'
<1>1. PICK pin \in Pins, session \in Sessions \cup {NoSession} :
        \E p \in Orderings(Situation(pin, session)) : Asked(r, pin, session, p)
  BY DEF Arrive
<1>2. PICK p \in Orderings(Situation(pin, session)) : Asked(r, pin, session, p)
  BY <1>1
<1>3. pin \in SUBSET Endpoints
  BY ConfigAssumption
<1>4. p \in Seq(Endpoints)
  BY <1>3, OrderingsType DEF IndInv
<1> DEFINE asked == [req[r] EXCEPT !.now = clock, !.pin = pin, !.session = session,
                               !.plan = p]
           q == IF p = <<>> THEN [asked EXCEPT !.pc = "done", !.answer = "503"]
                            ELSE [asked EXCEPT !.pc = "choose"]
<1>5. /\ req[r] \in ReqState /\ req[r].answer = "none"
      /\ req[r].idx >= 1 /\ clock \in Nat
  BY DEF Arrive, IndInv, TypeOK, PlanIndexed, AnswerPlaced
<1>6. req' = [req EXCEPT ![r] = q]
  BY <1>2 DEF Asked
<1>7. asked \in ReqState /\ asked.answer = "none" /\ asked.idx = req[r].idx
  BY <1>1, <1>3, <1>4, <1>5 DEF ReqState
<1>8. q \in ReqState /\ q.idx = asked.idx
  BY <1>7 DEF ReqState, Places, Answers
<1>9. q.pc \notin Turned /\ (q.answer # "none" => q.pc = "done")
  BY <1>7 DEF ReqState, Turned, Busy
<1>10. statics' \in Counters /\ UNCHANGED <<clock, ep, affinity>>
  BY <1>2 DEF Asked, Arrive, IndInv, TypeOK, Counters
<1> HIDE DEF q, asked
<1> QED
  BY <1>5, <1>6, <1>7, <1>8, <1>9, <1>10, ReqIndInv DEF IndInv, TypeOK

(* What the actions make of one endpoint's record is such a record.        *)
LEMMA EpUpdates ==
    ASSUME NEW h \in EpState
    PROVE  Held(h) \in EpState /\ Released(h) \in EpState
           /\ Failed(h) \in EpState /\ Served(h) \in EpState
<1>1. /\ h.inFlight \in Int /\ h.failed \in Nat /\ h.served \in Nat
      /\ h.inFlight + 1 \in Int /\ h.inFlight - 1 \in Int
      /\ h.failed + 1 \in Nat /\ h.served + 1 \in Nat
  BY DEF EpState
<1> QED
  BY <1>1 DEF EpState, Held, Released, Failed, Served

(* A request that is sent is a request.                                    *)
LEMMA SentType ==
    ASSUME NEW q \in ReqState, NEW e \in Endpoints
    PROVE  /\ Sent(q, e) \in ReqState
           /\ [Sent(q, e) EXCEPT !.tries = 0] \in ReqState
<1> DEFINE f == [q.sends EXCEPT ![e] = @ + 1]
<1>1. f \in [Endpoints -> Nat]
  BY DEF ReqState
<1> HIDE DEF f
<1>2. [q EXCEPT !.pc = "sent", !.sends = f] \in ReqState
  BY <1>1 DEF ReqState, Places
<1>3. Sent(q, e) \in ReqState
  BY <1>2 DEF f, Sent
<1> QED
  BY <1>3 DEF ReqState

(* IndInv is kept by the steps of the candidate loop.                      *)
LEMMA LoopIndInv ==
    ASSUME IndInv, NEW r \in Requests, GiveUp(r) \/ PassOver(r) \/ TurnTo(r) \/ Send(r) \/ Resend(r)
    PROVE  IndInv'
<1> DEFINE q == req'[r]
<1>0. /\ req[r] \in ReqState /\ req[r].idx \in Nat /\ req[r].idx >= 1
      /\ req[r].attempts \in SUBSET Endpoints /\ req[r].sends \in [Endpoints -> Nat]
  BY DEF IndInv, TypeOK, PlanIndexed, ReqState
<1>1. CASE GiveUp(r)
  <2>1. /\ q = [req[r] EXCEPT !.pc = "done", !.answer = "502"]
        /\ req' = [req EXCEPT ![r] = q]
    BY <1>1 DEF GiveUp, IndInv, TypeOK
  <2>2. q \in ReqState
    BY <1>0, <2>1 DEF ReqState, Places, Answers
  <2>3. q.idx >= 1 /\ q.pc = "done"
    BY <1>0, <2>1 DEF ReqState
  <2>4. statics' \in Counters /\ UNCHANGED <<clock, ep, affinity>>
    BY <1>1 DEF GiveUp, IndInv, TypeOK, Counters
  <2> QED
    BY <2>1, <2>2, <2>3, <2>4, ReqIndInv DEF IndInv, TypeOK, Turned, Busy
<1>2. CASE PassOver(r)
  <2>1. Cur(r) \in Endpoints /\ req[r].pc = "choose" /\ req[r].answer = "none"
    BY <1>2, CurType DEF PassOver, IndInv, AnswerPlaced
  <2>2. /\ q = [req[r] EXCEPT !.idx = @ + 1, !.attempts = @ \cup {Cur(r)}]
        /\ req' = [req EXCEPT ![r] = q]
    BY <1>2 DEF PassOver, IndInv, TypeOK
  <2>3. q \in ReqState
    <3>1. req[r].idx + 1 \in Nat /\ req[r].attempts \cup {Cur(r)} \in SUBSET Endpoints
      BY <1>0, <2>1
    <3> QED
      BY <1>0, <2>2, <3>1 DEF ReqState
  <2>4. q.idx >= 1 /\ q.pc = "choose" /\ q.answer = "none"
    BY <1>0, <2>1, <2>2 DEF ReqState
  <2>5. UNCHANGED <<clock, ep, affinity, statics>>
    BY <1>2 DEF PassOver
  <2> QED
    BY <2>2, <2>3, <2>4, <2>5, ReqIndInv DEF IndInv, TypeOK, Turned, Busy
<1>3. CASE Send(r)
  <2> DEFINE p == [Sent(req[r], Cur(r)) EXCEPT !.tries = 0]
  <2>1. /\ Cur(r) \in Endpoints /\ req[r].idx <= Len(req[r].plan)
        /\ req[r].answer = "none"
    BY <1>3, CurType DEF Send, IndInv, AnswerPlaced, Turned
  <2>2. p \in ReqState
    BY <1>0, <2>1, SentType
  <2>3. p.answer = "none" /\ p.idx >= 1 /\ p.idx <= Len(p.plan)
    BY <1>0, <2>1 DEF ReqState, Sent
  <2>4. /\ req' = [req EXCEPT ![r] = p]
        /\ ep' = [ep EXCEPT ![Cur(r)] = Held(@)] /\ UNCHANGED <<clock, affinity, statics>>
    BY <1>3 DEF Send
  <2>5. ep' \in [Endpoints -> EpState]
    BY <2>1, <2>4, EpUpdates DEF IndInv, TypeOK
  <2> HIDE DEF p
  <2> QED
    BY <2>2, <2>3, <2>4, <2>5, ReqIndInv DEF IndInv, TypeOK
<1>4. CASE Resend(r)
  <2> DEFINE p == Sent(req[r], Cur(r))
  <2>1. /\ Cur(r) \in Endpoints /\ req[r].idx <= Len(req[r].plan)
        /\ req[r].answer = "none"
    BY <1>4, CurType DEF Resend, IndInv, AnswerPlaced, Turned, Busy
  <2>2. p \in ReqState
    BY <1>0, <2>1, SentType
  <2>3. p.answer = "none" /\ p.idx >= 1 /\ p.idx <= Len(p.plan)
    BY <1>0, <2>1 DEF ReqState, Sent
  <2>4. req' = [req EXCEPT ![r] = p] /\ UNCHANGED <<clock, ep, affinity, statics>>
    BY <1>4 DEF Resend
  <2> HIDE DEF p
  <2> QED
    BY <2>2, <2>3, <2>4, ReqIndInv DEF IndInv, TypeOK
<1>5. CASE TurnTo(r)
  <2> DEFINE p == [req[r] EXCEPT !.pc = "ready"]
  <2>1. req[r].idx <= Len(req[r].plan) /\ req[r].answer = "none"
    BY <1>5, CurType DEF TurnTo, IndInv, AnswerPlaced
  <2>2. p \in ReqState
    BY <1>0 DEF ReqState, Places
  <2>3. p.answer = "none" /\ p.idx >= 1 /\ p.idx <= Len(p.plan)
    BY <1>0, <2>1 DEF ReqState
  <2>4. req' = [req EXCEPT ![r] = p] /\ UNCHANGED <<clock, ep, affinity, statics>>
    BY <1>5 DEF TurnTo
  <2> HIDE DEF p
  <2> QED
    BY <2>2, <2>3, <2>4, ReqIndInv DEF IndInv, TypeOK
<1> QED
  BY <1>1, <1>2, <1>3, <1>4, <1>5

(* The failure path.                                                       *)
LEMMA NextCandidateType ==
    ASSUME NEW q \in ReqState, NEW e \in Endpoints, q.idx >= 1
    PROVE  /\ NextCandidate(q, e) \in ReqState /\ NextCandidate(q, e).idx >= 1
           /\ NextCandidate(q, e).pc = "choose"
           /\ NextCandidate(q, e).answer = q.answer
<1> DEFINE i == q.idx + 1
           a == q.attempts \cup {e}
<1>1. i \in Nat /\ i >= 1 /\ a \in SUBSET Endpoints
  BY DEF ReqState
<1> DEFINE m == [q EXCEPT !.pc = "choose", !.idx = i, !.attempts = a]
<1>2. NextCandidate(q, e) = [m EXCEPT !.status = "none", !.load = 0]
  BY DEF NextCandidate
<1> HIDE DEF i, a
<1>3. m \in ReqState /\ m.pc = "choose" /\ m.idx = i /\ m.answer = q.answer
  BY <1>1 DEF ReqState, Places
<1> HIDE DEF m
<1> DEFINE n == [m EXCEPT !.status = "none", !.load = 0]
<1>4. n \in ReqState /\ n.idx >= 1 /\ n.pc = "choose" /\ n.answer = q.answer
  BY <1>1, <1>3 DEF ReqState
<1> HIDE DEF n
<1> QED
  BY <1>2, <1>4 DEF n

(* An endpoint that failed is an endpoint.                                 *)
LEMMA RecordFailureType ==
    ASSUME NEW h \in EpState, NEW now \in Nat PROVE RecordFailure(h, now) \in EpState
<1>1. h.streak + 1 \in Nat /\ h.skipUntil \in Nat /\ now + SkipSecs \in Nat
  BY ConstantTypes DEF EpState
<1> QED
  BY <1>1 DEF RecordFailure, EpState

(* An endpoint that is put away is an endpoint.                            *)
LEMMA CoolDownType ==
    ASSUME TypeOK, NEW h \in EpState, NEW r \in Requests PROVE CoolDown(h, r) \in EpState
<1> DEFINE until == req[r].now + CooldownFor(req[r].status)
           rest  == req[r].now + QuotaRest
<1>1. req[r].now \in Nat
  BY DEF TypeOK, ReqState
<1>2. CooldownFor(req[r].status) \in Nat
  BY CooldownForType
<1>3. until \in Nat /\ rest \in Nat
  BY <1>1, <1>2, ConstantTypes
<1> HIDE DEF until, rest
<1>4. CoolDown(h, r) =
        [h EXCEPT !.cooldownUntil = IF until > req[r].load THEN until ELSE @,
                  !.exhaustedUntil = IF req[r].status = "quota" /\ Kind[Cur(r)] = "plans"
                                     THEN rest ELSE @]
  BY DEF CoolDown, until, rest
<1> QED
  BY <1>3, <1>4 DEF EpState

(* IndInv is kept by the steps that handle a failure.                      *)
LEMMA FailureIndInv ==
    ASSUME IndInv, NEW r \in Requests,
           RateLimited(r) \/ (\E status \in Statuses : Fail(r, status)) \/ Settle(r)
    PROVE  IndInv'
<1>1. /\ Cur(r) \in Endpoints /\ req[r].idx <= Len(req[r].plan)
      /\ req[r].answer = "none" /\ req[r].pc \in {"sent", "cooling"}
  BY CurType DEF IndInv, AnswerPlaced, Turned, Busy, RateLimited, Fail, Settle
<1>2. /\ req[r] \in ReqState /\ req[r].now \in Nat
      /\ req[r].idx >= 1 /\ ep[Cur(r)] \in EpState
      /\ req[r].attempts \in SUBSET Endpoints /\ req[r].tries \in Nat
      /\ ep[Cur(r)].cooldownUntil \in Nat
  BY <1>1 DEF IndInv, TypeOK, PlanIndexed, ReqState, EpState
<1>3. /\ statics \in Counters
      /\ [statics EXCEPT !.retries = @ + 1] \in Counters
      /\ [statics EXCEPT !.errors = @ + 1] \in Counters
  BY DEF IndInv, TypeOK, Counters
<1>4. CASE RateLimited(r)
  <2> DEFINE p == [req[r] EXCEPT !.pc = "wait", !.tries = @ + 1,
                                 !.attempts = @ \cup {Cur(r)}]
             n == NextCandidate(req[r], Cur(r))
  <2>1. /\ n \in ReqState /\ n.idx >= 1 /\ n.pc = "choose" /\ n.answer = "none"
    BY <1>1, <1>2, NextCandidateType
  <2>2. req[r].attempts \cup {Cur(r)} \in SUBSET Endpoints /\ req[r].tries + 1 \in Nat
    BY <1>1, <1>2
  <2>3. /\ p \in ReqState /\ p.idx >= 1 /\ p.idx <= Len(p.plan) /\ p.answer = "none"
    BY <1>1, <1>2, <2>2 DEF ReqState, Places
  <2>4. /\ \/ req' = [req EXCEPT ![r] = n] /\ ep' = [ep EXCEPT ![Cur(r)] = Released(Failed(@))]
           \/ req' = [req EXCEPT ![r] = p] /\ ep' = [ep EXCEPT ![Cur(r)] = Failed(@)]
        /\ statics' = [statics EXCEPT !.retries = @ + 1] /\ UNCHANGED <<clock, affinity>>
    BY <1>4 DEF RateLimited, IndInv, TypeOK
  <2>5. ep' \in [Endpoints -> EpState]
    BY <1>1, <1>2, <2>4, EpUpdates DEF IndInv, TypeOK
  <2> HIDE DEF p, n
  <2>6. req' \in [Requests -> ReqState] /\ PlanIndexed' /\ AnswerPlaced'
    BY <2>1, <2>3, <2>4, ReqIndInv DEF Turned, Busy
  <2> QED
    BY <1>3, <2>4, <2>5, <2>6 DEF IndInv, TypeOK
<1>5. ASSUME NEW status \in Statuses, Fail(r, status) PROVE IndInv'
  <2> DEFINE p == [req[r] EXCEPT !.pc = "cooling", !.status = status,
                                 !.load = ep[Cur(r)].cooldownUntil]
  <2>1. status \in AllStatuses
    BY ConfigAssumption
  <2>2. /\ p \in ReqState /\ p.idx >= 1 /\ p.idx <= Len(p.plan) /\ p.answer = "none"
    BY <1>1, <1>2, <2>1 DEF ReqState, Places
  <2>3. /\ req' = [req EXCEPT ![r] = p]
        /\ ep' = [ep EXCEPT ![Cur(r)] = Failed(@)] /\ UNCHANGED <<clock, affinity, statics>>
    BY <1>5 DEF Fail, IndInv, TypeOK
  <2>4. ep' \in [Endpoints -> EpState]
    BY <1>1, <1>2, <2>3, EpUpdates DEF IndInv, TypeOK
  <2> HIDE DEF p
  <2> QED
    BY <2>2, <2>3, <2>4, ReqIndInv DEF IndInv, TypeOK
<1>6. CASE Settle(r)
  <2> DEFINE h == CoolDown(ep[Cur(r)], r)
             n == NextCandidate(req[r], Cur(r))
             p == [req[r] EXCEPT !.pc = "done", !.answer = "client",
                                 !.attempts = @ \cup {Cur(r)}]
  <2>1. h \in EpState
    BY <1>2, CoolDownType DEF IndInv
  <2>2. Released(h) \in EpState /\ Released(RecordFailure(h, req[r].now)) \in EpState
    BY <1>2, <2>1, EpUpdates, RecordFailureType
  <2>3. /\ n \in ReqState /\ n.idx >= 1 /\ n.pc = "choose" /\ n.answer = "none"
    BY <1>1, <1>2, NextCandidateType
  <2>4. req[r].attempts \cup {Cur(r)} \in SUBSET Endpoints
    BY <1>1, <1>2
  <2>5. p \in ReqState /\ p.idx >= 1 /\ p.pc = "done"
    BY <1>2, <2>4 DEF ReqState, Places, Answers
  <2>6. \/ /\ req' = [req EXCEPT ![r] = n]
           /\ ep' = [ep EXCEPT ![Cur(r)] = Released(RecordFailure(h, req[r].now))]
           /\ statics' = [statics EXCEPT !.retries = @ + 1]
        \/ /\ req' = [req EXCEPT ![r] = p]
           /\ ep' = [ep EXCEPT ![Cur(r)] = Released(h)]
           /\ statics' = [statics EXCEPT !.errors = @ + 1]
    BY <1>6 DEF Settle, IndInv, TypeOK
  <2> HIDE DEF h, n, p
  <2>7. ep' \in [Endpoints -> EpState] /\ statics' \in Counters
    BY <1>1, <1>3, <2>2, <2>6 DEF IndInv, TypeOK
  <2>8. req' \in [Requests -> ReqState] /\ PlanIndexed' /\ AnswerPlaced'
    BY <2>3, <2>5, <2>6, ReqIndInv DEF Turned, Busy
  <2>9. UNCHANGED <<clock, affinity>>
    BY <1>6 DEF Settle
  <2> QED
    BY <2>7, <2>8, <2>9 DEF IndInv, TypeOK
<1> QED
  BY <1>4, <1>5, <1>6

(* The success path.                                                       *)
LEMMA BodyIndInv ==
    ASSUME IndInv, NEW r \in Requests, Accept(r) \/ Deliver(r) \/ ClientGone(r)
    PROVE  IndInv'
<1>1. Cur(r) \in Endpoints /\ req[r].idx <= Len(req[r].plan)
  BY CurType DEF Turned, Busy, Accept, Deliver, ClientGone
<1>2. /\ req[r] \in ReqState /\ req[r].idx >= 1 /\ req[r].head \in Nat
      /\ req[r].answer \in Answers /\ req[r].session \in Sessions \cup {NoSession}
      /\ ep[Cur(r)] \in EpState /\ clock \in Nat
  BY <1>1 DEF IndInv, TypeOK, PlanIndexed, ReqState
<1>3. /\ statics \in Counters
      /\ [statics EXCEPT !.proxied = @ + 1] \in Counters
  BY DEF IndInv, TypeOK, Counters
<1>4. CASE Accept(r)
  <2> DEFINE p == [req[r] EXCEPT !.pc = "body", !.head = clock,
                                 !.answer = IF r \in Streams THEN "ok" ELSE @]
  <2>1. req[r].answer = "none"
    BY <1>4 DEF Accept, IndInv, AnswerPlaced
  <2>2. /\ p \in ReqState /\ p.idx >= 1 /\ p.idx <= Len(p.plan)
        /\ p.pc = "body" /\ p.answer \in {"none", "ok"}
    BY <1>1, <1>2, <2>1 DEF ReqState, Places, Answers
  <2>3. /\ req' = [req EXCEPT ![r] = p] /\ UNCHANGED <<clock, ep, affinity, statics>>
    BY <1>4 DEF Accept, IndInv, TypeOK
  <2> HIDE DEF p
  <2> QED
    BY <2>2, <2>3, ReqIndInv DEF IndInv, TypeOK
<1>5. CASE Deliver(r)
  <2> DEFINE p == [req[r] EXCEPT !.pc = "done", !.answer = "ok"]
  <2>1. p \in ReqState /\ p.idx >= 1 /\ p.pc = "done"
    BY <1>2 DEF ReqState, Places, Answers
  <2>2. /\ req' = [req EXCEPT ![r] = p]
        /\ ep' = [ep EXCEPT ![Cur(r)] = Released(Served(@))]
        /\ statics' = [statics EXCEPT !.proxied = @ + 1]
        /\ UNCHANGED clock
    BY <1>5 DEF Deliver, IndInv, TypeOK
  <2>3. ep' \in [Endpoints -> EpState]
    BY <1>1, <1>2, <2>2, EpUpdates DEF IndInv, TypeOK
  <2>4. Bound(r) \in Binding
    BY <1>1, <1>2 DEF Bound, Binding
  <2>5. affinity' \in [Sessions -> Binding]
    BY <1>5, <2>4 DEF Deliver, IndInv, TypeOK
  <2> HIDE DEF p
  <2> QED
    BY <1>3, <2>1, <2>2, <2>3, <2>5, ReqIndInv DEF IndInv, TypeOK, Turned, Busy
<1>6. CASE ClientGone(r)
  <2> DEFINE p == [req[r] EXCEPT !.pc = "done",
                                 !.answer = IF @ = "none" THEN "cut" ELSE @]
  <2>1. p \in ReqState /\ p.idx >= 1 /\ p.pc = "done"
    BY <1>2 DEF ReqState, Places, Answers
  <2>2. /\ req' = [req EXCEPT ![r] = p]
        /\ ep' = [ep EXCEPT ![Cur(r)] = Released(@)]
        /\ statics' = [statics EXCEPT !.proxied = @ + 1]
        /\ UNCHANGED <<clock, affinity>>
    BY <1>6 DEF ClientGone, IndInv, TypeOK
  <2>3. ep' \in [Endpoints -> EpState]
    BY <1>1, <1>2, <2>2, EpUpdates DEF IndInv, TypeOK
  <2> HIDE DEF p
  <2> QED
    BY <1>3, <2>1, <2>2, <2>3, ReqIndInv DEF IndInv, TypeOK, Turned, Busy
<1> QED
  BY <1>4, <1>5, <1>6

(* IndInv is kept by the clock and by steps of others.                     *)
LEMMA StutterIndInv ==
    ASSUME IndInv, Tick \/ UNCHANGED vars PROVE IndInv'
<1>1. /\ clock' \in Nat /\ UNCHANGED <<ep, affinity, statics, req>>
  BY DEF IndInv, TypeOK, Tick, vars
<1> QED
  BY <1>1 DEF IndInv, TypeOK, PlanIndexed, AnswerPlaced

(* IndInv is kept by every step.                                           *)
LEMMA NextIndInv == IndInv /\ [Next]_vars => IndInv'
<1> SUFFICES ASSUME IndInv, [Next]_vars PROVE IndInv'
  OBVIOUS
<1>1. CASE Tick \/ UNCHANGED vars
  BY <1>1, StutterIndInv
<1>2. ASSUME NEW r \in Requests, Arrive(r) \/ Thread(r) \/ Upstream(r) \/ Body(r)
      PROVE  IndInv'
  BY <1>2, ArriveIndInv, LoopIndInv, FailureIndInv, BodyIndInv DEF Thread, Upstream, Body
<1> QED
  BY <1>1, <1>2 DEF Next

(* IndInv holds always.                                                    *)
LEMMA Invariance == Spec => []IndInv
BY InitIndInv, NextIndInv, PTL DEF Spec

(* The state of the router keeps its types, whatever the threads do, at    *)
(* any number of requests, endpoints and sessions (AccountRuntime,         *)
(* HealthMap, AffinityMap, Statics and the locals of proxy()).             *)
THEOREM TypeCorrect == Spec => []TypeOK
BY Invariance, PTL DEF IndInv

(* A step of one thread leaves the others' records alone.                  *)
LEMMA OneThread ==
    ASSUME IndInv, NEW r \in Requests, Arrive(r) \/ Thread(r) \/ Upstream(r) \/ Body(r),
           NEW x \in Requests, x # r
    PROVE  req'[x] = req[x]
<1>1. CASE Arrive(r)
  BY <1>1 DEF Arrive, Asked, IndInv, TypeOK
<1>2. CASE Thread(r)
  BY <1>2 DEF Thread, GiveUp, PassOver, TurnTo, Send, Resend, Settle, IndInv, TypeOK
<1>3. CASE Upstream(r)
  BY <1>3 DEF Upstream, Accept, RateLimited, Fail, IndInv, TypeOK
<1>4. CASE Body(r)
  BY <1>4 DEF Body, Deliver, ClientGone, IndInv, TypeOK
<1> QED
  BY <1>1, <1>2, <1>3, <1>4

(* "Once the head is on the wire the response is committed": no step gives *)
(* an answered request another answer, or sends it to another endpoint.    *)
THEOREM Committed == Spec => CommittedIsFinal
<1> DEFINE Final(r) == req[r].answer # "none" =>
              req'[r].answer = req[r].answer /\ req'[r].sends = req[r].sends
<1>1. ASSUME IndInv, NEW x \in Requests,
             Arrive(x) \/ Thread(x) \/ Upstream(x) \/ Body(x),
             NEW r \in Requests
      PROVE  Final(r)
  <2>1. CASE r # x
    BY <1>1, <2>1, OneThread
  <2>2. CASE r = x /\ req[r].answer # "none"
    <3>1. (req[r].pc = "body" /\ req[r].answer = "ok") \/ req[r].pc = "done"
      BY <1>1, <2>2 DEF IndInv, AnswerPlaced
    <3>2. Deliver(r) \/ ClientGone(r)
      BY <1>1, <2>2, <3>1 DEF Arrive, Thread, GiveUp, PassOver, TurnTo, Send, Resend, Settle,
            Upstream, Accept, RateLimited, Fail, Body
    <3>3. req[r].pc = "body"
      BY <3>2 DEF Deliver, ClientGone
    <3> QED
      BY <1>1, <3>1, <3>2, <3>3 DEF Deliver, ClientGone, IndInv, TypeOK, ReqState
  <2> QED
    BY <2>1, <2>2
<1>2. IndInv /\ [Next]_vars =>
        [\A r \in Requests : req[r].answer # "none" =>
              /\ req'[r].answer = req[r].answer
              /\ req'[r].sends = req[r].sends]_vars
  <2> SUFFICES ASSUME IndInv, Next PROVE \A r \in Requests : Final(r)
    BY DEF vars
  <2>1. CASE Tick
    BY <2>1 DEF Tick
  <2> QED
    BY <1>1, <2>1 DEF Next
<1> QED
  BY Invariance, <1>2, PTL DEF Spec, CommittedIsFinal

-----------------------------------------------------------------------------
(* What a request does on its way through its candidates, and what it     *)
(* leaves in the endpoints' health and in the sessions' bindings.          *)

Step(r) == Arrive(r) \/ Thread(r) \/ Upstream(r) \/ Body(r)

-----------------------------------------------------------------------------
(* The turns of a request, field by field: every step of its thread is one *)
(* of these (lemma StepIsTurn).  The argument about a request needs only   *)
(* them, and no longer the actions.                                        *)

Began(r) ==
    /\ req[r].pc = "idle"
    /\ req'[r].now = clock
    /\ req'[r].pin \in Pins
    /\ req'[r].plan \in Orderings(Situation(req'[r].pin, req'[r].session))
    /\ req'[r].idx = req[r].idx /\ req'[r].attempts = req[r].attempts
    /\ req'[r].sends = req[r].sends
    /\ \/ req'[r].pc = "done" /\ req'[r].answer = "503"
       \/ req'[r].pc = "choose" /\ req'[r].answer = "none"

SameTask(r) ==
    /\ req'[r].now = req[r].now /\ req'[r].pin = req[r].pin
    /\ req'[r].session = req[r].session /\ req'[r].plan = req[r].plan

OneMore(f, g, e) ==
    \A x \in Endpoints : f[x] = IF x = e THEN g[x] + 1 ELSE g[x]

(* It turns to the candidate that is next.                                 *)
TurnsTo(r) ==
    /\ req[r].pc = "choose" /\ ~Exhausted(r) /\ req'[r].pc = "ready"
    /\ req'[r].idx = req[r].idx /\ req'[r].attempts = req[r].attempts
    /\ req'[r].sends = req[r].sends /\ req'[r].answer = req[r].answer

SentNow(r) ==
    /\ \/ req[r].pc = "ready" /\ req'[r].tries = 0
       \/ req[r].pc = "wait" /\ req'[r].tries = req[r].tries
    /\ req'[r].pc = "sent" /\ req'[r].answer = req[r].answer
    /\ req'[r].idx = req[r].idx /\ req'[r].attempts = req[r].attempts
    /\ OneMore(req'[r].sends, req[r].sends, Cur(r))

(* It stays at the candidate and sends nothing.                            *)
Stays(r) ==
    /\ req[r].pc = "sent" /\ req'[r].pc \in {"wait", "cooling", "body"}
    /\ IF req'[r].pc = "wait"
       THEN req[r].tries < RateRetries /\ req'[r].tries = req[r].tries + 1
       ELSE req'[r].tries = req[r].tries
    /\ req'[r].attempts \in {req[r].attempts, req[r].attempts \cup {Cur(r)}}
    /\ req'[r].idx = req[r].idx /\ req'[r].sends = req[r].sends
    /\ req'[r].answer # "503"

MovesOn(r) ==
    /\ req[r].pc \in {"choose", "sent", "cooling"} /\ req'[r].pc = "choose"
    /\ req[r].pc = "choose" => ~Exhausted(r)
    /\ req'[r].idx = req[r].idx + 1
    /\ req'[r].attempts = req[r].attempts \cup {Cur(r)}
    /\ req'[r].sends = req[r].sends /\ req'[r].answer = req[r].answer

Ends(r) ==
    /\ \/ req[r].pc = "choose" /\ req'[r].attempts = req[r].attempts
       \/ /\ req[r].pc \in {"cooling", "body"}
          /\ req'[r].attempts \in {req[r].attempts, req[r].attempts \cup {Cur(r)}}
    /\ req'[r].pc = "done" /\ req'[r].answer # "503"
    /\ req'[r].idx = req[r].idx /\ req'[r].sends = req[r].sends

Turn(r) ==
    \/ Began(r)
    \/ SameTask(r) /\ (TurnsTo(r) \/ SentNow(r) \/ Stays(r) \/ MovesOn(r) \/ Ends(r))

(* A request that arrives begins at the head of its plan.                  *)
LEMMA BeginIsTurn ==
    ASSUME IndInv, NEW r \in Requests, Arrive(r) PROVE Began(r)
<1>1. PICK pin \in Pins, session \in Sessions \cup {NoSession} :
        \E p \in Orderings(Situation(pin, session)) : Asked(r, pin, session, p)
  BY DEF Arrive
<1>2. PICK p \in Orderings(Situation(pin, session)) : Asked(r, pin, session, p)
  BY <1>1
<1> DEFINE asked == [req[r] EXCEPT !.now = clock, !.pin = pin, !.session = session,
                                   !.plan = p]
<1>3. req[r] \in ReqState /\ req[r].pc = "idle" /\ req[r].answer = "none"
  BY DEF Arrive, IndInv, TypeOK, AnswerPlaced
<1>4. /\ asked.now = clock /\ asked.pin = pin /\ asked.session = session
      /\ asked.plan = p /\ asked.idx = req[r].idx /\ asked.attempts = req[r].attempts
      /\ asked.sends = req[r].sends /\ asked.answer = "none"
      /\ DOMAIN asked = DOMAIN req[r]
  BY <1>3 DEF ReqState
<1>5. \/ req'[r] = [asked EXCEPT !.pc = "done", !.answer = "503"]
      \/ req'[r] = [asked EXCEPT !.pc = "choose"]
  BY <1>2 DEF Asked, IndInv, TypeOK
<1>6. {"pc", "answer"} \subseteq DOMAIN req[r]
  BY <1>3 DEF ReqState
<1> HIDE DEF asked
<1>7. CASE req'[r] = [asked EXCEPT !.pc = "done", !.answer = "503"]
  BY <1>1, <1>2, <1>3, <1>4, <1>6, <1>7 DEF Began
<1>8. CASE req'[r] = [asked EXCEPT !.pc = "choose"]
  BY <1>1, <1>2, <1>3, <1>4, <1>6, <1>8 DEF Began
<1> QED
  BY <1>5, <1>7, <1>8

(* What changes when a request goes on to its next candidate.              *)
LEMMA NextCandidateFields ==
    ASSUME NEW q \in ReqState, NEW e
    PROVE  LET n == NextCandidate(q, e)
           IN  /\ n.pc = "choose" /\ n.idx = q.idx + 1 /\ n.attempts = q.attempts \cup {e}
               /\ n.now = q.now /\ n.pin = q.pin /\ n.session = q.session
               /\ n.plan = q.plan /\ n.sends = q.sends /\ n.answer = q.answer
BY DEF NextCandidate, ReqState

(* What changes when a request is sent.                                    *)
LEMMA SentFields ==
    ASSUME NEW q \in ReqState, NEW e
    PROVE  LET n == Sent(q, e)
               z == [n EXCEPT !.tries = 0]
           IN  /\ n.pc = "sent" /\ n.idx = q.idx /\ n.attempts = q.attempts
               /\ n.now = q.now /\ n.pin = q.pin /\ n.session = q.session
               /\ n.plan = q.plan /\ n.answer = q.answer /\ n.tries = q.tries
               /\ OneMore(n.sends, q.sends, e)
               /\ z.pc = "sent" /\ z.idx = q.idx /\ z.attempts = q.attempts
               /\ z.now = q.now /\ z.pin = q.pin /\ z.session = q.session
               /\ z.plan = q.plan /\ z.answer = q.answer /\ z.tries = 0
               /\ OneMore(z.sends, q.sends, e)
<1> DEFINE f == [q.sends EXCEPT ![e] = @ + 1]
           n == [q EXCEPT !.pc = "sent", !.sends = f]
<1>1. Sent(q, e) = n
  BY DEF Sent
<1> HIDE DEF f
<1>2. /\ n.pc = "sent" /\ n.idx = q.idx /\ n.attempts = q.attempts
      /\ n.now = q.now /\ n.pin = q.pin /\ n.session = q.session
      /\ n.plan = q.plan /\ n.answer = q.answer /\ n.tries = q.tries
      /\ n.sends = f /\ DOMAIN n = DOMAIN q
      /\ "tries" \in DOMAIN q
  BY DEF ReqState
<1> DEFINE z == [n EXCEPT !.tries = 0]
<1>3. /\ z.pc = "sent" /\ z.idx = q.idx /\ z.attempts = q.attempts
      /\ z.now = q.now /\ z.pin = q.pin /\ z.session = q.session
      /\ z.plan = q.plan /\ z.answer = q.answer /\ z.tries = 0
      /\ z.sends = f
  BY DEF ReqState
<1>4. OneMore(f, q.sends, e)
  BY DEF OneMore, ReqState, f
<1> HIDE DEF n
<1> QED
  BY <1>1, <1>2, <1>3, <1>4

(* Every step of a request is one of the turns above.                      *)
LEMMA StepIsTurn ==
    ASSUME IndInv, NEW r \in Requests, Step(r) PROVE Turn(r)
<1>0. /\ req[r] \in ReqState /\ req \in [Requests -> ReqState]
      /\ req[r].idx \in Nat /\ req[r].tries \in Nat
  BY DEF IndInv, TypeOK, ReqState
<1>1. CASE Arrive(r)
  BY <1>1, BeginIsTurn DEF Turn
<1>2. CASE GiveUp(r)
  <2> DEFINE p == [req[r] EXCEPT !.pc = "done", !.answer = "502"]
  <2>1. req'[r] = p /\ req[r].pc = "choose"
    BY <1>0, <1>2 DEF GiveUp
  <2>2. /\ p.pc = "done" /\ p.answer = "502" /\ p.attempts = req[r].attempts
        /\ p.idx = req[r].idx /\ p.sends = req[r].sends
        /\ p.now = req[r].now /\ p.pin = req[r].pin /\ p.session = req[r].session
        /\ p.plan = req[r].plan
    BY <1>0 DEF ReqState
  <2> HIDE DEF p
  <2> QED
    BY <2>1, <2>2 DEF Turn, SameTask, Ends
<1>3. CASE PassOver(r)
  <2> DEFINE p == [req[r] EXCEPT !.idx = @ + 1, !.attempts = @ \cup {Cur(r)}]
  <2>1. req'[r] = p /\ req[r].pc = "choose" /\ ~Exhausted(r)
    BY <1>0, <1>3 DEF PassOver
  <2>2. /\ p.pc = "choose" /\ p.answer = req[r].answer
        /\ p.attempts = req[r].attempts \cup {Cur(r)}
        /\ p.idx = req[r].idx + 1 /\ p.sends = req[r].sends
        /\ p.now = req[r].now /\ p.pin = req[r].pin /\ p.session = req[r].session
        /\ p.plan = req[r].plan
    BY <1>0, <2>1 DEF ReqState
  <2> HIDE DEF p
  <2> QED
    BY <2>1, <2>2 DEF Turn, SameTask, MovesOn
<1>4. CASE Send(r)
  <2> DEFINE n == [Sent(req[r], Cur(r)) EXCEPT !.tries = 0]
  <2>1. /\ req'[r] = n
        /\ req[r].pc = "ready"
    BY <1>0, <1>4 DEF Send
  <2>2. /\ n.pc = "sent" /\ n.idx = req[r].idx /\ n.attempts = req[r].attempts
        /\ n.now = req[r].now /\ n.pin = req[r].pin /\ n.session = req[r].session
        /\ n.plan = req[r].plan /\ n.answer = req[r].answer /\ n.tries = 0
        /\ OneMore(n.sends, req[r].sends, Cur(r))
    BY <1>0, SentFields
  <2> HIDE DEF n
  <2> QED
    BY <2>1, <2>2 DEF Turn, SameTask, SentNow
<1>5. CASE Resend(r)
  <2> DEFINE n == Sent(req[r], Cur(r))
  <2>1. req'[r] = n /\ req[r].pc = "wait"
    BY <1>0, <1>5 DEF Resend
  <2>2. /\ n.pc = "sent" /\ n.idx = req[r].idx /\ n.attempts = req[r].attempts
        /\ n.now = req[r].now /\ n.pin = req[r].pin /\ n.session = req[r].session
        /\ n.plan = req[r].plan /\ n.answer = req[r].answer /\ n.tries = req[r].tries
        /\ OneMore(n.sends, req[r].sends, Cur(r))
    BY <1>0, SentFields
  <2> HIDE DEF n
  <2> QED
    BY <2>1, <2>2 DEF Turn, SameTask, SentNow
<1>6. CASE RateLimited(r)
  <2> DEFINE p == [req[r] EXCEPT !.pc = "wait", !.tries = @ + 1,
                                 !.attempts = @ \cup {Cur(r)}]
  <2>1. /\ req[r].pc = "sent" /\ req[r].tries < RateRetries
        /\ req'[r] = NextCandidate(req[r], Cur(r)) \/ req'[r] = p
    BY <1>0, <1>6 DEF RateLimited, RetriesHere
  <2>2. CASE req'[r] = NextCandidate(req[r], Cur(r))
    BY <1>0, <2>1, <2>2, NextCandidateFields DEF Turn, SameTask, MovesOn
  <2>3. CASE req'[r] = p
    <3>1. /\ p.pc = "wait" /\ p.tries = req[r].tries + 1
          /\ p.attempts = req[r].attempts \cup {Cur(r)} /\ p.idx = req[r].idx
          /\ p.sends = req[r].sends /\ p.answer = req[r].answer
          /\ p.now = req[r].now /\ p.pin = req[r].pin /\ p.session = req[r].session
          /\ p.plan = req[r].plan
      BY <1>0 DEF ReqState
    <3>2. req[r].answer = "none"
      BY <2>1 DEF IndInv, AnswerPlaced
    <3> HIDE DEF p
    <3> QED
      BY <2>1, <2>3, <3>1, <3>2 DEF Turn, SameTask, Stays
  <2> QED
    BY <2>1, <2>2, <2>3
<1>7. ASSUME NEW status \in Statuses, Fail(r, status) PROVE Turn(r)
  <2> DEFINE p == [req[r] EXCEPT !.pc = "cooling", !.status = status,
                                 !.load = ep[Cur(r)].cooldownUntil]
  <2>1. req[r].pc = "sent" /\ req'[r] = p /\ req[r].answer = "none"
    BY <1>0, <1>7 DEF Fail, IndInv, AnswerPlaced
  <2>2. /\ p.pc = "cooling" /\ p.tries = req[r].tries
        /\ p.attempts = req[r].attempts /\ p.idx = req[r].idx
        /\ p.sends = req[r].sends /\ p.answer = req[r].answer
        /\ p.now = req[r].now /\ p.pin = req[r].pin /\ p.session = req[r].session
        /\ p.plan = req[r].plan
    BY <1>0 DEF ReqState
  <2> HIDE DEF p
  <2> QED
    BY <2>1, <2>2 DEF Turn, SameTask, Stays
<1>8. CASE Settle(r)
  <2> DEFINE p == [req[r] EXCEPT !.pc = "done", !.answer = "client",
                                 !.attempts = @ \cup {Cur(r)}]
  <2>1. /\ req[r].pc = "cooling"
        /\ req'[r] = NextCandidate(req[r], Cur(r)) \/ req'[r] = p
    BY <1>0, <1>8 DEF Settle
  <2>2. CASE req'[r] = NextCandidate(req[r], Cur(r))
    BY <1>0, <2>1, <2>2, NextCandidateFields DEF Turn, SameTask, MovesOn
  <2>3. CASE req'[r] = p
    BY <1>0, <2>1, <2>3 DEF Turn, SameTask, Ends, ReqState
  <2> QED
    BY <2>1, <2>2, <2>3
<1>9. CASE Accept(r)
  <2> DEFINE p == [req[r] EXCEPT !.pc = "body", !.head = clock,
                                 !.answer = IF r \in Streams THEN "ok" ELSE @]
  <2>1. req[r].pc = "sent" /\ req'[r] = p /\ req[r].answer = "none"
    BY <1>0, <1>9 DEF Accept, IndInv, AnswerPlaced
  <2>2. /\ p.pc = "body" /\ p.tries = req[r].tries
        /\ p.attempts = req[r].attempts /\ p.idx = req[r].idx
        /\ p.sends = req[r].sends /\ p.answer \in {"ok", req[r].answer}
        /\ p.now = req[r].now /\ p.pin = req[r].pin /\ p.session = req[r].session
        /\ p.plan = req[r].plan
    BY <1>0 DEF ReqState
  <2> HIDE DEF p
  <2> QED
    BY <2>1, <2>2 DEF Turn, SameTask, Stays
<1>10. CASE Deliver(r)
  <2>1. req'[r] = [req[r] EXCEPT !.pc = "done", !.answer = "ok"] /\ req[r].pc = "body"
    BY <1>0, <1>10 DEF Deliver
  <2> QED
    BY <1>0, <2>1 DEF Turn, SameTask, Ends, ReqState
<1>11. CASE ClientGone(r)
  <2>1. /\ req'[r] = [req[r] EXCEPT !.pc = "done",
                                    !.answer = IF @ = "none" THEN "cut" ELSE @]
        /\ req[r].pc = "body"
    BY <1>0, <1>11 DEF ClientGone
  <2>2. req[r].answer # "503"
    BY <2>1 DEF IndInv, AnswerPlaced
  <2> QED
    BY <1>0, <2>1, <2>2 DEF Turn, SameTask, Ends, ReqState
<1>12. CASE TurnTo(r)
  <2> DEFINE p == [req[r] EXCEPT !.pc = "ready"]
  <2>1. req'[r] = p /\ req[r].pc = "choose" /\ ~Exhausted(r)
    BY <1>0, <1>12 DEF TurnTo
  <2>2. /\ p.pc = "ready" /\ p.answer = req[r].answer
        /\ p.attempts = req[r].attempts /\ p.idx = req[r].idx /\ p.sends = req[r].sends
        /\ p.now = req[r].now /\ p.pin = req[r].pin /\ p.session = req[r].session
        /\ p.plan = req[r].plan
    BY <1>0 DEF ReqState
  <2> HIDE DEF p
  <2> QED
    BY <2>1, <2>2 DEF Turn, SameTask, TurnsTo
<1> QED
  BY <1>1, <1>2, <1>3, <1>4, <1>5, <1>6, <1>7, <1>8, <1>9, <1>10, <1>11, <1>12
     DEF Step, Thread, Upstream, Body

-----------------------------------------------------------------------------
(* The invariant of a request's way.                                       *)

(* Nothing is written about a request before it arrives.                   *)
Fresh(r) == req[r].idx = 1 /\ req[r].attempts = {} /\ \A e \in Endpoints : req[r].sends[e] = 0

(* A candidate list names each endpoint once, and only what a pin allows.  *)
PlanIsSound(r) ==
    /\ \A i, j \in 1..Len(req[r].plan) : req[r].plan[i] = req[r].plan[j] => i = j
    /\ req[r].pin # {} => \A i \in 1..Len(req[r].plan) : req[r].plan[i] \in req[r].pin

(* It was sent to the candidates the loop has turned to, and the present   *)
(* one has had an attempt for each try.                                    *)
SendsPlaced(r) ==
    /\ \A e \in Endpoints : req[r].sends[e] > 0 =>
          \E i \in 1..Len(req[r].plan) :
              /\ req[r].plan[i] = e
              /\ i <= req[r].idx
              /\ req[r].pc \in {"choose", "ready"} => i < req[r].idx
    /\ \A e \in Endpoints : req[r].sends[e] <= 1 + RateRetries
    /\ req[r].pc \in Busy => /\ req[r].tries <= RateRetries
                             /\ req[r].sends[Cur(r)] > 0
                             /\ req[r].sends[Cur(r)] <= req[r].tries + 1
                             /\ req[r].pc = "wait" => req[r].sends[Cur(r)] <= req[r].tries

Reached(r, n) == {req[r].plan[i] : i \in 1..n}

Explained(r) ==
    /\ Reached(r, req[r].idx - 1) \subseteq req[r].attempts
    /\ req[r].idx <= Len(req[r].plan) => req[r].attempts \subseteq Reached(r, req[r].idx)

(* No request reads the clock ahead of time.                               *)
OnTime(r) == req[r].now <= clock

PathOK(r) ==
    /\ req[r].pc = "idle" => Fresh(r)
    /\ req[r].pc # "idle" => PlanIsSound(r) /\ SendsPlaced(r)
    /\ req[r].pc # "idle" /\ req[r].answer # "503" => Explained(r)
    /\ OnTime(r)

PathInv == \A r \in Requests : PathOK(r)

(* What an endpoint is ordered by is made of integers.                     *)
LEMMA StandingType ==
    ASSUME NEW pin, NEW session, NEW e \in Endpoints, NEW i \in 1..5
    PROVE  Standing(Situation(pin, session), e)[i] \in Int
<1>1. Order[e] \in Int /\ Pos[e] \in Int
  BY ConfigAssumption
<1>2. Situation(pin, session).order[e] \in Int /\ Situation(pin, session).pos[e] \in Int
  BY <1>1 DEF Situation
<1>3. BucketIndex(Situation(pin, session), e) \in Int
  BY DEF BucketIndex
<1>4. i = 1 \/ i = 2 \/ i = 3 \/ i = 4 \/ i = 5
  OBVIOUS
<1> QED
  BY <1>2, <1>3, <1>4 DEF Standing

(* No endpoint stands twice in a candidate list, which holds only what the *)
(* pin allows.                                                             *)
LEMMA OrderingsAreSound ==
    ASSUME TypeOK, NEW pin \in SUBSET Endpoints, NEW session,
           NEW p \in Orderings(Situation(pin, session))
    PROVE  /\ \A i, j \in 1..Len(p) : p[i] = p[j] => i = j
           /\ pin # {} => \A i \in 1..Len(p) : p[i] \in pin
<1> DEFINE s == Situation(pin, session)
           C == Candidates(s)
<1>1. C \subseteq Endpoints /\ (pin # {} => C \subseteq pin)
  BY DEF Candidates, Situation
<1>2. IsFiniteSet(C) /\ Cardinality(C) \in Nat
  BY <1>1, ConfigAssumption, FS_Subset, FS_CardinalityType
<1>3. /\ p \in [1..Cardinality(C) -> C]
      /\ \A i, j \in DOMAIN p : i < j => Precedes(s, p[i], p[j])
  BY DEF Orderings
<1>4. p \in Seq(C) /\ Len(p) = Cardinality(C) /\ DOMAIN p = 1..Len(p)
  BY <1>2, <1>3
<1>5. \A e \in Endpoints : ~Precedes(s, e, e)
  BY StandingType DEF Precedes
<1>6. \A i \in 1..Len(p) : p[i] \in C
  BY <1>3, <1>4
<1> HIDE DEF s, C
<1>7. ASSUME NEW i \in 1..Len(p), NEW j \in 1..Len(p), i < j PROVE p[i] # p[j]
  BY <1>1, <1>3, <1>4, <1>5, <1>6, <1>7
<1>8. \A i, j \in 1..Len(p) : p[i] = p[j] => i = j
  <2> SUFFICES ASSUME NEW i \in 1..Len(p), NEW j \in 1..Len(p), p[i] = p[j], i # j
               PROVE  FALSE
    OBVIOUS
  <2>1. i < j \/ j < i
    BY <1>2, <1>4
  <2> QED
    BY <1>7, <2>1
<1> QED
  BY <1>1, <1>6, <1>8

(* PathInv holds at the start.                                             *)
LEMMA PathInit == Init => PathInv
<1> SUFFICES ASSUME Init, NEW r \in Requests PROVE PathOK(r)
  BY DEF PathInv
<1>1. req[r] = Idle0 /\ clock = 0
  BY DEF Init
<1> QED
  BY <1>1 DEF PathOK, Fresh, OnTime, Idle0

(* What the types and the plan say of a request under way.                 *)
LEMMA PathTypes ==
    ASSUME IndInv, NEW r \in Requests
    PROVE  /\ req[r].idx \in Nat /\ req[r].idx >= 1
           /\ Len(req[r].plan) \in Nat /\ req[r].plan \in Seq(Endpoints)
           /\ req[r].sends \in [Endpoints -> Nat] /\ req[r].tries \in Nat
           /\ req[r].attempts \subseteq Endpoints
           /\ req[r].now \in Nat /\ clock \in Nat /\ RateRetries \in Nat
           /\ req[r].pc \in Places /\ req[r].answer \in Answers
           /\ req[r].pc \in Turned => Cur(r) \in Endpoints /\ req[r].idx <= Len(req[r].plan)
           /\ req[r].pc = "choose" /\ ~Exhausted(r) =>
                 Cur(r) \in Endpoints /\ req[r].idx <= Len(req[r].plan)
<1>1. req[r] \in ReqState /\ clock \in Nat
  BY DEF IndInv, TypeOK
<1>2. req[r].plan \in Seq(Endpoints) /\ Len(req[r].plan) \in Nat
  BY <1>1, LenProperties DEF ReqState
<1> QED
  BY <1>1, <1>2, CurType, ConstantTypes DEF IndInv, PlanIndexed, ReqState

(* The path of a request that begins is right.                             *)
LEMMA BeganPath ==
    ASSUME IndInv, NEW r \in Requests, PathOK(r), Began(r), clock' = clock
    PROVE  PathOK(r)'
<1>1. /\ Fresh(r) /\ req[r].idx = 1 /\ req[r].attempts = {}
      /\ \A e \in Endpoints : req[r].sends[e] = 0
  BY DEF PathOK, Began, Fresh
<1>2. /\ req'[r].idx = 1 /\ req'[r].attempts = {}
      /\ \A e \in Endpoints : req'[r].sends[e] = 0
      /\ req'[r].pc \in {"done", "choose"} /\ req'[r].now = clock
  BY <1>1 DEF Began
<1>3. req'[r].pin \in SUBSET Endpoints
  BY ConfigAssumption DEF Began
<1>4. PlanIsSound(r)'
  BY <1>3, OrderingsAreSound DEF PlanIsSound, Began, IndInv
<1>5. SendsPlaced(r)'
  BY <1>2, ConstantTypes DEF SendsPlaced, Busy
<1>6. Explained(r)'
  BY <1>2 DEF Explained, Reached
<1>7. OnTime(r)'
  BY <1>2, PathTypes DEF OnTime
<1> QED
  BY <1>2, <1>4, <1>5, <1>6, <1>7 DEF PathOK

(* The plan of a request is as right after its step as before.             *)
LEMMA PlanFrame ==
    ASSUME NEW r \in Requests, SameTask(r)
    PROVE  /\ PlanIsSound(r) => PlanIsSound(r)'
           /\ \A n : Reached(r, n)' = Reached(r, n)
           /\ req'[r].idx = req[r].idx => Cur(r)' = Cur(r)
           /\ clock' = clock /\ OnTime(r) => OnTime(r)'
BY DEF SameTask, PlanIsSound, Reached, Cur, OnTime

(* The path of a request stays right when it turns to its next candidate.  *)
LEMMA TurnsPath ==
    ASSUME IndInv, NEW r \in Requests, PathOK(r), SameTask(r), TurnsTo(r), clock' = clock
    PROVE  PathOK(r)'
<1>1. /\ PlanIsSound(r) /\ SendsPlaced(r) /\ OnTime(r)
      /\ req[r].answer # "503" => Explained(r)
  BY DEF PathOK, TurnsTo
<1>2. /\ req'[r].plan = req[r].plan /\ req'[r].idx = req[r].idx /\ req'[r].pc = "ready"
      /\ req'[r].sends = req[r].sends /\ req[r].pc = "choose"
  BY DEF TurnsTo, SameTask
<1>3. SendsPlaced(r)'
  BY <1>1, <1>2 DEF SendsPlaced, Busy
<1>4. req'[r].answer # "503" => Explained(r)'
  BY <1>1, PlanFrame DEF Explained, TurnsTo, SameTask
<1> QED
  BY <1>1, <1>2, <1>3, <1>4, PlanFrame DEF PathOK

(* The path of a request stays right when it is sent.                      *)
LEMMA SentPath ==
    ASSUME IndInv, NEW r \in Requests, PathOK(r), SameTask(r), SentNow(r), clock' = clock
    PROVE  PathOK(r)'
<1> DEFINE c == Cur(r)
           i == req[r].idx
<1>1. /\ c \in Endpoints /\ i \in Nat /\ i >= 1 /\ i <= Len(req[r].plan)
      /\ Len(req[r].plan) \in Nat /\ req[r].sends \in [Endpoints -> Nat]
      /\ RateRetries \in Nat /\ req[r].tries \in Nat
      /\ req[r].plan[i] = c
  BY PathTypes DEF SentNow, Turned, Busy, Cur
<1>2. /\ PlanIsSound(r) /\ SendsPlaced(r) /\ OnTime(r)
      /\ req[r].answer # "503" => Explained(r)
      /\ req[r].pc \in {"ready", "wait"}
  BY DEF PathOK, SentNow
<1>3. /\ req'[r].plan = req[r].plan /\ req'[r].idx = i /\ Cur(r)' = c
      /\ req'[r].pc = "sent"
      /\ \A e \in Endpoints : req'[r].sends[e] =
              IF e = c THEN req[r].sends[e] + 1 ELSE req[r].sends[e]
  BY PlanFrame DEF SentNow, SameTask, OneMore
<1>4. /\ req'[r].tries \in Nat /\ req'[r].tries <= RateRetries
      /\ req[r].sends[c] <= req'[r].tries
  <2>1. CASE req[r].pc = "ready"
    <3>1. req'[r].tries = 0
      BY <2>1 DEF SentNow
    <3>2. ~(req[r].sends[c] > 0)
      <4> SUFFICES ASSUME req[r].sends[c] > 0 PROVE FALSE
        OBVIOUS
      <4>1. PICK j \in 1..Len(req[r].plan) : req[r].plan[j] = c /\ j < i
        BY <1>1, <1>2, <2>1 DEF SendsPlaced
      <4>2. i \in 1..Len(req[r].plan)
        BY <1>1
      <4>3. j = i
        BY <1>1, <1>2, <4>1, <4>2 DEF PlanIsSound
      <4> QED
        BY <1>1, <4>1, <4>3
    <3> QED
      BY <1>1, <3>1, <3>2
  <2>2. CASE req[r].pc = "wait"
    BY <1>1, <1>2, <2>2 DEF SendsPlaced, Busy, SentNow
  <2> QED
    BY <1>2, <2>1, <2>2
<1>5. SendsPlaced(r)'
  <2>1. \A e \in Endpoints : req'[r].sends[e] > 0 =>
          \E j \in 1..Len(req'[r].plan) :
              /\ req'[r].plan[j] = e /\ j <= req'[r].idx
              /\ req'[r].pc \in {"choose", "ready"} => j < req'[r].idx
    <3> SUFFICES ASSUME NEW e \in Endpoints, req'[r].sends[e] > 0
                 PROVE  \E j \in 1..Len(req[r].plan) : req[r].plan[j] = e /\ j <= i
      BY <1>3
    <3>1. CASE e = c
      BY <1>1, <3>1
    <3>2. CASE e # c
      BY <1>2, <1>3, <3>2 DEF SendsPlaced
    <3> QED
      BY <3>1, <3>2
  <2>2. req'[r].sends[c] = req[r].sends[c] + 1
    BY <1>1, <1>3
  <2>3. req'[r].sends[c] > 0 /\ req'[r].sends[c] <= req'[r].tries + 1
    BY <1>1, <1>4, <2>2
  <2>4. \A e \in Endpoints : req'[r].sends[e] <= 1 + RateRetries
    <3> TAKE e \in Endpoints
    <3>1. CASE e = c
      BY <1>1, <1>4, <2>2, <3>1
    <3>2. CASE e # c
      BY <1>2, <1>3, <3>2 DEF SendsPlaced
    <3> QED
      BY <3>1, <3>2
  <2> QED
    BY <1>3, <1>4, <2>1, <2>3, <2>4 DEF SendsPlaced
<1>6. req'[r].answer # "503" => Explained(r)'
  BY <1>2, PlanFrame DEF Explained, SentNow, SameTask
<1> QED
  BY <1>2, <1>3, <1>5, <1>6, PlanFrame DEF PathOK

(* The path of a request stays right while it stays with its candidate.    *)
LEMMA StaysPath ==
    ASSUME IndInv, NEW r \in Requests, PathOK(r), SameTask(r), Stays(r), clock' = clock
    PROVE  PathOK(r)'
<1> DEFINE c == Cur(r)
           i == req[r].idx
<1>1. /\ c \in Endpoints /\ i \in Nat /\ i >= 1 /\ i <= Len(req[r].plan)
      /\ Len(req[r].plan) \in Nat /\ req[r].sends \in [Endpoints -> Nat]
      /\ RateRetries \in Nat /\ req[r].tries \in Nat /\ req[r].plan[i] = c
      /\ req[r].answer = "none"
  BY PathTypes DEF Stays, Turned, Busy, Cur, IndInv, AnswerPlaced
<1>2. /\ PlanIsSound(r) /\ SendsPlaced(r) /\ OnTime(r) /\ Explained(r)
  BY <1>1 DEF PathOK, Stays
<1>3. /\ req'[r].plan = req[r].plan /\ req'[r].idx = i /\ Cur(r)' = c
      /\ req'[r].pc \in {"wait", "cooling", "body"} /\ req'[r].sends = req[r].sends
  BY PlanFrame DEF Stays, SameTask
<1>4. SendsPlaced(r)'
  <2>1. /\ req'[r].tries <= RateRetries
        /\ req[r].sends[c] <= req'[r].tries + 1
        /\ req'[r].pc = "wait" => req[r].sends[c] <= req'[r].tries
    <3>1. req[r].tries <= RateRetries /\ req[r].sends[c] <= req[r].tries + 1
      BY <1>2 DEF SendsPlaced, Stays, Busy
    <3>2. req[r].sends[c] \in Nat
      BY <1>1
    <3>3. \/ /\ req'[r].pc = "wait" /\ req[r].tries < RateRetries
             /\ req'[r].tries = req[r].tries + 1
          \/ req'[r].pc # "wait" /\ req'[r].tries = req[r].tries
      BY DEF Stays
    <3>4. RateRetries \in Nat /\ req[r].tries \in Nat
      BY <1>1
    <3> DEFINE n == req[r].sends[c]
               t == req[r].tries
    <3> HIDE DEF n, t
    <3> QED
      BY <3>1, <3>2, <3>3, <3>4 DEF n, t
  <2>2. req[r].sends[c] > 0 /\ req[r].pc \notin {"choose", "ready"}
    BY <1>2 DEF SendsPlaced, Stays, Busy
  <2> QED
    BY <1>2, <1>3, <2>1, <2>2 DEF SendsPlaced
<1>5. Explained(r)'
  <2>1. c \in Reached(r, i)
    BY <1>1 DEF Reached
  <2> QED
    BY <1>2, <1>3, <2>1, PlanFrame DEF Explained, Stays
<1> QED
  BY <1>2, <1>3, <1>4, <1>5, PlanFrame DEF PathOK

(* The path of a request stays right when it moves to the next candidate.  *)
LEMMA MovesOnPath ==
    ASSUME IndInv, NEW r \in Requests, PathOK(r), SameTask(r), MovesOn(r), clock' = clock
    PROVE  PathOK(r)'
<1> DEFINE c == Cur(r)
           i == req[r].idx
<1>1. /\ c \in Endpoints /\ i \in Nat /\ i >= 1 /\ i <= Len(req[r].plan)
      /\ Len(req[r].plan) \in Nat /\ req[r].plan[i] = c
      /\ req[r].answer = "none"
  BY PathTypes DEF MovesOn, Turned, Busy, Cur, IndInv, AnswerPlaced
<1>2. /\ PlanIsSound(r) /\ SendsPlaced(r) /\ OnTime(r) /\ Explained(r)
  BY <1>1 DEF PathOK, MovesOn
<1>3. /\ req'[r].plan = req[r].plan /\ req'[r].idx = i + 1
      /\ req'[r].pc = "choose" /\ req'[r].sends = req[r].sends
      /\ req'[r].attempts = req[r].attempts \cup {c}
  BY DEF MovesOn, SameTask
<1>4. SendsPlaced(r)'
  <2>1. \A j \in 1..Len(req[r].plan) : j <= i => j <= i + 1 /\ j < i + 1
    BY <1>1
  <2> QED
    BY <1>2, <1>3, <2>1 DEF SendsPlaced, Busy
<1>5. Explained(r)'
  <2>1. Reached(r, i) = Reached(r, i - 1) \cup {c}
    <3>1. \A j : j \in 1..i <=> j \in 1..(i - 1) \/ j = i
      BY <1>1
    <3> QED
      BY <1>1, <3>1 DEF Reached
  <2>2. Reached(r, i) \subseteq Reached(r, i + 1)
    <3>1. \A j : j \in 1..i => j \in 1..(i + 1)
      BY <1>1
    <3> QED
      BY <3>1 DEF Reached
  <2>3. req'[r].idx - 1 = i
    BY <1>1, <1>3
  <2> QED
    BY <1>1, <1>2, <1>3, <2>1, <2>2, <2>3, PlanFrame DEF Explained
<1> QED
  BY <1>2, <1>3, <1>4, <1>5, PlanFrame DEF PathOK

(* The path of a request stays right when it is answered.                  *)
LEMMA EndsPath ==
    ASSUME IndInv, NEW r \in Requests, PathOK(r), SameTask(r), Ends(r), clock' = clock
    PROVE  PathOK(r)'
<1> DEFINE c == Cur(r)
           i == req[r].idx
<1>1. /\ i \in Nat /\ i >= 1 /\ req[r].pc \in {"choose", "cooling", "body"}
      /\ req[r].answer # "503"
      /\ req[r].pc # "choose" => req[r].plan[i] = c
  BY PathTypes DEF Ends, Cur, IndInv, AnswerPlaced
<1>2. /\ PlanIsSound(r) /\ SendsPlaced(r) /\ OnTime(r) /\ Explained(r)
  BY <1>1 DEF PathOK
<1>3. /\ req'[r].plan = req[r].plan /\ req'[r].idx = i
      /\ req'[r].pc = "done" /\ req'[r].sends = req[r].sends
  BY DEF Ends, SameTask
<1>4. SendsPlaced(r)'
  BY <1>2, <1>3 DEF SendsPlaced, Busy
<1>5. Explained(r)'
  <2>1. req[r].pc # "choose" => c \in Reached(r, i)
    BY <1>1 DEF Reached
  <2>2. /\ req[r].attempts \subseteq req'[r].attempts
        /\ req[r].pc = "choose" => req'[r].attempts = req[r].attempts
        /\ req'[r].attempts \subseteq req[r].attempts \cup {c}
    BY DEF Ends
  <2> QED
    BY <1>2, <1>3, <2>1, <2>2, PlanFrame DEF Explained
<1> QED
  BY <1>2, <1>3, <1>4, <1>5, PlanFrame DEF PathOK

(* PathInv is kept by every step.                                          *)
LEMMA PathNext == IndInv /\ PathInv /\ [Next]_vars => PathInv'
<1> SUFFICES ASSUME IndInv, PathInv, [Next]_vars, NEW x \in Requests PROVE PathOK(x)'
  BY DEF PathInv
<1>1. PathOK(x) /\ clock \in Nat /\ req[x].now \in Nat
  BY PathTypes DEF PathInv
<1>2. ASSUME req'[x] = req[x], clock' \in {clock, clock + 1} PROVE PathOK(x)'
  <2>1. Fresh(x)' <=> Fresh(x)
    BY <1>2 DEF Fresh
  <2>2. PlanIsSound(x)' <=> PlanIsSound(x)
    BY <1>2 DEF PlanIsSound
  <2>3. SendsPlaced(x)' <=> SendsPlaced(x)
    BY <1>2 DEF SendsPlaced, Cur
  <2>4. Explained(x)' <=> Explained(x)
    BY <1>2 DEF Explained, Reached
  <2>5. OnTime(x)'
    BY <1>1, <1>2 DEF PathOK, OnTime
  <2> QED
    BY <1>1, <1>2, <2>1, <2>2, <2>3, <2>4, <2>5 DEF PathOK
<1>3. CASE Tick \/ UNCHANGED vars
  BY <1>2, <1>3 DEF Tick, vars
<1>4. ASSUME NEW r \in Requests, Step(r) PROVE PathOK(x)'
  <2>1. clock' = clock
    BY <1>4 DEF Step, Arrive, Thread, GiveUp, PassOver, TurnTo, Send, Resend, Settle,
          Upstream, Accept, RateLimited, Fail, Body, Deliver, ClientGone
  <2>2. CASE x = r
    BY <1>1, <1>4, <2>1, <2>2, StepIsTurn, BeganPath, TurnsPath, SentPath, StaysPath, MovesOnPath, EndsPath
       DEF Turn
  <2>3. CASE x # r
    BY <1>2, <1>4, <2>1, <2>3, OneThread DEF Step
  <2> QED
    BY <2>2, <2>3
<1> QED
  BY <1>3, <1>4 DEF Next, Step

(* IndInv and PathInv hold always.                                         *)
LEMMA PathInvariance == Spec => [](IndInv /\ PathInv)
<1>1. Init => IndInv /\ PathInv
  BY InitIndInv, PathInit
<1>2. IndInv /\ PathInv /\ [Next]_vars => (IndInv /\ PathInv)'
  BY NextIndInv, PathNext
<1> QED
  BY <1>1, <1>2, PTL DEF Spec

(* No request sends to an endpoint oftener than rate_limit_retries allows, *)
(* and none but to the one it pins: the tries are counted anew for each    *)
(* candidate, and no candidate list names an endpoint twice (proxy()).     *)
THEOREM SendsAreAllowed == Spec => []SendsAllowed
<1>1. IndInv /\ PathInv => SendsAllowed
  <2> SUFFICES ASSUME IndInv, PathInv, NEW r \in Requests, NEW e \in Endpoints,
                      req[r].sends[e] > 0
               PROVE  /\ req[r].sends[e] <= 1 + RateRetries
                      /\ req[r].pin # {} => e \in req[r].pin
    BY DEF SendsAllowed
  <2>1. PathOK(r)
    BY DEF PathInv
  <2>2. req[r].pc # "idle"
    BY <2>1 DEF PathOK, Fresh
  <2>3. PlanIsSound(r) /\ SendsPlaced(r)
    BY <2>1, <2>2 DEF PathOK
  <2> QED
    BY <2>3 DEF PlanIsSound, SendsPlaced
<1> QED
  BY <1>1, PathInvariance, PTL

(* "502 with the per-endpoint failure detail": every candidate the loop    *)
(* has left behind has an entry in the detail, and only candidates it has  *)
(* turned to have one.                                                     *)
THEOREM AttemptsAreExplained == Spec => []AttemptsExplained
<1>1. IndInv /\ PathInv => AttemptsExplained
  BY DEF PathInv, PathOK, Explained, Reached, AttemptsExplained
<1> QED
  BY <1>1, PathInvariance, PTL

-----------------------------------------------------------------------------
(* The endpoints' health                                                   *)

(* One endpoint's part of PutAwayForAWhile, at time t.                     *)
AwayForAWhile(h, t) ==
    /\ h.skipUntil > 0 => SkipAfter > 0 /\ h.streak >= SkipAfter
    /\ h.skipUntil <= t + SkipSecs
    /\ \E c \in {Cooldown, AuthCooldown, ServerCooldown} : h.cooldownUntil <= t + c
    /\ h.exhaustedUntil <= t + QuotaRest

(* What a step of a thread makes of an endpoint's record.                  *)
Updates(h, r) ==
    {h, Held(h), Failed(h), Released(h), Released(Failed(h)), Released(Served(h)),
     Released(CoolDown(h, r)), Released(RecordFailure(CoolDown(h, r), req[r].now))}

(* What a step of a request may do to an endpoint's state.                 *)
LEMMA StepUpdates ==
    ASSUME IndInv, NEW r \in Requests, Step(r), NEW e \in Endpoints
    PROVE  ep'[e] \in Updates(ep[e], r)
<1>1. ep \in [Endpoints -> EpState]
  BY DEF IndInv, TypeOK
<1>2. CASE Arrive(r) \/ GiveUp(r) \/ PassOver(r) \/ TurnTo(r) \/ Resend(r) \/ Accept(r)
  BY <1>2 DEF Arrive, GiveUp, PassOver, TurnTo, Resend, Accept, Updates
<1>3. CASE Send(r)
  BY <1>1, <1>3 DEF Send, Updates
<1>4. CASE RateLimited(r)
  BY <1>1, <1>4 DEF RateLimited, Updates
<1>5. CASE \E status \in Statuses : Fail(r, status)
  BY <1>1, <1>5 DEF Fail, Updates
<1>6. CASE Settle(r)
  BY <1>1, <1>6 DEF Settle, Updates
<1>7. CASE Deliver(r) \/ ClientGone(r)
  BY <1>1, <1>7 DEF Deliver, ClientGone, Updates
<1> QED
  BY <1>2, <1>3, <1>4, <1>5, <1>6, <1>7 DEF Step, Thread, Upstream, Body

(* Counting an attempt or its outcome puts no endpoint away.               *)
LEMMA MarksAway ==
    ASSUME NEW h \in EpState, NEW t \in Nat, AwayForAWhile(h, t)
    PROVE  /\ AwayForAWhile(Held(h), t) /\ AwayForAWhile(Released(h), t)
           /\ AwayForAWhile(Failed(h), t) /\ AwayForAWhile(Served(h), t)
<1>1. /\ t + SkipSecs \in Nat /\ t + SkipSecs >= 0
  BY ConstantTypes
<1>2. /\ Held(h).skipUntil = h.skipUntil /\ Held(h).streak = h.streak
      /\ Held(h).cooldownUntil = h.cooldownUntil
      /\ Held(h).exhaustedUntil = h.exhaustedUntil
  BY DEF Held, EpState
<1>3. /\ Released(h).skipUntil = h.skipUntil /\ Released(h).streak = h.streak
      /\ Released(h).cooldownUntil = h.cooldownUntil
      /\ Released(h).exhaustedUntil = h.exhaustedUntil
  BY DEF Released, EpState
<1>4. /\ Failed(h).skipUntil = h.skipUntil /\ Failed(h).streak = h.streak
      /\ Failed(h).cooldownUntil = h.cooldownUntil
      /\ Failed(h).exhaustedUntil = h.exhaustedUntil
  BY DEF Failed, EpState
<1>5. /\ Served(h).skipUntil = 0
      /\ Served(h).cooldownUntil = h.cooldownUntil
      /\ Served(h).exhaustedUntil = h.exhaustedUntil
  BY DEF Served, EpState
<1> QED
  BY <1>1, <1>2, <1>3, <1>4, <1>5 DEF AwayForAWhile

(* A cooldown counts from the request's reading of the clock, which is not *)
(* ahead of it, and lasts no longer than the longest that is configured.   *)
LEMMA CoolDownAway ==
    ASSUME IndInv, NEW h \in EpState, NEW r \in Requests, OnTime(r), AwayForAWhile(h, clock)
    PROVE  AwayForAWhile(CoolDown(h, r), clock)
<1> DEFINE status == req[r].status
           until == req[r].now + CooldownFor(status)
           rest  == req[r].now + QuotaRest
           g == CoolDown(h, r)
<1>1. /\ req[r].now \in Nat /\ clock \in Nat /\ req[r].now <= clock
      /\ CooldownFor(status) \in Nat
  BY PathTypes, CooldownForType DEF OnTime
<1>2. \E c \in {Cooldown, AuthCooldown, ServerCooldown} : CooldownFor(status) <= c
  BY ConstantTypes DEF CooldownFor
<1>3. \E c \in {Cooldown, AuthCooldown, ServerCooldown} : until <= clock + c
  <2>1. PICK c \in {Cooldown, AuthCooldown, ServerCooldown} : CooldownFor(status) <= c
    BY <1>2
  <2>2. c \in Nat
    BY ConstantTypes
  <2> HIDE DEF status
  <2> QED
    BY <1>1, <2>1, <2>2
<1>4. rest <= clock + QuotaRest
  BY <1>1, ConstantTypes
<1> HIDE DEF until, rest
<1>5. g = [h EXCEPT !.cooldownUntil = IF until > req[r].load THEN until ELSE @,
                    !.exhaustedUntil = IF status = "quota" /\ Kind[Cur(r)] = "plans"
                                       THEN rest ELSE @]
  BY DEF CoolDown, until, rest
<1> HIDE DEF status, g
<1>6. /\ g.skipUntil = h.skipUntil /\ g.streak = h.streak
      /\ g.cooldownUntil \in {until, h.cooldownUntil}
      /\ g.exhaustedUntil \in {rest, h.exhaustedUntil}
  BY <1>5 DEF EpState
<1>7. \E c \in {Cooldown, AuthCooldown, ServerCooldown} : g.cooldownUntil <= clock + c
  BY <1>3, <1>6 DEF AwayForAWhile
<1>8. g.exhaustedUntil <= clock + QuotaRest
  BY <1>4, <1>6 DEF AwayForAWhile
<1>9. AwayForAWhile(g, clock)
  BY <1>6, <1>7, <1>8 DEF AwayForAWhile
<1> QED
  BY <1>9 DEF g

(* A failure lengthens the streak, and opens a window of skip_secs from    *)
(* the request's reading only when the streak is long enough.              *)
LEMMA RecordFailureAway ==
    ASSUME NEW h \in EpState, NEW t \in Nat, NEW now \in Nat, now <= t, AwayForAWhile(h, t)
    PROVE  AwayForAWhile(RecordFailure(h, now), t)
<1> DEFINE g == RecordFailure(h, now)
<1>1. /\ h.streak \in Nat /\ h.skipUntil \in Nat /\ SkipAfter \in Nat /\ SkipSecs \in Nat
  BY ConstantTypes DEF EpState
<1>2. /\ g.streak = h.streak + 1
      /\ g.cooldownUntil = h.cooldownUntil /\ g.exhaustedUntil = h.exhaustedUntil
      /\ \/ g.skipUntil = h.skipUntil
         \/ g.skipUntil = now + SkipSecs /\ SkipAfter > 0 /\ h.streak + 1 >= SkipAfter
  BY DEF RecordFailure, EpState
<1> HIDE DEF g
<1>3. g.skipUntil > 0 => SkipAfter > 0 /\ g.streak >= SkipAfter
  BY <1>1, <1>2 DEF AwayForAWhile
<1>4. g.skipUntil <= t + SkipSecs
  BY <1>1, <1>2 DEF AwayForAWhile
<1>5. AwayForAWhile(g, t)
  BY <1>2, <1>3, <1>4 DEF AwayForAWhile
<1> QED
  BY <1>5 DEF g

(* PutAwayForAWhile is kept by every step.                                 *)
LEMMA AwayNext ==
    ASSUME IndInv, PathInv, PutAwayForAWhile, [Next]_vars PROVE PutAwayForAWhile'
<1> SUFFICES ASSUME NEW e \in Endpoints PROVE AwayForAWhile(ep'[e], clock')
  BY DEF PutAwayForAWhile, AwayForAWhile
<1>1. ep[e] \in EpState /\ clock \in Nat /\ AwayForAWhile(ep[e], clock)
  BY DEF IndInv, TypeOK, PutAwayForAWhile, AwayForAWhile
<1>2. CASE Tick \/ UNCHANGED vars
  <2>1. ep'[e] = ep[e] /\ clock' \in {clock, clock + 1}
    BY <1>2 DEF Tick, vars
  <2>2. /\ ep[e].skipUntil \in Nat /\ ep[e].cooldownUntil \in Nat
        /\ ep[e].exhaustedUntil \in Nat
    BY <1>1 DEF EpState
  <2> QED
    BY <1>1, <2>1, <2>2, ConstantTypes DEF AwayForAWhile
<1>3. ASSUME NEW r \in Requests, Step(r) PROVE AwayForAWhile(ep'[e], clock')
  <2> DEFINE h == ep[e]
             k == CoolDown(h, r)
             f == RecordFailure(k, req[r].now)
  <2>1. clock' = clock
    BY <1>3 DEF Step, Arrive, Thread, GiveUp, PassOver, TurnTo, Send, Resend, Settle,
          Upstream, Accept, RateLimited, Fail, Body, Deliver, ClientGone
  <2>2. OnTime(r) /\ req[r].now \in Nat /\ req[r].now <= clock
    BY PathTypes DEF PathInv, PathOK, OnTime
  <2>3. Held(h) \in EpState /\ Failed(h) \in EpState /\ Served(h) \in EpState
    BY <1>1, EpUpdates
  <2>4. k \in EpState /\ AwayForAWhile(k, clock)
    BY <1>1, <2>2, CoolDownType, CoolDownAway DEF IndInv
  <2>5. f \in EpState /\ AwayForAWhile(f, clock)
    BY <1>1, <2>2, <2>4, RecordFailureType, RecordFailureAway
  <2>6. /\ AwayForAWhile(Held(h), clock) /\ AwayForAWhile(Released(h), clock)
        /\ AwayForAWhile(Failed(h), clock) /\ AwayForAWhile(Served(h), clock)
    BY <1>1, MarksAway
  <2>7. /\ AwayForAWhile(Released(Failed(h)), clock)
        /\ AwayForAWhile(Released(Served(h)), clock)
        /\ AwayForAWhile(Released(k), clock) /\ AwayForAWhile(Released(f), clock)
    BY <1>1, <2>3, <2>4, <2>5, <2>6, MarksAway
  <2>8. ep'[e] \in Updates(ep[e], r)
    BY <1>3, StepUpdates
  <2> QED
    BY <1>1, <2>1, <2>6, <2>7, <2>8 DEF Updates
<1> QED
  BY <1>2, <1>3 DEF Next, Step

(* Nothing puts an endpoint away for good: a skip window is open only      *)
(* after skip_after_failures failures with no success between, and neither *)
(* it nor a cooldown nor the exhausted mark reaches further than one       *)
(* window from now, in whatever order the failures of concurrent requests  *)
(* are recorded (set_cooldown, HealthMap::record_failure).                 *)
THEOREM AwayOnlyForAWhile == Spec => []PutAwayForAWhile
<1>1. Init => PutAwayForAWhile
  BY ConstantTypes DEF Init, PutAwayForAWhile
<1>2. IndInv /\ PathInv /\ PutAwayForAWhile /\ [Next]_vars => PutAwayForAWhile'
  BY AwayNext
<1> QED
  BY <1>1, <1>2, PathInvariance, PTL DEF Spec

(* A skip window is never shortened by a failure, however old the clock    *)
(* reading it counts from (HealthMap::record_failure): only a success, at  *)
(* that endpoint, ends it early.                                           *)
THEOREM WindowsLast == Spec => SkipWindowLasts
<1> DEFINE Lasts(h, g) == g.skipUntil < h.skipUntil => g.served = h.served + 1
<1>1. ASSUME IndInv, NEW r \in Requests, Step(r), NEW e \in Endpoints
      PROVE  Lasts(ep[e], ep'[e])
  <2> DEFINE h == ep[e]
             k == CoolDown(h, r)
             f == RecordFailure(k, req[r].now)
  <2>1. h \in EpState /\ req[r].now \in Nat
    BY <1>1, PathTypes DEF IndInv, TypeOK
  <2>2. k \in EpState /\ f \in EpState /\ Failed(h) \in EpState /\ Served(h) \in EpState
    BY <1>1, <2>1, CoolDownType, RecordFailureType, EpUpdates DEF IndInv
  <2>3. h.skipUntil \in Nat /\ h.served \in Nat
    BY <2>1 DEF EpState
  <2>4. k.skipUntil = h.skipUntil /\ k.served = h.served
    BY <2>1 DEF CoolDown, EpState
  <2> HIDE DEF h, k
  <2>5. f.skipUntil \in Nat /\ f.skipUntil >= k.skipUntil
    BY <2>1, <2>2, ConstantTypes DEF RecordFailure, EpState
  <2> HIDE DEF f
  <2>6. /\ Held(h).skipUntil = h.skipUntil /\ Failed(h).skipUntil = h.skipUntil
        /\ Served(h).served = h.served + 1
    BY <2>1 DEF Held, Failed, Served, EpState
  <2>7. \A x \in EpState : Released(x).skipUntil = x.skipUntil /\ Released(x).served = x.served
    BY DEF Released, EpState
  <2>8. ep'[e] \in Updates(h, r)
    BY <1>1, StepUpdates DEF h
  <2>9. ep'[e] \in {h, Held(h), Failed(h), Released(h), Released(Failed(h)),
                    Released(Served(h)), Released(k), Released(f)}
    BY <2>8 DEF Updates, k, f
  <2> DEFINE g == ep'[e]
  <2> HIDE DEF g
  <2>10. g = Released(Served(h)) => g.served = h.served + 1
    BY <2>2, <2>6, <2>7
  <2>11. \/ g = Released(Served(h))
         \/ g.skipUntil \in Nat /\ g.skipUntil >= h.skipUntil
    <3>1. /\ Released(h).skipUntil = h.skipUntil /\ Released(Failed(h)).skipUntil = h.skipUntil
          /\ Released(k).skipUntil = h.skipUntil /\ Released(f).skipUntil = f.skipUntil
      BY <2>1, <2>2, <2>4, <2>6, <2>7
    <3>2. /\ h.skipUntil >= h.skipUntil
          /\ f.skipUntil \in Nat /\ f.skipUntil >= h.skipUntil
      BY <2>3, <2>4, <2>5
    <3> QED
      BY <2>3, <2>6, <2>9, <3>1, <3>2 DEF g
  <2>12. g.skipUntil < h.skipUntil => g.served = h.served + 1
    BY <2>3, <2>10, <2>11
  <2> QED
    BY <2>12 DEF g, h
<1>2. ASSUME IndInv, [Next]_vars, NEW e \in Endpoints PROVE Lasts(ep[e], ep'[e])
  <2>1. CASE Tick \/ UNCHANGED vars
    <3>1. ep'[e] = ep[e] /\ ep[e].skipUntil \in Nat
      BY <1>2, <2>1 DEF Tick, vars, IndInv, TypeOK, EpState
    <3> QED
      BY <3>1
  <2> QED
    BY <1>1, <1>2, <2>1 DEF Next, Step
<1>3. IndInv /\ [Next]_vars =>
        [\A e \in Endpoints : ep'[e].skipUntil < ep[e].skipUntil =>
            ep'[e].served = ep[e].served + 1]_vars
  BY <1>2
<1> QED
  BY <1>3, Invariance, PTL DEF Spec, SkipWindowLasts

-----------------------------------------------------------------------------
(* What is counted: the in-flight marks of the endpoints, the process       *)
(* counters and the failures of the endpoints.                              *)

(* A set that gains or loses one member gains or loses one in size.        *)
LEMMA CountJoin ==
    ASSUME NEW S, IsFiniteSet(S), NEW T, NEW r, T \ {r} = S \ {r},
           r \notin S, r \in T
    PROVE  Cardinality(T) = Cardinality(S) + 1
<1>1. T = S \cup {r}
  OBVIOUS
<1> QED
  BY <1>1, FS_AddElement

(* The sets that are counted are finite.                                   *)
LEMMA FiniteViews ==
    /\ IsFiniteSet(Finished) /\ IsFiniteSet(Finished')
    /\ \A e : IsFiniteSet(Holding(e)) /\ IsFiniteSet(Holding(e)')
<1>1. /\ Finished \subseteq Requests /\ Finished' \subseteq Requests
      /\ \A e : Holding(e) \subseteq Requests /\ Holding(e)' \subseteq Requests
  BY DEF Finished, Holding
<1> QED
  BY <1>1, ConfigAssumption, FS_Subset

(* The views change in the stepping thread alone.                          *)
LEMMA ViewFrame ==
    ASSUME IndInv, NEW r \in Requests, Step(r)
    PROVE  /\ Finished' \ {r} = Finished \ {r}
           /\ \A e : Holding(e)' \ {r} = Holding(e) \ {r}
<1>1. \A x \in Requests \ {r} : req'[x] = req[x]
  BY OneThread DEF Step
<1> QED
  BY <1>1 DEF Finished, Holding, Cur

-----------------------------------------------------------------------------
(* In flight                                                               *)

(* The mark of an endpoint moves with the stepping thread: up when it      *)
(* comes to the endpoint, down when it leaves.                             *)
Moves(r, e) ==
    \/ /\ ep'[e].inFlight = ep[e].inFlight
       /\ r \in Holding(e)' <=> r \in Holding(e)
    \/ /\ ep'[e].inFlight = ep[e].inFlight + 1
       /\ r \notin Holding(e) /\ r \in Holding(e)'
    \/ /\ ep'[e].inFlight = ep[e].inFlight - 1
       /\ r \in Holding(e) /\ r \notin Holding(e)'

(* What each update of an endpoint's record does to the mark.              *)
LEMMA MarkUpdates ==
    ASSUME NEW h \in EpState
    PROVE  /\ Held(h).inFlight = h.inFlight + 1
           /\ Released(h).inFlight = h.inFlight - 1
           /\ Failed(h).inFlight = h.inFlight
           /\ Served(h).inFlight = h.inFlight
           /\ \A r : CoolDown(h, r).inFlight = h.inFlight
           /\ \A now : RecordFailure(h, now).inFlight = h.inFlight
BY DEF EpState, Held, Released, Failed, Served, CoolDown, RecordFailure

(* Every way out of an attempt takes one from the mark.                    *)
LEMMA LeaveUpdates ==
    ASSUME TypeOK, NEW h \in EpState, NEW r \in Requests
    PROVE  /\ Released(Failed(h)).inFlight = h.inFlight - 1
           /\ Released(Served(h)).inFlight = h.inFlight - 1
           /\ Released(CoolDown(h, r)).inFlight = h.inFlight - 1
           /\ Released(RecordFailure(CoolDown(h, r), req[r].now)).inFlight = h.inFlight - 1
<1>1. Failed(h) \in EpState /\ Served(h) \in EpState /\ CoolDown(h, r) \in EpState
  BY EpUpdates, CoolDownType
<1>2. req[r].now \in Nat
  BY DEF TypeOK, ReqState
<1>3. RecordFailure(CoolDown(h, r), req[r].now) \in EpState
  BY <1>1, <1>2, RecordFailureType
<1>4. /\ Failed(h).inFlight = h.inFlight /\ Served(h).inFlight = h.inFlight
      /\ CoolDown(h, r).inFlight = h.inFlight
  BY MarkUpdates
<1>5. RecordFailure(CoolDown(h, r), req[r].now).inFlight = h.inFlight
  BY <1>1, <1>4, MarkUpdates
<1> QED
  BY <1>1, <1>3, <1>4, <1>5, MarkUpdates

(* A step of a request moves the mark of an endpoint as it moves its own   *)
(* attempt.                                                                *)
LEMMA StepMoves ==
    ASSUME IndInv, NEW r \in Requests, Step(r), NEW e \in Endpoints
    PROVE  Moves(r, e)
<1>0. /\ req[r] \in ReqState /\ ep[e] \in EpState
      /\ ep \in [Endpoints -> EpState] /\ req \in [Requests -> ReqState]
      /\ r \in Holding(e) <=> req[r].pc \in Busy /\ Cur(r) = e
      /\ r \in Holding(e)' <=> req'[r].pc \in Busy /\ Cur(r)' = e
  BY DEF IndInv, TypeOK, Holding
<1>1. CASE Arrive(r)
  <2>1. req[r].pc = "idle" /\ ep' = ep /\ req'[r].pc \in {"done", "choose"}
    <3>1. PICK pin \in Pins, session \in Sessions \cup {NoSession} :
            \E p \in Orderings(Situation(pin, session)) : Asked(r, pin, session, p)
      BY <1>1 DEF Arrive
    <3>2. PICK p \in Orderings(Situation(pin, session)) : Asked(r, pin, session, p)
      BY <3>1
    <3> DEFINE asked == [req[r] EXCEPT !.now = clock, !.pin = pin, !.session = session,
                                       !.plan = p]
    <3>3. /\ [asked EXCEPT !.pc = "done", !.answer = "503"].pc = "done"
          /\ [asked EXCEPT !.pc = "choose"].pc = "choose"
      BY <1>0 DEF ReqState
    <3>4. \/ req'[r] = [asked EXCEPT !.pc = "done", !.answer = "503"]
          \/ req'[r] = [asked EXCEPT !.pc = "choose"]
      BY <1>0, <3>2 DEF Asked
    <3> HIDE DEF asked
    <3>5. req'[r].pc \in {"done", "choose"}
      BY <3>3, <3>4
    <3> QED
      BY <1>1, <3>5 DEF Arrive
  <2> QED
    BY <1>0, <2>1 DEF Moves, Busy
<1>2. CASE GiveUp(r) \/ PassOver(r) \/ TurnTo(r)
  <2>1. req[r].pc \notin Busy /\ req'[r].pc \notin Busy /\ ep' = ep
    BY <1>0, <1>2 DEF GiveUp, PassOver, TurnTo, Busy, ReqState
  <2> QED
    BY <1>0, <2>1 DEF Moves
<1>3. CASE Send(r)
  <2>1. /\ req[r].pc \notin Busy /\ req'[r].pc \in Busy /\ Cur(r)' = Cur(r)
        /\ ep' = [ep EXCEPT ![Cur(r)] = Held(@)]
    BY <1>0, <1>3 DEF Send, Sent, Busy, Cur, ReqState
  <2> QED
    BY <1>0, <2>1, MarkUpdates DEF Moves
<1>4. CASE Resend(r)
  <2>1. /\ req[r].pc \in Busy /\ req'[r].pc \in Busy /\ Cur(r)' = Cur(r)
        /\ ep' = ep
    BY <1>0, <1>4 DEF Resend, Sent, Busy, Cur, ReqState
  <2> QED
    BY <1>0, <2>1 DEF Moves
<1>5. CASE RateLimited(r)
  <2> DEFINE n == NextCandidate(req[r], Cur(r))
             p == [req[r] EXCEPT !.pc = "wait", !.tries = @ + 1,
                                 !.attempts = @ \cup {Cur(r)}]
  <2>1. n.pc = "choose"
    BY <1>0, <1>5, CurType, NextCandidateType DEF RateLimited, Turned, Busy, IndInv, PlanIndexed
  <2>2. p.pc = "wait" /\ p.plan = req[r].plan /\ p.idx = req[r].idx
    BY <1>0 DEF ReqState
  <2>3. /\ req[r].pc = "sent"
        /\ \/ req'[r] = n /\ ep' = [ep EXCEPT ![Cur(r)] = Released(Failed(@))]
           \/ req'[r] = p /\ ep' = [ep EXCEPT ![Cur(r)] = Failed(@)]
    BY <1>0, <1>5 DEF RateLimited
  <2> HIDE DEF n, p
  <2>4. CASE req'[r] = n /\ ep' = [ep EXCEPT ![Cur(r)] = Released(Failed(@))]
    <3>1. req[r].pc \in Busy /\ req'[r].pc \notin Busy
      BY <2>1, <2>3, <2>4 DEF Busy
    <3> QED
      BY <1>0, <2>4, <3>1, LeaveUpdates DEF Moves, IndInv
  <2>5. CASE req'[r] = p /\ ep' = [ep EXCEPT ![Cur(r)] = Failed(@)]
    <3>1. req[r].pc \in Busy /\ req'[r].pc \in Busy /\ Cur(r)' = Cur(r)
      BY <2>2, <2>3, <2>5 DEF Busy, Cur
    <3> QED
      BY <1>0, <2>5, <3>1, MarkUpdates DEF Moves
  <2> QED
    BY <2>3, <2>4, <2>5
<1>6. CASE \E status \in Statuses : Fail(r, status)
  <2>1. /\ req[r].pc \in Busy /\ req'[r].pc \in Busy /\ Cur(r)' = Cur(r)
        /\ ep' = [ep EXCEPT ![Cur(r)] = Failed(@)]
    BY <1>0, <1>6 DEF Fail, Busy, Cur, ReqState
  <2> QED
    BY <1>0, <2>1, MarkUpdates DEF Moves
<1>7. CASE Settle(r)
  <2> DEFINE h == CoolDown(ep[Cur(r)], r)
             n == NextCandidate(req[r], Cur(r))
             p == [req[r] EXCEPT !.pc = "done", !.answer = "client",
                                 !.attempts = @ \cup {Cur(r)}]
  <2>1. n.pc = "choose" /\ p.pc = "done"
    BY <1>0, <1>7, CurType, NextCandidateType DEF Settle, Turned, Busy, IndInv, PlanIndexed, ReqState
  <2>2. /\ req[r].pc = "cooling" /\ req'[r] \in {n, p}
        /\ ep' \in {[ep EXCEPT ![Cur(r)] = Released(h)],
                    [ep EXCEPT ![Cur(r)] = Released(RecordFailure(h, req[r].now))]}
    BY <1>0, <1>7 DEF Settle
  <2> HIDE DEF n, p
  <2>3. req[r].pc \in Busy /\ req'[r].pc \notin Busy
    BY <2>1, <2>2 DEF Busy
  <2> QED
    BY <1>0, <2>2, <2>3, LeaveUpdates DEF Moves, IndInv
<1>8. CASE Accept(r)
  <2>1. /\ req[r].pc \in Busy /\ req'[r].pc \in Busy /\ Cur(r)' = Cur(r)
        /\ ep' = ep
    BY <1>0, <1>8 DEF Accept, Busy, Cur, ReqState
  <2> QED
    BY <1>0, <2>1 DEF Moves
<1>9. CASE Deliver(r)
  <2>1. /\ req[r].pc \in Busy /\ req'[r].pc \notin Busy
        /\ ep' = [ep EXCEPT ![Cur(r)] = Released(Served(@))]
    BY <1>0, <1>9 DEF Deliver, Busy, ReqState
  <2> QED
    BY <1>0, <2>1, LeaveUpdates DEF Moves, IndInv
<1>10. CASE ClientGone(r)
  <2>1. /\ req[r].pc \in Busy /\ req'[r].pc \notin Busy
        /\ ep' = [ep EXCEPT ![Cur(r)] = Released(@)]
    BY <1>0, <1>10 DEF ClientGone, Busy, ReqState
  <2> QED
    BY <1>0, <2>1, MarkUpdates DEF Moves
<1> QED
  BY <1>1, <1>2, <1>3, <1>4, <1>5, <1>6, <1>7, <1>8, <1>9, <1>10
     DEF Step, Thread, Upstream, Body

(* InFlightExact is kept by every step.                                    *)
LEMMA InFlightStep == IndInv /\ InFlightExact /\ [Next]_vars => InFlightExact'
<1> SUFFICES ASSUME IndInv, InFlightExact, [Next]_vars, NEW e \in Endpoints
             PROVE  ep'[e].inFlight = Cardinality(Holding(e)')
  BY DEF InFlightExact
<1>1. /\ ep[e].inFlight = Cardinality(Holding(e)) /\ ep[e].inFlight \in Int
      /\ IsFiniteSet(Holding(e)) /\ IsFiniteSet(Holding(e)')
      /\ Cardinality(Holding(e)') \in Nat
  BY FiniteViews, FS_CardinalityType DEF IndInv, TypeOK, EpState, InFlightExact
<1>2. CASE Tick \/ UNCHANGED vars
  <2>1. ep' = ep /\ req' = req
    BY <1>2 DEF Tick, vars
  <2> QED
    BY <1>1, <2>1 DEF Holding, Cur
<1>3. ASSUME NEW r \in Requests, Step(r)
      PROVE  ep'[e].inFlight = Cardinality(Holding(e)')
  <2>1. Moves(r, e) /\ Holding(e)' \ {r} = Holding(e) \ {r}
    BY <1>3, StepMoves, ViewFrame
  <2>2. CASE r \in Holding(e)' <=> r \in Holding(e)
    <3>1. Holding(e)' = Holding(e)
      BY <2>1, <2>2
    <3> QED
      BY <1>1, <2>1, <2>2, <3>1 DEF Moves
  <2>3. CASE r \notin Holding(e) /\ r \in Holding(e)'
    <3>1. Cardinality(Holding(e)') = Cardinality(Holding(e)) + 1
      BY <1>1, <2>1, <2>3, CountJoin
    <3> QED
      BY <1>1, <2>1, <2>3, <3>1 DEF Moves
  <2>4. CASE r \in Holding(e) /\ r \notin Holding(e)'
    <3>1. Cardinality(Holding(e)) = Cardinality(Holding(e)') + 1
      BY <1>1, <2>1, <2>4, CountJoin
    <3> QED
      BY <1>1, <2>1, <2>4, <3>1 DEF Moves
  <2> QED
    BY <2>2, <2>3, <2>4
<1> QED
  BY <1>2, <1>3 DEF Next, Step

(* InFlightExact holds at the start.                                       *)
LEMMA InFlightInit == Init => InFlightExact
<1> SUFFICES ASSUME Init, NEW e \in Endpoints
             PROVE  ep[e].inFlight = Cardinality(Holding(e))
  BY DEF InFlightExact
<1>1. Holding(e) = {}
  BY DEF Init, Idle0, Holding, Busy
<1> QED
  BY <1>1, FS_EmptySet DEF Init

(* The in-flight mark of an endpoint is exactly the number of attempts     *)
(* that are there, whichever way the others ended (InFlightGuard and its   *)
(* Drop, src/state.rs): no exit of the candidate loop leaks one.           *)
THEOREM InFlightIsExact == Spec => []InFlightExact
<1>1. Init => InFlightExact
  BY InFlightInit
<1>2. IndInv /\ InFlightExact /\ [Next]_vars => InFlightExact'
  BY InFlightStep
<1> QED
  BY <1>1, <1>2, Invariance, PTL DEF Spec

-----------------------------------------------------------------------------
(* The process counters                                                    *)

Total == statics.proxied + statics.errors

(* A thread that finishes is counted in the same step, and only then.      *)
Counts(r) ==
    \/ /\ Total' = Total
       /\ r \in Finished' <=> r \in Finished
    \/ /\ Total' = Total + 1
       /\ r \notin Finished /\ r \in Finished'

(* What each counter adds to the requests that were counted.               *)
LEMMA CounterUpdates ==
    ASSUME NEW c \in Counters
    PROVE  /\ c.proxied + c.errors \in Nat
           /\ [c EXCEPT !.retries = @ + 1].proxied = c.proxied
           /\ [c EXCEPT !.retries = @ + 1].errors = c.errors
           /\ [c EXCEPT !.errors = @ + 1].proxied + [c EXCEPT !.errors = @ + 1].errors
                = c.proxied + c.errors + 1
           /\ [c EXCEPT !.proxied = @ + 1].proxied + [c EXCEPT !.proxied = @ + 1].errors
                = c.proxied + c.errors + 1
BY DEF Counters

(* A step counts a request exactly when it finishes it.                    *)
LEMMA StepCounts ==
    ASSUME IndInv, NEW r \in Requests, Step(r) PROVE Counts(r)
<1>0. /\ req[r] \in ReqState /\ req \in [Requests -> ReqState] /\ statics \in Counters
      /\ r \in Finished <=> req[r].pc = "done"
      /\ r \in Finished' <=> req'[r].pc = "done"
  BY DEF IndInv, TypeOK, Finished
<1>1. CASE Arrive(r)
  <2>1. PICK pin \in Pins, session \in Sessions \cup {NoSession} :
          \E p \in Orderings(Situation(pin, session)) : Asked(r, pin, session, p)
    BY <1>1 DEF Arrive
  <2>2. PICK p \in Orderings(Situation(pin, session)) : Asked(r, pin, session, p)
    BY <2>1
  <2> DEFINE asked == [req[r] EXCEPT !.now = clock, !.pin = pin, !.session = session,
                                     !.plan = p]
  <2>3. /\ [asked EXCEPT !.pc = "done", !.answer = "503"].pc = "done"
        /\ [asked EXCEPT !.pc = "choose"].pc = "choose"
    BY <1>0 DEF ReqState
  <2>4. \/ /\ req'[r] = [asked EXCEPT !.pc = "done", !.answer = "503"]
           /\ statics' = [statics EXCEPT !.errors = @ + 1]
        \/ req'[r] = [asked EXCEPT !.pc = "choose"] /\ statics' = statics
    BY <1>0, <2>2 DEF Asked
  <2>5. req[r].pc = "idle"
    BY <1>1 DEF Arrive
  <2> HIDE DEF asked
  <2> QED
    BY <1>0, <2>3, <2>4, <2>5, CounterUpdates DEF Counts, Total
<1>2. CASE GiveUp(r)
  <2>1. /\ req[r].pc = "choose" /\ req'[r].pc = "done"
        /\ statics' = [statics EXCEPT !.errors = @ + 1]
    BY <1>0, <1>2 DEF GiveUp, ReqState
  <2> QED
    BY <1>0, <2>1, CounterUpdates DEF Counts, Total
<1>3. CASE \/ PassOver(r) \/ TurnTo(r) \/ Resend(r) \/ Accept(r)
           \/ \E status \in Statuses : Fail(r, status)
  <2>1. req[r].pc # "done" /\ req'[r].pc # "done" /\ statics' = statics
    <3>1. CASE PassOver(r)
      BY <1>0, <3>1 DEF PassOver, ReqState
    <3>2. CASE Resend(r)
      BY <1>0, <3>2 DEF Resend, Sent, ReqState
    <3>3. CASE Accept(r)
      BY <1>0, <3>3 DEF Accept, ReqState
    <3>4. CASE \E status \in Statuses : Fail(r, status)
      BY <1>0, <3>4 DEF Fail, ReqState
    <3>5. CASE TurnTo(r)
      BY <1>0, <3>5 DEF TurnTo, ReqState
    <3> QED
      BY <1>3, <3>1, <3>2, <3>3, <3>4, <3>5
  <2> QED
    BY <1>0, <2>1 DEF Counts, Total
<1>4. CASE Send(r)
  <2>1. req[r].pc = "ready" /\ req'[r].pc = "sent" /\ statics' = statics
    BY <1>0, <1>4 DEF Send, Sent, ReqState
  <2> QED
    BY <1>0, <2>1 DEF Counts, Total
<1>5. CASE RateLimited(r)
  <2> DEFINE n == NextCandidate(req[r], Cur(r))
             p == [req[r] EXCEPT !.pc = "wait", !.tries = @ + 1,
                                 !.attempts = @ \cup {Cur(r)}]
  <2>1. n.pc = "choose" /\ p.pc = "wait"
    BY <1>0, <1>5, CurType, NextCandidateType
       DEF RateLimited, Turned, Busy, IndInv, PlanIndexed, ReqState
  <2>2. req[r].pc = "sent" /\ req'[r] \in {n, p}
        /\ statics' = [statics EXCEPT !.retries = @ + 1]
    BY <1>0, <1>5 DEF RateLimited
  <2> HIDE DEF n, p
  <2> QED
    BY <1>0, <2>1, <2>2, CounterUpdates DEF Counts, Total
<1>6. CASE Settle(r)
  <2> DEFINE n == NextCandidate(req[r], Cur(r))
             p == [req[r] EXCEPT !.pc = "done", !.answer = "client",
                                 !.attempts = @ \cup {Cur(r)}]
  <2>1. n.pc = "choose" /\ p.pc = "done"
    BY <1>0, <1>6, CurType, NextCandidateType DEF Settle, Turned, Busy, IndInv, PlanIndexed, ReqState
  <2>2. /\ req[r].pc = "cooling"
        /\ \/ req'[r] = n /\ statics' = [statics EXCEPT !.retries = @ + 1]
           \/ req'[r] = p /\ statics' = [statics EXCEPT !.errors = @ + 1]
    BY <1>0, <1>6 DEF Settle
  <2> HIDE DEF n, p
  <2> QED
    BY <1>0, <2>1, <2>2, CounterUpdates DEF Counts, Total
<1>7. CASE Deliver(r) \/ ClientGone(r)
  <2>1. /\ req[r].pc = "body" /\ req'[r].pc = "done"
        /\ statics' = [statics EXCEPT !.proxied = @ + 1]
    BY <1>0, <1>7 DEF Deliver, ClientGone, ReqState
  <2> QED
    BY <1>0, <2>1, CounterUpdates DEF Counts, Total
<1> QED
  BY <1>1, <1>2, <1>3, <1>4, <1>5, <1>6, <1>7 DEF Step, Thread, Upstream, Body

(* CountedOnce is kept by every step.                                      *)
LEMMA CountedStep == IndInv /\ CountedOnce /\ [Next]_vars => CountedOnce'
<1> SUFFICES ASSUME IndInv, CountedOnce, [Next]_vars
             PROVE  Total' = Cardinality(Finished')
  BY DEF CountedOnce, Total
<1>1. /\ Total = Cardinality(Finished)
      /\ IsFiniteSet(Finished) /\ IsFiniteSet(Finished')
  BY FiniteViews DEF CountedOnce, Total
<1>2. CASE Tick \/ UNCHANGED vars
  <2>1. statics' = statics /\ req' = req
    BY <1>2 DEF Tick, vars
  <2> QED
    BY <1>1, <2>1 DEF Finished, Total
<1>3. ASSUME NEW r \in Requests, Step(r) PROVE Total' = Cardinality(Finished')
  <2>1. Counts(r) /\ Finished' \ {r} = Finished \ {r}
    BY <1>3, StepCounts, ViewFrame
  <2>2. CASE Total' = Total /\ (r \in Finished' <=> r \in Finished)
    <3>1. Finished' = Finished
      BY <2>1, <2>2
    <3>2. Cardinality(Finished') = Cardinality(Finished)
      BY <3>1
    <3> QED
      BY <1>1, <2>2, <3>2
  <2>3. CASE Total' = Total + 1 /\ r \notin Finished /\ r \in Finished'
    <3>1. Cardinality(Finished') = Cardinality(Finished) + 1
      BY <1>1, <2>1, <2>3, CountJoin
    <3> QED
      BY <1>1, <2>3, <3>1
  <2> QED
    BY <2>1, <2>2, <2>3 DEF Counts
<1> QED
  BY <1>2, <1>3 DEF Next, Step

(* CountedOnce holds at the start.                                         *)
LEMMA CountedInit == Init => CountedOnce
<1> SUFFICES ASSUME Init PROVE CountedOnce
  OBVIOUS
<1>1. Finished = {}
  BY DEF Init, Idle0, Finished
<1> QED
  BY <1>1, FS_EmptySet DEF Init, CountedOnce

(* Every finished request was counted exactly once, as proxied or as an    *)
(* error, on every way out of proxy() (Statics, src/proxy.rs).             *)
THEOREM CountedExactlyOnce == Spec => []CountedOnce
<1>1. Init => CountedOnce
  BY CountedInit
<1>2. IndInv /\ CountedOnce /\ [Next]_vars => CountedOnce'
  BY CountedStep
<1> QED
  BY <1>1, <1>2, Invariance, PTL DEF Spec

-----------------------------------------------------------------------------
(* The failures of the endpoints against the retries of the process        *)

Failures == [e \in Endpoints |-> ep[e].failed]

Unretried == {r \in Requests : req[r].answer = "client" \/ req[r].pc = "cooling"}

OneFailed(r) ==
    /\ Cur(r) \in Endpoints
    /\ \A e \in Endpoints :
          ep'[e].failed = IF e = Cur(r) THEN ep[e].failed + 1 ELSE ep[e].failed

NoneFailed == \A e \in Endpoints : ep'[e].failed = ep[e].failed

(* A step counts a failure as a retry in the same step, or leaves it to be *)
(* settled; what is settled becomes a retry or stays with the client.      *)
Tallies(r) ==
    \/ /\ NoneFailed /\ statics'.retries = statics.retries
       /\ r \in Unretried' <=> r \in Unretried
    \/ /\ OneFailed(r) /\ statics'.retries = statics.retries + 1
       /\ r \notin Unretried /\ r \notin Unretried'
    \/ /\ OneFailed(r) /\ statics'.retries = statics.retries
       /\ r \notin Unretried /\ r \in Unretried'
    \/ /\ NoneFailed /\ statics'.retries = statics.retries + 1
       /\ r \in Unretried /\ r \notin Unretried'

(* What each update of an endpoint's record does to its failures.          *)
LEMMA FailureUpdates ==
    ASSUME TypeOK, NEW h \in EpState, NEW r \in Requests
    PROVE  /\ Held(h).failed = h.failed /\ Released(h).failed = h.failed
           /\ Failed(h).failed = h.failed + 1
           /\ Released(Failed(h)).failed = h.failed + 1
           /\ Released(Served(h)).failed = h.failed
           /\ Released(CoolDown(h, r)).failed = h.failed
           /\ Released(RecordFailure(CoolDown(h, r), req[r].now)).failed = h.failed
<1>1. /\ Held(h).failed = h.failed /\ Released(h).failed = h.failed
      /\ Failed(h).failed = h.failed + 1 /\ Served(h).failed = h.failed
      /\ CoolDown(h, r).failed = h.failed
  BY DEF EpState, Held, Released, Failed, Served, CoolDown
<1>2. Failed(h) \in EpState /\ Served(h) \in EpState /\ CoolDown(h, r) \in EpState
  BY EpUpdates, CoolDownType
<1>3. req[r].now \in Nat
  BY DEF TypeOK, ReqState
<1>4. /\ RecordFailure(CoolDown(h, r), req[r].now) \in EpState
      /\ RecordFailure(CoolDown(h, r), req[r].now).failed = h.failed
  BY <1>1, <1>2, <1>3, RecordFailureType DEF RecordFailure, EpState
<1>5. \A x \in EpState : Released(x).failed = x.failed
  BY DEF EpState, Released
<1> QED
  BY <1>1, <1>2, <1>4, <1>5

(* Every step of a request tallies.                                        *)
LEMMA StepTallies ==
    ASSUME IndInv, NEW r \in Requests, Step(r) PROVE Tallies(r)
<1>0. /\ req[r] \in ReqState /\ req \in [Requests -> ReqState]
      /\ ep \in [Endpoints -> EpState] /\ statics \in Counters /\ TypeOK
      /\ r \in Unretried <=> req[r].answer = "client" \/ req[r].pc = "cooling"
      /\ r \in Unretried' <=> req'[r].answer = "client" \/ req'[r].pc = "cooling"
      /\ req[r].answer # "none" =>
            (req[r].pc = "body" /\ req[r].answer = "ok") \/ req[r].pc = "done"
  BY DEF IndInv, TypeOK, AnswerPlaced, Unretried
<1>r. /\ [statics EXCEPT !.retries = @ + 1].retries = statics.retries + 1
      /\ [statics EXCEPT !.errors = @ + 1].retries = statics.retries
      /\ [statics EXCEPT !.proxied = @ + 1].retries = statics.retries
  BY <1>0 DEF Counters
<1>1. CASE Arrive(r)
  <2>1. PICK pin \in Pins, session \in Sessions \cup {NoSession} :
          \E p \in Orderings(Situation(pin, session)) : Asked(r, pin, session, p)
    BY <1>1 DEF Arrive
  <2>2. PICK p \in Orderings(Situation(pin, session)) : Asked(r, pin, session, p)
    BY <2>1
  <2> DEFINE asked == [req[r] EXCEPT !.now = clock, !.pin = pin, !.session = session,
                                     !.plan = p]
  <2>3. /\ [asked EXCEPT !.pc = "done", !.answer = "503"].pc = "done"
        /\ [asked EXCEPT !.pc = "done", !.answer = "503"].answer = "503"
        /\ [asked EXCEPT !.pc = "choose"].pc = "choose"
        /\ [asked EXCEPT !.pc = "choose"].answer = req[r].answer
    BY <1>0 DEF ReqState
  <2>4. \/ /\ req'[r] = [asked EXCEPT !.pc = "done", !.answer = "503"]
           /\ statics' = [statics EXCEPT !.errors = @ + 1]
        \/ req'[r] = [asked EXCEPT !.pc = "choose"] /\ statics' = statics
    BY <1>0, <2>2 DEF Asked
  <2>5. req[r].pc = "idle" /\ ep' = ep
    BY <1>1 DEF Arrive
  <2> HIDE DEF asked
  <2> QED
    BY <1>0, <1>r, <2>3, <2>4, <2>5 DEF Tallies, NoneFailed
<1>2. CASE GiveUp(r)
  <2>1. /\ req[r].pc = "choose" /\ req'[r].pc = "done" /\ req'[r].answer = "502"
        /\ statics' = [statics EXCEPT !.errors = @ + 1] /\ ep' = ep
    BY <1>0, <1>2 DEF GiveUp, ReqState
  <2> QED
    BY <1>0, <1>r, <2>1 DEF Tallies, NoneFailed
<1>3. CASE PassOver(r) \/ TurnTo(r) \/ Resend(r)
  <2>1. /\ req[r].pc \in {"choose", "wait"} /\ req'[r].pc \in {"choose", "ready", "sent"}
        /\ req'[r].answer = req[r].answer /\ statics' = statics /\ ep' = ep
    <3>1. CASE PassOver(r)
      BY <1>0, <3>1 DEF PassOver, ReqState
    <3>2. CASE Resend(r)
      BY <1>0, <3>2 DEF Resend, Sent, ReqState
    <3>3. CASE TurnTo(r)
      BY <1>0, <3>3 DEF TurnTo, ReqState
    <3> QED
      BY <1>3, <3>1, <3>2, <3>3
  <2> QED
    BY <1>0, <2>1 DEF Tallies, NoneFailed
<1>4. CASE Accept(r)
  <2>1. /\ req[r].pc = "sent" /\ req'[r].pc = "body"
        /\ req'[r].answer \in {"ok", req[r].answer} /\ statics' = statics /\ ep' = ep
    BY <1>0, <1>4 DEF Accept, ReqState
  <2> QED
    BY <1>0, <2>1 DEF Tallies, NoneFailed
<1>5. CASE Send(r)
  <2>1. /\ req[r].pc = "ready" /\ req'[r].pc = "sent" /\ req'[r].answer = req[r].answer
        /\ statics' = statics /\ ep' = [ep EXCEPT ![Cur(r)] = Held(@)]
    BY <1>0, <1>5 DEF Send, Sent, ReqState
  <2>2. NoneFailed
    BY <1>0, <2>1, FailureUpdates DEF NoneFailed
  <2> QED
    BY <1>0, <2>1, <2>2 DEF Tallies
<1>6. CASE RateLimited(r)
  <2> DEFINE n == NextCandidate(req[r], Cur(r))
             p == [req[r] EXCEPT !.pc = "wait", !.tries = @ + 1,
                                 !.attempts = @ \cup {Cur(r)}]
  <2>0. req[r].pc = "sent" /\ Cur(r) \in Endpoints
    BY <1>0, <1>6, CurType DEF RateLimited, Turned, Busy
  <2>1. /\ n.pc = "choose" /\ n.answer = req[r].answer
        /\ p.pc = "wait" /\ p.answer = req[r].answer
    BY <1>0 DEF NextCandidate, ReqState
  <2>2. /\ req'[r] \in {n, p} /\ statics' = [statics EXCEPT !.retries = @ + 1]
        /\ \/ ep' = [ep EXCEPT ![Cur(r)] = Released(Failed(@))]
           \/ ep' = [ep EXCEPT ![Cur(r)] = Failed(@)]
    BY <1>0, <1>6 DEF RateLimited
  <2>3. OneFailed(r)
    BY <1>0, <2>0, <2>2, FailureUpdates DEF OneFailed
  <2> HIDE DEF n, p
  <2> QED
    BY <1>0, <1>r, <2>0, <2>1, <2>2, <2>3 DEF Tallies
<1>7. CASE \E status \in Statuses : Fail(r, status)
  <2>0. req[r].pc = "sent" /\ Cur(r) \in Endpoints
    BY <1>0, <1>7, CurType DEF Fail, Turned, Busy
  <2>1. /\ req'[r].pc = "cooling" /\ statics' = statics
        /\ ep' = [ep EXCEPT ![Cur(r)] = Failed(@)]
    BY <1>0, <1>7 DEF Fail, ReqState
  <2>2. OneFailed(r)
    BY <1>0, <2>0, <2>1, FailureUpdates DEF OneFailed
  <2> QED
    BY <1>0, <2>0, <2>1, <2>2 DEF Tallies
<1>8. CASE Settle(r)
  <2> DEFINE h == CoolDown(ep[Cur(r)], r)
             n == NextCandidate(req[r], Cur(r))
             p == [req[r] EXCEPT !.pc = "done", !.answer = "client",
                                 !.attempts = @ \cup {Cur(r)}]
  <2>0. req[r].pc = "cooling" /\ Cur(r) \in Endpoints
    BY <1>0, <1>8, CurType DEF Settle, Turned, Busy
  <2>1. n.pc = "choose" /\ n.answer = req[r].answer /\ p.answer = "client"
    BY <1>0 DEF NextCandidate, ReqState
  <2>2. /\ ep' \in {[ep EXCEPT ![Cur(r)] = Released(h)],
                    [ep EXCEPT ![Cur(r)] = Released(RecordFailure(h, req[r].now))]}
        /\ \/ req'[r] = n /\ statics' = [statics EXCEPT !.retries = @ + 1]
           \/ req'[r] = p /\ statics' = [statics EXCEPT !.errors = @ + 1]
    BY <1>0, <1>8 DEF Settle
  <2>3. NoneFailed
    BY <1>0, <2>0, <2>2, FailureUpdates DEF NoneFailed
  <2> HIDE DEF n, p
  <2> QED
    BY <1>0, <1>r, <2>0, <2>1, <2>2, <2>3 DEF Tallies
<1>9. CASE Deliver(r) \/ ClientGone(r)
  <2>1. /\ req[r].pc = "body" /\ req'[r].pc = "done"
        /\ req'[r].answer \in {"ok", "cut", req[r].answer}
        /\ statics' = [statics EXCEPT !.proxied = @ + 1]
        /\ \/ ep' = [ep EXCEPT ![Cur(r)] = Released(Served(@))]
           \/ ep' = [ep EXCEPT ![Cur(r)] = Released(@)]
    BY <1>0, <1>9 DEF Deliver, ClientGone, ReqState
  <2>2. NoneFailed
    BY <1>0, <2>1, FailureUpdates DEF NoneFailed
  <2> QED
    BY <1>0, <1>r, <2>1, <2>2 DEF Tallies
<1> QED
  BY <1>1, <1>2, <1>3, <1>4, <1>5, <1>6, <1>7, <1>8, <1>9
     DEF Step, Thread, Upstream, Body

(* One more failure adds one to the sum of the failures.                   *)
LEMMA FailuresSum ==
    ASSUME TypeOK, TypeOK'
    PROVE  /\ SumFunction(Failures) \in Int
           /\ NoneFailed => SumFunction(Failures)' = SumFunction(Failures)
           /\ \A r : OneFailed(r) =>
                        SumFunction(Failures)' = SumFunction(Failures) + 1
<1> DEFINE f == Failures
           g == Failures'
<1>1. /\ DOMAIN f = Endpoints /\ \A e \in Endpoints : f[e] = ep[e].failed /\ f[e] \in Int
      /\ DOMAIN g = Endpoints /\ \A e \in Endpoints : g[e] = ep'[e].failed /\ g[e] \in Int
  BY DEF TypeOK, EpState, Failures
<1>2. /\ SumFunction(Failures) = SumFunctionOnSet(f, Endpoints)
      /\ SumFunction(Failures)' = SumFunctionOnSet(g, Endpoints)
  BY <1>1 DEF SumFunction
<1> HIDE DEF f, g
<1>3. IsFiniteSet(Endpoints)
  BY ConfigAssumption
<1>4. SumFunctionOnSet(f, Endpoints) \in Int
  BY <1>1, <1>3, SumRemove
<1>5. NoneFailed => SumFunctionOnSet(g, Endpoints) = SumFunctionOnSet(f, Endpoints)
  BY <1>1, <1>3, SumSame DEF NoneFailed
<1>6. ASSUME NEW r, OneFailed(r)
      PROVE  SumFunctionOnSet(g, Endpoints) = SumFunctionOnSet(f, Endpoints) + 1
  <2> DEFINE e == Cur(r)
  <2>1. /\ e \in Endpoints /\ g[e] = f[e] + 1
        /\ \A x \in Endpoints \ {e} : g[x] = f[x]
    BY <1>1, <1>6 DEF OneFailed
  <2> HIDE DEF e
  <2>2. SumFunctionOnSet(g, Endpoints) = SumFunctionOnSet(f, Endpoints) + (g[e] - f[e])
    BY <1>1, <1>3, <2>1, SumChange
  <2> QED
    BY <1>1, <1>4, <2>1, <2>2
<1> QED
  BY <1>2, <1>4, <1>5, <1>6

(* FailuresAccounted is kept by every step.                                *)
LEMMA FailuresStep == IndInv /\ FailuresAccounted /\ [Next]_vars => FailuresAccounted'
<1> DEFINE sum == SumFunction(Failures)
<1> SUFFICES ASSUME IndInv, FailuresAccounted, [Next]_vars
             PROVE  sum' = statics'.retries + Cardinality(Unretried')
  BY DEF FailuresAccounted, Failures, Unretried
<1>1. /\ sum = statics.retries + Cardinality(Unretried)
      /\ TypeOK /\ TypeOK' /\ statics.retries \in Nat
  BY NextIndInv DEF IndInv, TypeOK, Counters, FailuresAccounted, Failures, Unretried
<1>2. /\ IsFiniteSet(Unretried) /\ IsFiniteSet(Unretried')
      /\ Cardinality(Unretried) \in Nat /\ Cardinality(Unretried') \in Nat
  <2>1. Unretried \subseteq Requests /\ Unretried' \subseteq Requests
    BY DEF Unretried
  <2> QED
    BY <2>1, ConfigAssumption, FS_Subset, FS_CardinalityType
<1>3. /\ sum \in Int /\ NoneFailed => sum' = sum
      /\ \A r : OneFailed(r) => sum' = sum + 1
  BY <1>1, FailuresSum
<1> HIDE DEF sum
<1>4. CASE Tick \/ UNCHANGED vars
  <2>1. ep' = ep /\ req' = req /\ statics' = statics
    BY <1>4 DEF Tick, vars
  <2> QED
    BY <1>1, <1>3, <2>1 DEF NoneFailed, Unretried
<1>5. ASSUME NEW r \in Requests, Step(r)
      PROVE  sum' = statics'.retries + Cardinality(Unretried')
  <2>1. Tallies(r)
    BY <1>5, StepTallies
  <2>2. Unretried' \ {r} = Unretried \ {r}
    <3>1. \A x \in Requests \ {r} : req'[x] = req[x]
      BY <1>5, OneThread DEF Step
    <3> QED
      BY <3>1 DEF Unretried
  <2>3. CASE r \in Unretried' <=> r \in Unretried
    <3>1. Unretried' = Unretried
      BY <2>2, <2>3
    <3>2. Cardinality(Unretried') = Cardinality(Unretried)
      BY <3>1
    <3> QED
      BY <1>1, <1>2, <1>3, <2>1, <2>3, <3>2 DEF Tallies
  <2>4. CASE r \notin Unretried /\ r \in Unretried'
    <3>1. Cardinality(Unretried') = Cardinality(Unretried) + 1
      BY <1>2, <2>2, <2>4, CountJoin
    <3> QED
      BY <1>1, <1>2, <1>3, <2>1, <2>4, <3>1 DEF Tallies
  <2>5. CASE r \in Unretried /\ r \notin Unretried'
    <3>1. Cardinality(Unretried) = Cardinality(Unretried') + 1
      BY <1>2, <2>2, <2>5, CountJoin
    <3> QED
      BY <1>1, <1>2, <1>3, <2>1, <2>5, <3>1 DEF Tallies
  <2> QED
    BY <2>3, <2>4, <2>5
<1> QED
  BY <1>4, <1>5 DEF Next, Step

(* FailuresAccounted holds at the start: a sum of zeros is 0.              *)
LEMMA FailuresInit == Init => FailuresAccounted
<1> SUFFICES ASSUME Init
             PROVE  SumFunction(Failures) = statics.retries + Cardinality(Unretried)
  BY DEF FailuresAccounted, Failures, Unretried
<1> DEFINE zero == [e \in Endpoints |-> 0]
<1>1. Failures = zero /\ statics.retries = 0 /\ Unretried = {}
  BY DEF Init, Idle0, Failures, Unretried
<1>2. SumFunctionOnSet(zero, Endpoints) = 0
  BY ConfigAssumption, SumOfZeros
<1>3. SumFunction(zero) = 0
  BY <1>2 DEF SumFunction
<1> HIDE DEF zero
<1> QED
  BY <1>1, <1>3, FS_EmptySet

(* The failures in the endpoints' statistics are the retries of the        *)
(* process counter, but for those that were the client's to see or are     *)
(* being settled (record_error, src/state.rs; Statics, src/proxy.rs), over *)
(* any number of endpoints and requests and in any interleaving.           *)
THEOREM FailuresAreAccounted == Spec => []FailuresAccounted
<1>1. Init => FailuresAccounted
  BY FailuresInit
<1>2. IndInv /\ FailuresAccounted /\ [Next]_vars => FailuresAccounted'
  BY FailuresStep
<1> QED
  BY <1>1, <1>2, Invariance, PTL DEF Spec
=============================================================================
