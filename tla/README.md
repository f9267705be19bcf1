# ar-ocg-router: a verification development

The router is a local gateway in front of several LLM endpoints: prepaid *plans* and
pay-as-you-go *cash* endpoints. It decides where each request goes, fails over, counts what every
request cost, and derives from that count which plan to spend next. This directory holds TLA+
models of that program, the TLC configurations that check them and the theorems TLAPS proves of
them. `PROJECT.json` maps every definition to the lines it models, lists the runs, the mutants that
show each property can fail, the hazards and the findings.

## Inventory

Paths are under `src/`. Every component is listed, modelled or not.

| Component | State | Operations | What makes it correct | Module |
| --- | --- | --- | --- | --- |
| Routing decision (`router.rs`) | none of its own | `Router::plan`, `bucket_accounts`, `classify_plan`, `rule_matches` | one candidate list, in the documented order; nobody enabled is lost, nobody disabled is kept | `RoutePlan`, `RouteLoop` |
| Request path (`proxy.rs`) | the locals of a connection thread: clock reading, plan, index, attempts, retries | `proxy`, `handle_upstream_error`, `maybe_cooldown`, `deliver_success` | every request ends, is answered once and counted once; marks go on every path | `Proxy` |
| Health, affinity, endpoint runtime (`router.rs`, `state.rs`) | cooldown, in-flight mark; streak, skip window; session to endpoint | `set_cooldown`, `in_flight_guard`, `record_failure`, `record_success`, `put`, `get` | marks are exact; an endpoint is put away for a while, not for good; a session stays where it was served | `Proxy` (partly: no size limit of the affinity map, no operator commands) |
| Usage ledger (`state.rs`) | samples in the order recorded, totals, window starts | `add_sample`, `cost_since`, `merge`, `roll` | it answers with what was spent, across restarts | `Ledger` |
| Quota report and calibration (`state.rs`, `api.rs`) | reading, derivation, reference, exhausted mark | `report`, `mark_exhausted`, the seven stages of `calibrate_endpoint` | the level is the provider's; exhausted when the allowance is gone | `Allowance` (partly: no projection, tokens or rounding) |
| Quota probes (`quota.rs`) | last answer, back-off | `refresh_usage`, `refresh_balance` | a plan that is dry is seen to be | `Allowance` (partly: no balance) |
| Registry (`state.rs`) | runtimes by name, quota cells by allowance | `get_or_create_in_group`, `retain`, restores | endpoints of one credential share one budget, across reloads | `ConfigStore` (partly: not the sharing itself) |
| Statistics and daily history (`state.rs`, `api.rs`) | counters; buckets by day and endpoint | `record`, `backfill`, `prune`, `totals`, `reset_stats` | each request is in its day once, with its usage | `Persistence`, `UsageHistory` (partly: not by endpoint) |
| State file (`persist.rs`) | dirty flag, file, temporary file | `write`, `snapshot`, `save`, `load`, `spawn_flusher` | a restart neither doubles nor loses; the file is never half a file | `Persistence`, `AtomicFile` (partly: three of the parts of a snapshot) |
| Configuration reload (`proxy.rs`) | config, account list, watcher's signature | `reload`, watcher | the live configuration is the file's | `ConfigStore` |
| Console API (`api.rs`) | | saves, toggles, copies, restore, calibration, reset | an edit changes what it says and nothing else | `ConfigStore`, `Allowance`, `Persistence` (partly) |
| Backups (`configbackup.rs`) | files | `create`, `restore`, `delete`, `write` | what was replaced can be brought back | `ConfigStore` (partly: no pruning) |
| Parser and writer (`config.rs`, `configwrite.rs`) | none | `parse`, `doc_to_yaml`, `build_doc` | what is written reads back | `ConfigText` (partly: no syntax) |
| Connection server (`main.rs`, `httpd.rs`) | number of connections, stop flag; buffer of a connection | accept, serve, shut down | the limit holds and is given back; answers are framed | `ConnServer` (partly: no HTTP syntax, no size limits) |
| Stream scanner (`sse.rs`) | line buffer, last usage | `feed`, `finish` | usage does not depend on how the stream is cut | `UsageScanner` |
| Calendar (`timeutil.rs`) | none | civil dates, cycles, peak windows | cycles tile time; the next change is one | `TimeUtil` (partly: no parsing) |
| Presets, console files, log, service | none that matters | text, static files, system calls | | not modelled |

**How they interact.** A connection thread runs `proxy` for its request, from the clock reading on
entry to the last byte. Threads meet only in shared state: the atomics of an endpoint's runtime, the
quota cell (one mutex per allowance), the health and affinity maps (one mutex each), the process
counters (atomics), and the pair of configuration and account list (two locks). Background threads
refresh quota readings, watch the configuration file and flush the state file every five seconds
when it is marked dirty. The console edits the configuration through the same locks.

**What is hard.** Several requests at once against the same marks; a clock reading that is old when
it is used; deliveries that end in another order than they began; a snapshot copied in parts; the
retry loop inside the candidate loop with a budget over both; reloads that overtake each other, and
edits made of what was shown a while ago; readings of two counters that are never taken at one
moment; windows that close between two readings; requests sent ahead on a connection whose answers
may break off; restarts between any two of those steps.

## The modules

| Module | Models | Its variables, in the code |
| --- | --- | --- |
| `RoutePlan` | the routing decision as an order between candidates | none: one record, the *situation*, holds what the decision reads |
| `RouteLoop` | the two passes, the set of added names and the affinity move that compute it | `candidates`: the list being built |
| `RouteLoopProofs` | theorems about `RouteLoop` and `RoutePlan` | |
| `Proxy` | the request path | `ep`: `AccountRuntime` and `EndpointHealth` of each endpoint; `affinity`; `statics`: the counters; `req`: the locals of each thread |
| `ProxyProofs` | theorems about `Proxy` | |
| `Ledger` | ledger, windows, their copies and the file | `samples`, `total`, `windows`; `flush`: what the flusher has copied; `file`; `recorded`: all samples of this process, for the properties |
| `LedgerProofs` | theorems about `Ledger` | |
| `Allowance` | what the router believes of one plan, and what the provider counts | `ledger`, `windows`, `reading`, `cal`, `remote`, `until`, `probeAfter`: `QuotaState`; `quota`, `rate`: the configuration; `unseen`, `provider`: the provider's side |
| `AtomicRegister` | what an atomic replacement promises | `value`: what a reader of the file gets; `offer`: what each thread is saving |
| `AtomicFile` | the steps of `persist::save` (and of the two configuration writers) on names and inodes | `path`, `tmp`: the two names; `text`, `synced`: the inodes; `saver`: the locals of each save |
| `Persistence` | totals in memory, the dirty flag, the threads that copy and save them, restarts | `mem`: statistics, ledger and history; `dirty`: `DIRTY`; `req`, `copy`, `reset`: the locals of connection threads, writers and the reset; `value`: the file |
| `PersistenceProofs` | theorems about `Persistence` | |
| `ConfigText` | a configuration read, shown, edited, written and exported | none: operators |
| `ConfigStore` | file, backups, live configuration, registry, and who changes them | `file`, `backups`; `cfg`, `accounts`: `AppState`; `registry`: `Registry.map`; `seen`: the watcher's signature; `job`: the locals of each thread |
| `ConfigStoreProofs` | theorems about `ConfigStore` | |
| `TimeUtil` | civil dates, billing cycles, peak windows, the next change | none: operators |
| `UsageScanner` | the line buffer of `sse.rs` | none: operators on the scanner's record |
| `UsageHistory` | days, retention, boundary, backfill and the console's periods, along a walk through the calendar | `days`, `policy`, `prunedOn`: `UsageHistory`; `stream`: a delivery; `counted`: the requests, those with tokens being the ledger's samples; `today`: the date by counting |
| `HistoryProofs` | theorems about `UsageHistory` and its calendar, and about `AtomicFile` | |
| `ConnServer` | accept loop, connection threads, framing | `active`; `backlog`; `conn`: the locals of each thread, and the wire; `up`: `SHUTDOWN` |
| `ConnServerProofs` | theorems about `ConnServer` | |
| `FoldFacts` | lemmas the proofs share: sums and folds over finite sets and sequences | |
| `MC...` | instances for TLC | |

`Proxy` extends `RoutePlan` and takes every candidate list from it. `RouteLoop` shows that the
code's loop computes that order (`LoopIsOrdering`, proved), so the request path may be checked against the
short definition. `Persistence` extends `AtomicRegister` and takes its file to be that register;
`AtomicFile` implements the register (`ImplementsRegister`), so the first may be checked without
inodes. `ConfigStore` replaces its file in one step for the same reason, and extends `ConfigText`.
`UsageHistory` extends `TimeUtil` and `UsageScanner`.

### Proxy

An action is a stretch a thread runs without waiting: `Arrive` (entry to candidate list), `TurnTo` (the
skip test), `Send`, `Accept`, `Deliver` and `ClientGone`, `RateLimited` with `Resend`, `Fail` with `Settle`, `PassOver`,
`GiveUp`. A failed attempt is two actions because `set_cooldown` loads in one and stores in the
other, and an attempt begins in two because what another thread learns of the endpoint between the skip
test and the send comes too late. The other shared updates of one stretch (a counter, the health map under its mutex) are one
step: nothing in the code reads two of them together on this path. `req.now` is the clock reading
of the request, `clock` the real time; the skip test, the cooldown and the skip window use the
first, as the code does. Upstream answers are classes: `AllStatuses` says which HTTP status stands
for which. The configuration is constant here; the plan is decided in one step, though the code
reads the quota report once to classify and again per bucket. Wait times count in clock units, the
budget is `attempt_budget_secs` after its lower bound of five.

### Ledger

`Stamp` is the arrival of a 2xx head, `Record` what `record_success` does under the quota lock when
the body has been forwarded. `CopyLedger` and `CopyWindowsAndSave` are the two parts of
`persist::snapshot` that concern an allowance. `Restart` may come at any time, also between them.
The token counts of a sample are one number: the code only compares them. Costs are whole units.

### AtomicFile

`Create` is `File::create` (an existing temporary file is emptied, also under a thread that has it
open), `Write` one write of `write_all` at the thread's own offset, `Sync` and `Rename` the rest of
`save`. The rename goes by name: it moves whatever the temporary name stands for. `FailSave` may end
a save at any step, `Kill` ends the process, `PowerCut` also loses what was not synced, `LoadFile` is
what a start does with a file that does not parse. A document is a number of equal blocks; a rename
is taken as durable, since nothing can be said of the file otherwise. `configbackup::write` removes
the temporary file after a failed rename; the model leaves it, as `persist::save` does.

`AtomicRegister` says what is promised: the value changes in one step to a document being saved and
no crash changes it, until two saves overlap. From then on `Scramble` allows anything: the code has
no lock there, and half a file is possible.

### Persistence

A finished request is counted by `CountStats`, `CountDay` and `CountSample`, one lock each, and marked
by `MarkDirty`. `Flush`, `ResetWrite`, `Start` and `Stop` begin a `write`; `CopyStats`, `CopyLedgers`
and `CopyHistory` are the parts of `snapshot`, in its order; `StartSave` and `EndSave` bracket `save`.
`Start` loads, restores and fills the history from the ledger (`Backfilled`); `Exit` follows the last
write, `Crash` comes at any time. A total is the set of the requests in it, except that a day of the
history is a number, because that is what a backfill could count twice. Statistics are those of one
endpoint. Left out are the other parts of the snapshot (health, process counters, calibrations; the
windows are in `Ledger`) and the retention of days.

### Allowance

The provider counts on its own: a month that follows the billing cycle and windows that open on use,
both also for requests the router never saw (`unseen`). `Send` is `record_success` on the ledger and
the windows, with the price the configured rates give; the seven stages of a calibration (`Start`,
`Cancel`, `Sync`, `Limits`, `Anchors`, `Finish`, `Verify`) are console requests in any order, and the
operator copies what the provider's console shows at that moment. `EditPlan` changes the plan value
behind a derivation's back. `ProbeAnswers` takes an answer (`bare`: without reset or status;
`spent`: with the status that says it), `ProbeFails` backs off. `MonthlyUsed`, `Pct`, `Exhausted` and
`ShownUsed` are the report and the view of the console, as operators. The ledger is the money of each
second (`Ledger` has the samples); amounts are whole numbers, and the model's one point stands for the
least movement a reading counts. Only plans with a `cycle_day` are there.

### ConfigText and ConfigStore

A setting is told apart by how it travels: shown or not, written or not, carried over or not. The console's
writer puts `headers:` at the margin for an endpoint with headers or dropped parameters (`Spills`): the two are
lost, or the text does not parse (`NestsClean`) and the call is refused. A name
is a stem with counters. `ConfigText` has the reading (`Accounts`, with the names it makes), the
console's document (`Shown`, `DocToYaml`, `PersistDoc`) and the export (`BuildDoc`). `ConfigStore` has
the threads: a console goes through the three steps of a backup (`Copy` reads the file, `ChooseName` looks
for a free name, `Put` writes; `CopyFails` at any of them), `Write` and the five steps of `reload` (`Load`,
`Build`, `Retain`, `SetConfig`, `SetAccounts`), the watcher through the last five, and an operator
writes the file by hand, also broken. The watcher compares length and second, so two texts of one
length in one second are the same to it. `overtaken` remembers whether an older reload came in last,
`owed` which texts a backup must hold, `unseen` an edit the watcher cannot notice; they are only for
the properties. The editor is shown the live configuration of the moment it saves: a page shown
earlier would only be another document.

### TimeUtil, UsageScanner, UsageHistory

A behaviour of `UsageHistory` is a walk along the calendar in fixed steps: day by day through the
146097 days of a Gregorian cycle, hour by hour through a week of schedules, day by day through two
months around a leap day, and over a turn of the year with requests, reloads and restarts. The dates
the code computes are compared with `today`, which counts by the almanac. An answer is streamed in
every way it can be cut (`Piece`) and recorded under the day its head came on. `Prune` is the flusher's,
`SetPolicy` a reload, `Restart` restores and fills from the ledger. Time is in minutes, one stream is
open at a time, walks with requests are shorter than the ledger's 31 days, `Limit` stands for the 512 KiB
of a line. The split of a day by endpoint is left out: it takes the same steps.

### ConnServer

The accept loop is one thread: `Accept` refuses, starts a thread or fails to; `Stop` ends loop and process.
A connection's thread is `reading`, writing the `head` or the `body`, or `leaving`; `Read` takes a request
(a cut one only when its stream ends or it times out), `IdleOut` and `TimeOut` are the read timeouts,
`Torn` is a failed write, after which the answer is given up and the connection is not. What was written
is the wire of the connection, a sequence of heads, pieces, last chunks and interim answers, which
`Client` reads as HTTP does. The router's work is `Proxy`; here an answer has a known length or is a stream.

## The runs

| Run | Instance | Shows |
| --- | --- | --- |
| `route_loop` | every quota class and cooling state of two plans and a cash endpoint, 12 settings, 3 orders, 8 policies, 3 filters, 4 bindings: 124416 situations | the loop is the order; last resort comes last; only surplus_first loses anybody |
| `failover` | two requests, pinned or not, a plan and a cash endpoint, transport, rate, quota and odd errors, skip after one failure, one retry | marks and counters exact, detail complete, commitment final, sends bounded, put away for a while, a skip window lasts |
| `sessions` | two requests of one session or none, rate and model errors, fair threads | every request ends |
| `ledger` | three deliveries of two costs and three sizes, two windows, four ticks, a cap of two samples, four old files | nothing invented, only the old forgotten, only the overtaken missed, no sample outruns its window |
| `atomic_file` | two threads, a document of two blocks and one of one, four inodes (two names and two open files) | until two saves overlap, the file is the register |
| `persistence` | a request of a file without history and a new one on the same day, a reset, two lives of the process (`MaxStarts`), two threads writing at once (`MaxWriting`) | samples were counted, nothing doubled, a reset stays, what was marked gets saved, the file never goes back |
| `allowance` | a plan probed or calibrated, four console calls, three requests and one unseen, five moments with a cycle boundary before the third and a window of three | the level is the provider's, totals are right or absent, windows are never low, a dry plan is seen |
| `config` | three endpoints, one unnamed, one with headers; two acts (calls, hand edits, restarts) with their reloads; namesakes that drop parameters, and a broken text, by hand; two seconds | the live configuration is the file's, what was replaced is kept, edits are refused or local, the export reads back |
| `history` | the walks above, 2 boundaries, 2 retentions, two streams | dates are the almanac's, cycles tile, the next change is one, each request in its day once with its usage, periods match |
| `connections` | a client that sends up to two requests of all kinds, and a silent one, for one slot; threads that cannot be started; a stop | slots are exact, answers are framed, every connection ends |

**Bounds.** Two endpoints are enough for one to be tried after the other, and for a mark to be left
on the one the thread moved away from; the third candidate repeats the second. Two requests are the
least that race; what more would add is a sum, and the theorems cover any number. The clock bound
lets a cooldown, a skip window and the budget end within a run. In the ledger two samples fill the
cap and the third drives one out; three ticks pass a window of two and a retention of two. Two blocks
are enough for a document to be half written or half covered. In `persistence` two starts make one
restart after which a backfill could count again, and of the three writers no more than two need meet
for a save to tear or to be overtaken. In `allowance` four calls are two derivations, or a derivation with the plan value edited
and a sync or the edit undone after it; a boundary before the third moment lets a reference grow old and a window
be crossed within one cycle; the fourth request could not be told from the third. In `config` two acts are
the least that overtake each other, and the second of two edits of one second. A week has every pair
of weekday and minute a schedule knows, a Gregorian cycle every date. Two requests on a connection are
the least of which the second can be read as part of the first one's answer.

**Deadlock** is not checked where a run may stop because all requests have ended or the clock or the
acts have reached their bound.

**Fairness.** Run `sessions`: a thread that can go on does (the operating system schedules it), and an
upstream wait ends, because `httpclient::agent` sets a read timeout and the client socket has a
write timeout. Nothing is assumed of `Arrive` or of the clock. An upstream that goes on sending a
body for ever is excluded: nothing in the code would end it. Run `connections`: the accept loop and the
threads are scheduled, the loop polls a listener that does not block, and every read and write of a socket
has a timeout. The timeout is one per read (src/httpd.rs:156), so a client that sends one byte before each of them runs out keeps
its thread for as long as it likes; in the model a read brings a whole request or what the client will ever send of it,
and such a client is not in it. Clients and the service manager need do nothing; a client that goes on asking is
bounded by `MaxRequests`, and would rightly stay.

## Where code and documentation disagree

Two runs have a single property that says what a text says, and TLC violates it.

| Run | The text | The code |
| --- | --- | --- |
| `cooldown_race` | a refused key rests for `auth_cooldown_secs` (docs/routing.md:38) | a failure racing with it stores the shorter rest over the longer one |
| `plan_of_its_key` | two credentials are two plans (src/proxy.rs:119) | a runtime keeps the allowance it was made with when the key of its endpoint changes |

Others were met while modelling. The models have the code's behaviour; no run is spent on them.

Request path and routing:

- docs/configuration.md:442, a pinned failure is not counted against the skip streak: `record_failure` is
  called for pinned requests too (`Settle`).
- docs/routing.md:43, "5xx, timeout, connection failure": "short cooldown": the cooldown counts from the
  request's entry, so after a timeout it is over before it is set; and 5xx other than 500, 502, 503,
  504 and 529 go to the client (`Verdict`).
- docs/routing.md:40, "a quota-shaped error ... try the next": a 402 is returned to the client and does
  not mark the plan (`Verdict`, `CoolDown`).
- docs/routing.md:22, the second pass "adds everything still usable": an exhausted plan is in no bucket
  of surplus_first (`OnlySurplusFirstLoses` says that nothing else is lost).
- src/config.rs:586, affinity "only honoured while the endpoint is healthy": a cooling endpoint is
  promoted (`Promoted`; `LastResortComesLast` excepts the session's own endpoint for that reason).
- docs/routing.md:46 names a `max_attempts` no code has.

Ledger, quota and calibration:

- src/state.rs:386, `cost_since` is what was consumed since a moment: it stops at the last record with an
  older stamp and hides the younger ones before it (`MissedOnlyWhenOvertaken` says which).
- src/state.rs:460, "identical in every field": `merge` does not compare the cost (`SameKey`).
- src/state.rs:546, a window "opens at the first request": at the delivery that ends first (`Record`).
- src/state.rs:850 and :1040, five-hour and weekly amounts "stay rolling sums": with a `cycle_day` the closure
  at :1000 sums all three from the start of the billing cycle (`LocalUsed`), so a plan with such a limit
  and no probe reads as exhausted from mid-cycle until the next one.
- src/state.rs:618 and :632, a verification moves the time and percentage of the reference and leaves the money
  level: the level drops by what was spent in between (`Verify`; the properties ask for `~cal.moved`).
- docs/configuration.md:331, "at this percentage the plan stops being preferred": only when the five-hour
  window has a figure (src/state.rs:1051; `Exhausted`).
- docs/configuration.md:266, editing the plan value sets a derivation aside "until a fresh calibration replaces it": a
  sync afterwards, which measures no totals, brings it back under the new value with the totals of the old one
  (src/state.rs:1405; `Sync`). `TotalsRight` therefore asks for the plan value the totals were derived for.
- The derivation of `finish` is not marked to be saved (`Finish`); a crash before something else is loses it.

State file and history:

- src/persist.rs:152, "serialise + atomic replace": two saves share a temporary name; the second empties what
  the first is about to rename, and a crash then leaves half a file (`Scramble`).
- src/api.rs:182, without the write "a crash before the flush would otherwise bring the old totals
  back": a flusher that copied before the reset and saves after it brings them back, and so does a
  failed save (`ResetSticks` excepts both).
- src/api.rs:174, "concurrent traffic cannot have incremented the counter" between the reset and the
  store of zero: nothing keeps it from doing so.
- src/persist.rs:241, "a restart can neither double-count nor lose a request": a stop waits for no
  connection thread, so what is counted after the last copy is lost (`Stop`, `Gone`).
- src/persist.rs:238, "a consistent snapshot": the parts are copied under separate locks. What is
  consistent across them is `SamplesWereCounted`.
- src/persist.rs:307, "one final write when the process is asked to stop": only the Windows service manager
  asks (src/service.rs:244); a signal ends the process without it.
- src/state.rs:1717, history is filled with "whatever the sample ledger still remembers": a backfill
  runs once per allowance and skips days that have a bucket, so of two allowances with samples on
  the same day of an old file only the first is counted (`Backfilled`; the instance has one).
- src/state.rs:2346, a backfill "cannot double-count": after the boundary of a day was changed, a restart files
  samples of a day that is there under one that is not (`HistoryIsTruth` asks for `~moved`).
- A schedule that is always at peak reports a next change in eight days (src/timeutil.rs:394; `NextChange`).
- A line of a stream over 512 KiB loses its usage (`Fits`).

Configuration:

- Two reloads at once: the older may install last, or drop the runtimes of the newer (src/proxy.rs:97;
  `FileIsTruth` excepts both). Two consoles at once: one edit is lost (src/api.rs:948).
- The watcher does not see a change of the same length in the same second, nor one made before its first
  look, and a load that failed is not tried again.
- src/api.rs:336, "anything the console can save is something the router can load", and src/api.rs:664, "nested maps
  start clean on the next line": `headers:` is written at the margin (src/api.rs:665) for an endpoint with headers or with
  dropped parameters, the folded common ones among them. At the end of a section, once, the settings are lost; otherwise the
  save, toggle or copy is refused (`Spills`, `NestsClean`; `EditsAreLocal` asks that nothing else is lost).
- src/configbackup.rs:57, "Never overwrites": two consoles that copy with one tag in one second may both find a name
  free before either has written it, and the second copy replaces the first (`ChooseName`, `Put`; `ReplacedIsKept`
  excepts the two). The run has one console; the theorem has any number and the exception.
- A console's save drops `anthropic_url`, `server.stream` and `log.quiet`, folds the common list of dropped
  parameters into each endpoint's and renumbers orders (`DocToYaml`); the export drops `enabled: false`, prices, the output
  limit and the rules of plans (`AccountToYaml`), though a test is named `round_trip_preserves_every_field`
  (src/configwrite.rs:624). Enabling an endpoint whose rule is `never` has no effect (`IsEnabled`).

Connections:

- A thread that cannot be started keeps its slot for good (src/main.rs:466; `unborn`), so that "excess
  connections get 503" (docs/configuration.md:477) with fewer than `max_connections` served.
- In HTTP/1.0 with `Connection: keep-alive` the answer says `close` (src/httpd.rs:395) and the connection stays
  open until the idle timeout; a stream then has no end a client could see. A HEAD is answered by 405 with a body,
  though src/webui.rs:102 has code for it. After a write that failed the connection is kept (`Torn`).
  `AnswersAreFramed` excepts the three.
- Headers cut off by the end of the stream are served as a whole request (`Read`).

## What is proved

`RouteLoopProofs` proves, for any endpoints, any number of them, and any rules, quotas, cooldowns and policies:

- `PlanIsTheOrdering`: the two passes and the affinity move give exactly one list, the one `RoutePlan` states;
- `LastResortsComeLast`, `NothingElseIsLost`: what the documentation says of last resorts, and its one exception.

The argument follows the loop. A round of `bucket_accounts` lists its bucket by `order:` and position
(`ListedIsRight`); a list built round by round without repeats holds its members as they were first met
(`AddedAsMet`); of two candidates the one met first is the one with the lower standing, or the same and listed before
(`MetIsPrecedes`, over `RoundsHold`: which rounds an endpoint is in); the affinity move takes the bound endpoint over
all others (`Fronted`). Any list of the same members in the same strict order is that list
(`OrderingIsUnique`, by the first place at which two would differ). `SituationsAssumption` is what the registry gives:
no two endpoints share a position, and a session is bound to one at most. That the set of orderings
has a member needs the loop, and that it has no other needs only the order.

`ProxyProofs` proves, for any finite sets of requests and endpoints and any
configuration that meets `ConfigAssumption`:

- `TypeCorrect`: `Spec => []TypeOK`;
- `Committed`: an answered request is not answered again and sends nothing more;
- `InFlightIsExact`: the in-flight mark of an endpoint is the number of attempts there;
- `CountedExactlyOnce`: proxied and errors together count the finished requests;
- `FailuresAreAccounted`: the failures counted over all endpoints and the rate limits tried again are the sum of what the
  requests met.

**The invariant.** `TypeOK` is not inductive alone: a thread turns to `plan[idx]`, so the index must
be within the plan while a thread holds an endpoint (`PlanIndexed`), and an answer may be there only
when the body has begun or the request is done (`AnswerPlaced`). `IndInv` is the three together;
`Orderings` enters only as a set of sequences of endpoints (`OrderingsType`), so
the proof does not depend on the routing policy. Each action changes one request and at most one
endpoint; the proofs of steps say so once (`EpUpdates`, `ReqIndInv`) and go through the actions.
The two counting theorems are about cardinalities: a request enters or leaves `Holding(e)` or
`Finished` exactly where a mark or a counter moves by one, and a mark is never that of an endpoint
other than `Cur(r)`. They use `IndInv` and the library's facts on finite sets. `FailuresAreAccounted` is about two sums,
one over endpoints and one over requests: every action changes at most one term of each, by the same amount (`SumChange` of
`FoldFacts`).

`FoldFacts` has what the sums and the folds need. An induction theorem that takes a predicate cannot be used here, so an
induction is over a set of good values (`InductionUpTo`, `InductionOnSets`: a least counterexample). A fold is a
`CHOOSE` of a recursive function, so it must first be shown to exist (`FoldExists`, `SolutionExists`); then a sum changes
by what one of its terms changes, splits with its set and does not depend on the order it is taken in.

`HistoryProofs` proves of `AtomicFile`, for any set of threads and inodes and documents of any length that meet
`FileAssumption`:

- `FileTypeCorrect`: `FileSpec => []FileTypeOK`;
- `SavesAreAtomic`: `FileSpec => ImplementsRegister`, that is, initial states map to initial states
  and every step to a step of the register or a stutter.

`FileInv` is the invariant: a thread's place in the save fits its locals (`SaverOK`), the two names
are never one inode (`NamesApart`), and while no saves have overlapped there is at most one saver, the
temporary name stands for its inode, which holds exactly the blocks written so far and is synced
before the rename (`OneSaver`), and the target is a whole, synced document (`TargetSafe`). Without
`OneSaver` a rename could publish half a document; without `TargetSafe` a power cut could change the
value. After an overlap only the types matter, and every step is a `Scramble`.

From the same assumptions and on top of `IndInv`, `ProxyProofs` proves of the way of a request:

- `SendsAreAllowed`, `AttemptsAreExplained`: what a request has sent and which candidates its failure
  detail names;
- `AwayOnlyForAWhile`, `WindowsLast`: how far the marks reach, and that no failure shortens a skip window.

Its `PathInv` says of one request what the others cannot disturb: its plan has no candidate twice and
holds only what a pin allows (`PlanIsSound`), it was sent only to candidates it has turned to, and to the
present one once per try (`SendsPlaced`), every candidate behind the index has its entry and none ahead of it
(`Explained`), and its clock reading is not of the future (`OnTime`). `SendsAllowed` alone is not inductive: the retries
of a candidate are counted from zero, so it must be met only once in a plan. The steps are first reduced to four turns (`StepIsTurn`: sent, stays, moves on, ends), and the
invariant is proved per turn. `PutAwayForAWhile` needs `OnTime`:
what counts from a reading that is not of the future reaches no further than what counts from now.

`ConnServerProofs` proves, for any connections and any limit, `TypeCorrect` and `SlotsExact`: `active` is the
number of connection threads, plus the slots of threads that could not be started, and within the limit. The
invariant adds that a connection waits in the backlog once and has no thread while it does (`BacklogWaits`), or else it
could take two slots, and that no answer is under way for a request that was not taken (`TakenWereSent`).

- `AnswersFramed`: `AnswersAreFramed`. What a client makes of the wire is a fold over its symbols; `ReadsOn` says that
  one symbol more is one step more. `FramedInv` then has the reader in step with the thread: while it reads requests the
  client waits for the next head, after `100 Continue` too; when it has sent the head the client is inside that answer, in the
  framing its head announced (`InStep`). It may be out of step only after a write that failed (`torn`) or an answer of
  the two kinds listed as divergences (`Odd`), and both stay so for the life of the connection.

`PersistenceProofs` proves, for any finite set of requests, any days, allowances and bounds that meet
`PersistenceAssumption` and `FileAssumption`:

- `NothingIsDoubled`, `TheFileNeverGoesBack`, `TheResetSticks`, `QuietIsSaved`: the properties of the run;
- `SamplesAreCounted`: `SamplesWereCounted`, for an old file that is `OldFileIsFillable`;
- `UsesTheRegister`: every step changes the file as `AtomicRegister` allows. With `SavesAreAtomic` the two
  ends meet: `Persistence` asks of the file no more than the inodes of `AtomicFile` give.

`StepIsTurn` states what each action does to documents, once; the invariants are proved per turn. `IndInv` has
the types, that no thread outlives the process (`Lives`), that a request's day counts it in one step of its
thread (`CountedInTime`), and that no document in memory, under copy, on offer or
on file counts more than was counted (`DocsWithin`). Over it stand `SamplesCovered` (each copy takes
the ledger before the history, so what it lacks of the one it lacks of the other), `OneWriter` and `FileGrows` (without an
overlap the copy of the only writer has no less than the file), `NotYet` and `ResetHolds` (what is cleared is in no
copy still to be saved), and `DoneFollows` (a finished request is in the file, or a mark or a copy is on
the way that will take it there). `OldFileIsFillable` says that on each day the old file's count covers its
samples, or it has no count and the samples are of one allowance. It is needed: `backfill` (src/state.rs:1719)
skips a day that has a bucket, so of two allowances the first one leaves the second uncounted, as listed
above. The instance of run `persistence` meets it.

`ConfigStoreProofs` proves, for any consoles, texts, names, keys and bounds that meet `ConfigStoreAssumption`:

- `ReplacedStaysKept`: every text that a call had to keep is in a backup. `KeptIsKept` follows each call
  from the copy to the write with the texts it has seen kept. A copy reads, chooses a name and writes in three steps, and
  between them anyone may copy, delete or restore: the name was free when it was chosen (`BackupNameIsFree`, a pigeonhole
  argument on the counters of `create`), and a backup written since under it is another thread's that chose it too. That
  thread's call then owes nothing: it is the exception, and among the divergences above.
- `TheFileIsTheTruth`: `OneNewest` (of the reloads under way one at most is not overtaken), `TruthOnItsWay` (what runs is what
  the file says, or the newest reload carries it, or the watcher will see it) and `OneRegistry` (until two reloads meet, the
  runtimes in use are those of the registry).
- `EditsStayLocal`: `EditsAreLocal`, and `TheExportReadsBack`: `ExportReadsBack`. An edit must succeed where no
  endpoint has headers or dropped parameters; elsewhere it may be refused, and loses at most those. Neither holds of any list of endpoints
  whatever: a list that has a name twice, or a fallback before a plan, is not read back as it is written. The invariant is
  `TextsAreSound`: the live configuration, and each that a reload is about to install, has plans before fallbacks, each with a
  name of its own, an order and a key (`IsConf`); the file, the backups and what a call is about to write are broken or
  texts. It holds since reading makes such a configuration of any text (`ParseIsConf`: a name that is taken gets a free
  counter, `FreeNameIsFree`, and the two lists are read in order, `ReadOneByOne`) and saving makes a text of any
  document the editor may send (`EditedIsDoc`, `SavedIsText`). A text that lists such accounts is read as it is
  written (`ParseAsWritten`), so a saved document reads back as its rows with the keys their placeholders stand for
  (`SavedReadsBack`), and the export as its accounts (`BuiltReadsBack`); `ToggleIsLocal`, `DuplicatedIsList` and
  `ExchangeIsLocal` are the edits.

`ConfigStoreAssumption` asks that the first texts parse, that the texts written by hand are broken or have the shape of
a text, and that no key is empty, which the parser refuses (`src/config.rs:1220`), nor the placeholder the
console shows for one.

Which entries spill to the margin is `Spills`, and which documents are YAML all the same is `NestsClean`: those
in which at most one does, with one of its two settings, as the last of its section. What such a text reads back as is
`PersistedIsCarried`.

`LedgerProofs` proves, for any windows, cap, retention and old files that meet the assumptions of `Ledger`:

- `SamplesFitTheWindows`: no sample outruns an open window. The invariant has it for three pairs: memory, the
  file, and the flusher's samples beside the windows of now (`WindowsFit`), since those are saved together; the last pair
  holds because windows only move forward, so what fitted when it was copied fits when it is saved.
- `OnlyTheOldIsForgotten`: below the cap every sample younger than the retention is there (`YoungAreThere`). It rests on
  lemmas about the operators: `CapKeepsTheNewest`, `PruneKeepsTheYoung`, and `MergeIsRight` (a merge has every key of
  its input once, in order of time; `PlacesAreTaken` shows that the ranks fill it).
- `NothingIsInvented`: `NothingInvented`, the sum of what is held never exceeds the sum of what was delivered, whatever
  merges and restarts there were; each key counts once (`SumPart`, `SumRenamed`).
- `OnlyTheOvertakenAreMissed`: `MissedOnlyWhenOvertaken`. What a start reads is in the order of its stamps, since `merge` sorts;
  so a sample behind which an older one stands was recorded since, before it, and is among `fresh` in that order.

`HistoryProofs` also proves, for any walks, anchors, peak windows, zones and streams that meet `HistoryAssumption` and
`AlmanacAssumption`:

- `TheCalendarIsTrue`: `CalendarIsTrue`. An era of 400 years is taken apart as the code does it, into centuries, blocks
  of four years, years and days (`PartsOfEra`, `YearComputed`): the divisions by 1460, 36524 and 146096 find the year on each of its
  146097 days. Both functions then give the place of a date in the years that begin on 1 March, which lie end to end
  (`YearsFollow`, `DateIsFound`), so they undo each other; `DaysFromCivil` is also the count by the lengths of years
  and months (`CountedByTheAlmanac`), and the day after a date is `NextDate` (`NextDay`).
- `TheCyclesTile`: months lie end to end (`MonthsTile`), a cycle runs from a day of one to the same day of the next or its
  last (`CycleOf`), and so the cycle before ends where this one begins.
- `TheNextChangeIsFound`: a schedule repeats after a week (`PeakIsWeekly`), so a change that is not in the next eight
  days is nowhere, and minutes between the edges of the windows decide nothing (`ChangeIsFound`).
- `ThePeriodsMatch`: the intervals of days that are summed are the dates they stand for (`PeriodsAreDays`).
- `TheHistoryIsTrue`: `HistoryIsTruth`. Of the scanner, `Scanned` says what it has made of the first symbols of a stream: its
  buffer ends the last line and is all of it unless the line is too long, and its usage is the most the ended lines report.
  One symbol more keeps that (`ScannedNext`), so does a piece of any length (`ScannedPiece`), and what is found at the end is
  what the whole text reports (`FinishedIsReported`). Of the days, `TruthAdds` says that a sample adds its report once, in
  whatever order the samples are summed; retention takes only days before the horizon, since keys in order are days in order
  (`EarlierIsBefore`, `PrunedKeeps`); and a start fills only days that have nothing, which within the horizon are none while
  the boundary is that of the samples (`RestartIsTrue`). `HistoryInv` is the invariant.

`HistoryAssumption` bounds an anchor by 1 and 31, as the parser does (`src/config.rs:1401`), and asks of `Policies` that the
retention is at least one day. `AlmanacAssumption` says that a walk begins on the date the almanac has for its first day.

**What the proofs changed in the models.** `ReplacedIsKept` was not inductive because it was not true: with a second
console a backup can be deleted between the copy and the write. A call now owes only what
is still kept when it writes. `FileIsTruth` excepted too little: an edit by hand that gives the file back,
within the second, the length the watcher knows; `unseen` now says which edits it cannot notice. `Merge` names its order by ranks, where it chose some sorted sequence. The file of an
earlier version has a type (`FileAssumption`, `OldFileAssumption`).

`Framing`, `Counted`, `Pct`, `ShownUsed`, `Anchors` and the keys of `ConfigText` had `CASE` arms that overlap. TLC takes the
first that holds, but the language leaves the choice open, so the proof of `AnswersAreFramed` could not go through: the
arms are now disjoint, or nested conditions. `RouteLoop` sorted with operators the prover cannot expand; it now names
the member that has so many before it. `ConfigText` took a section out of a list with `SelectSeq`, which it cannot expand
either; `OfKind` is a fold. The texts, names and keys of `ConfigStore` now have types.

**Model-checked only.** Liveness (`EveryRequestEnds`, `ConnectionsEnd`) is out of the prover's reach. The properties
of `Allowance` hold where the integer percentages divide exactly, as its instance has them: the code's are
floating-point numbers, and for any constants the rounding of their stand-ins would break `LevelIsProviders`,
`TotalsRight`, `WindowsNeverLow` and `DrySeen`, so there is no general theorem to prove.

## Not modelled

`PROJECT.json` lists the reason for each component. The presets, the model strings, the log, the service
integration and the console's pages have no state these properties depend on. The syntax of HTTP, YAML,
dates and schedules is text, character by character. The pruning of backups has no caller but tests. The size
limit of the affinity map only forgets, which is always allowed. The balance of a cash endpoint decides
nothing. The age at which an in-flight mark is no longer shown matters to the console alone.

## Plan

Left to model: several endpoints of one key that record into one ledger and calibrate it at once; health
and calibrations as parts of the snapshot; a run of `ConfigStore` with two consoles.

Theorems to come: of `Allowance` the types, and with fractions in place of percentages that a window never reads low.
