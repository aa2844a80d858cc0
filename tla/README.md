# Throttler: a TLA+ development

This directory models `anthropic_throttle_proxy` (called *Throttler*): an HTTP
proxy that sits between many coding-agent clients and rate-limited upstreams.
It queues requests fairly per credential, adapts the number of requests in
flight to upstream pushback, routes between accounts, waits out Retry-After
windows, and accounts for what it sends. The modules are translated from the
Python under `src/src/anthropic_throttle_proxy/`; the paths below are relative
to it. `PROJECT.json` maps every definition to the lines it stands for.

Run a model with `tlc -config <run>.cfg <module>.tla`, a proof with
`tlapm <module>.tla`.

## 1. The system and its parts

One asyncio event loop per process. Between two awaits a task runs alone, so
the unit of interleaving, here and in the modules, is the code between two
suspensions. Cancellation arrives at an await: from a queue-wait timeout
(`asyncio.wait_for`) or from the shutdown of the server. aiohttp's
`handler_cancellation` is not enabled, so a client that goes away does not
cancel its handler; it shows as an error at the next write.

| Part | State | Operations | Hard behaviour | What makes it correct |
|---|---|---|---|---|
| limiter (`limiter.py`, `FairBearerLimiter`) | per-client queues and rotations of two lanes, counters, cap, ceiling | acquire, time out, release, dispatch, shrink, grow, retune, kick | grant racing a timeout; retunes under parked calls | no slot leaks; no waiter lost, stranded or starved; limits in force are kept |
| retry probes (`limiter.py` `_RetryProbeGate`; `proxy.py` gate and slot code) | a half-open gate per bearer, a lease per call, waits | route and claim, await, verdict, escape, hold, quarantine | many exits of a call; two bearers; cancelled waits | one probe, whose success alone opens; nothing else dispatched; nobody waits for ever |
| request lifecycle (`proxy.py` `handler` … `_finalize`) | admission claims, queued and inflight in three scopes, client entries, keepalive streams | admit, hold, register, enter, give back, answer, quiesce | failure between two awaits; sibling calls | counters are what is there; a drained proxy serves nobody |
| prospective owner (`prospective_admission.py`, `ledger.py`) | ledger, its file, worker queue, permits, tickets | start, reserve, hand off, roll back, snapshot, close | a worker thread, failing saves, power loss | what was sent stays accounted, within budget, on disk |
| forwarding and retries (`forwarding.py`, `pacing.py`, `proxy.py`) | central's health, last dispatch time, free-budget units, retry counts | pick a target, pace, claim, forward, stream, retry, hold | failure after the head is sent; four layers of retries | no second response; hysteresis; budgets kept; an end |
| account routing (`proxy.py`, `account_pool.py`, `session_affinity.py`) | load and gauges per bearer, balancer's books, pins | select, begin, finish, pin | gauges and pins that change between the calls of a session | cheapest live account; sessions stay; work balanced |
| pushback feedback (`proxy.py`, `ratelimit.py`, `limiter.py` timers) | cached windows, pause, ramp, storm memory | classify, shrink, pause, glide, grow | brakes that hold each other | pushback narrows; the cap comes back |
| lane health and credentials (`proxy.py` `admission`, quarantine; `routing.py`) | window readings, quarantine in memory and on disk | note, persist, recheck, answer admission | restart; late answers; two reads | a refused account stays out, and only so long |
| ingress (`ingress.py`, `routing.py`, `active_routing.py`, `provider_registry.py`) | lane states, session pins, cooldowns, registry | poll, select, attempt, spill, queue and wait | polls overlapping requests | a servable request is served; constrained requests only on proven lanes |
| accounts (`accounts.py`) | usage and identity caches, back-off, persisted copies | refresh, verify, back off | overlapping refreshes; a token file replaced | nothing is shown for another's credential; known again |
| identity guard (`proxy.py`, `accounts.py`) | two debounce signatures, a list of verifying tasks | poll, spawn, probe, conclude, done-callback | polls and tasks write the same signatures; stores rewritten under a task | every collision seen is warned of or being verified |
| pacing of the week (`usage_allocator.py`, `proxy.py`) | seven-day readings, token buckets | pace, share, defer | rounding, pruning, restarts of a window | an honest refusal |
| free budget (`free_budget.py`) | one window per model | consult, claim | two-step consult | the budget is kept |
| body shaping (`body_shrink.py`, `routing.py`) | – | cut turns, stub blocks | pairs, anchors, the note's own size | fits, and no more is lost than must be |
| prospective runtime (`prospective_*.py`) | mode, custody, telemetry | reserve by mode, close | custody against restart | one owner per file |
| watchdog (`free_gate_watchdog.py`) | a series of scrapes | rules over the series | gaps, restarts | no alert lost, none invented |
| recorders, metrics, dashboard, pricing | rings and files | record, show | none that decides | – |
| queue-wait client (`src/clients/pi-queue-wait`) | a retry loop | send, capture, retry, wait | late captures, aborts | retries only what was proven unsent |

They interact in one process by calls and shared dictionaries. A request goes
ingress → (another process) `handler` → `_handler_core` → `_serve` (pacing
holds, route and claim) → `_pre_dispatch_gate` (windows, probes) →
`_run_slot` (register, limiter slot) → forward (pace, reserve, transport) →
`_finalize`. Upstream's answer comes back to the limiter (shrink, grow), to the
bearer's window, to its gate and to the ledgers.

`PROJECT.json` lists every component with its status and, under `hazards`, what
is hard to test in it and at which line.

## 2. Plan

Done: the core (limiter, probe gate, prospective owner, request lifecycle,
ingress), then forwarding with its retries, accounts, account routing, and the
rules around them: feedback, drain estimate, health of a lane, week, watchdog,
body cut, queue-wait client, identity guard.

Proved since: the limiter's queues and its refinement of the pool, the gate's leases,
forwarding, the lifecycle's counters, account routing and the balancer's books, the
owner's tokens, accounts, the queue-wait client, lane feedback and lane health, the
rules that compute with sums and folds (the week, the body cut, the watchdog), the drain
estimate, and the dispatcher's closed form against its loop.

Left: the cooldown table of active routing; prospective runtime modes and custody of the
state file.

## 3. Modules

### SlotPool, FairLimiter, DispatchLoop

`SlotPool` says what the limiter promises: calls wait, enter one of two pools
only while that pool is within its limit, and leave; limits change at any time
and throw nobody out. `FairLimiter` is the limiter as written. A call is
`idle`, `parked` (awaiting its future), `granted` (future resolved, task not yet
run) or `holding`; `cancelled` is the set of calls whose task has a pending
cancellation. Every method that holds the limiter's lock has no await inside,
so each is an action: `Acquire` and `AcquireUnqueued` (`acquire_lease`),
`Resume` (the awaiting task learns of its grant), `CleanUpParked` and
`CleanUpGranted` (`_cancel_cleanup`), `Release`, `Shrink`, `Grow`,
`RetuneHardMax` and `RetuneLiveFloor` (`_retune_limiter_hard_max`),
`SetReserve` and, later, `Kick`. Each ends with the dispatch the code ends with.
`SwitchMode` is `set_queue_mode`, called on a live limiter by the next request that
resolves it with another mode (`_get_bearer_limiter`). A request asks for what
`_effective_admission` says: `QUEUE_MODE`, or "fair" when that is "off" and there is a
`CENTRAL_URL`, both read from the environment once (`config.py:27`, `config.py:82`). So a
process never asks a limiter for "observe" unless it asks for nothing else; at most it
promotes one from "off" to "fair", and the way back is refused while the limiter queues
(`limiter.py:1639`). At the promotion calls are inside and nothing waits. No limiter goes
from "fair" to "observe", which would leave waiters beside free slots.

The dispatcher's loops are given in closed form (which turns of the rotation
are used up by k slots); `DispatchLoop` has the loops themselves, as functions of
the number of their rounds (`Served` is one round of `_next_waiter`), and says that
they agree in every state. It says the same of `_ahead_of`, the number a request is
refused on before it queues.

### ProbeGate

The gate's fields, the bearers' windows in ticks, and where each call's
coroutine is. `Arrive` … `Done` follow `_serve`; `Allocate`, `Escape`,
`AwaitAlternate`, `FastFail`, `Park`, `ClaimProbe`, `AwaitProbe`, `Verdict`,
`Proceed` are the branches of `_pre_dispatch_gate` and its helpers; `GiveBack`,
`Refrain`, `Dispatch`, `EnterHold`, `HeldDispatch` those of `_run_slot`;
`Served`, `Failed`, `Refused`, `Pushback`, `HeldPushback` upstream's answers.
`Recover` is the credential recheck, `UsageDecay` the clearing of a window that
fresh usage contradicts. Routing chooses any account the code may choose. The
quota meter's binding, pinned sessions and the free budget are left out;
account routing is assumed on.

### PersistenceOwner

Two processes: the loop (permits, tickets, `reserve`'s context) and the worker
thread (queue, fault barrier, ledger, file). A save is write, rename, directory
sync; `seen` is the file as the system shows it, `survivors` the images a power
loss may leave. A set of tickets stands for a set of ledger entries.

### RequestLifecycle

The claim of admission, the queued and inflight counters of process and client,
the client's entry with its `hold`, and the keepalive streams, for one bearer.
`pc` says where the call is between two suspensions. `Register` … `Finish`
follow `_run_slot`; `HoldPacing` and `Opened` the deferral holds; `OpeningFails`
and `StopCancelled` are the two exits that skip a rollback.

### Ingress

A request is `idle`, `probing`, `sent`, `sleeping` or `refused`; `turn` holds the
locals of `_forward` (its lanes tried, its retries, the lane under way, the
candidates still to probe), and `lane_state`, `session_lane`, `registered` are
the module's globals. An action is the code between two awaits, so each runs
`_next_lane` to the next send, probe or refusal: `Arrive`; `ProbeAnswers`
(`_fresh_lane_state`, whose answer may be any verdict); `LaneIsLost`,
`LaneAnswers` and `LaneIsSaturated` (`_send_upstream`, `_relay_response`,
`_spill_or_requeue`); `Wake`. `PollAnswers`, `PollFails` and `Reload` are the
health loop. A saturation's evidence (the queue-wait header or body, or a bare
429) is a boolean; with active routing any open, untried lane may rank first.
Only a polled or probed lane is ever open, so the answer for a lane without a URL cannot
come up. A refusal by the ingress itself after a lane was chosen is a terminal
answer like `LaneAnswers`. Timestamps are left out: nothing compares them.

### Forwarding

A call from its slot to its answer. `pc` is where it is between two awaits,
`stage` the layer at work (the slot's own attempt, the direct retry, the
keepalive hold), `via` the target its slot visit was given. `Dispatch`, `Ask`,
`Claim` and `Send` are pacing, budget and transport; `Relay`, `Break`,
`Throttled` and `Fail` what comes back, `HoldTurn` … `HoldFails` the hold. `Poll`
with `Healthy`, `Unhealthy` and `Struck` is central's health and its two
thresholds. Statuses are classes. `Deferred` calls (dispatched into a stream opened
before the slot) are modelled but the run has none: see section 4.

### AccountPool, AccountRouting

`AccountPool` has the balancer's books as operators on a record; `AccountRouting`
uses them. Routing is synchronous, so `Route` is one action: the pacing filter,
pin, ladder or balancer, caller's own key, API key. `ChoiceIsCheapest` states what the
ladder of pools and passes comes to, and compares it with the ladder in every state.

A bearer's limiter is reduced to what `_bearer_local_load_score` reads of it: its live
cap, which `Adapt` lowers and raises as pushback and success do, the calls that own a
slot, and those that wait. `Load` scales both by the share of the configured capacity
(`MAX_CONCURRENT` and reserve) the live cap leaves, so a bearer whose cap has been shrunk
may be full with nobody queued; `Saturated` says so without the code's scores. `Scale`
is a common multiple of the capacities, which keeps prices whole. Left open: which of the
waiting calls gets a slot, and how many of a bearer's calls use the reserve (`Granted`
allows every number between the two extremes). The limiters are in mode "fair" and
`MAX_CONCURRENT` and the reserve do not change while the process runs.

### Accounts

One account's credential file. `Refreshers` are tasks in `_refresh_one` (token
read, usage fetch, verdict), `Verifiers` in the profile check; the file is
replaced under them, endpoints fail and back off, and the process restarts from
the persisted caches. A fetch ends in a reading (`UsageRead`), in a failure the code
knows (`UsageRefused`, `UsageFailed`: it backs off), or it breaks off (`BreaksOff`): a 200
whose body is not JSON raises out of `_get_json` past everything that would record it.
Tasks are cancelled only when the process stops, which is `Restart`.

### LaneFeedback, DrainEstimate

`LaneFeedback` is the whole path from an answer's headers to the live cap:
`ApplyUnified`, `Evidence`, `PushbackPause`, `Shrink`, the ramp with its storm
memory and the floor dwell. It fills in the guard `FairLimiter`'s `Grow` leaves
open. `DrainEstimate` has the arithmetic behind a refusal at the door: what is
held, the residual of each holder, the wait of a position, and the calls that
were admitted on it.

### LaneHealth

Three layers of one question. Verdicts on credentials: `Served`, `Refused`,
`Restart` and the recheck keep `live`, `restored` and `disk` (bearer state,
`_restored_credentials`, the file). The admission endpoint: `Usable`, `Allow`,
`SoonestDue`, `WouldPark`, `AdmitsNewClient`. The ingress: `ReadHealth`, then
`ReadAdmission`, with anything in between.

### IdentityGuard

`guard_email` and `identity_state` are `Email` and `Verdict`: an email read with
the token in the store is `probed`, otherwise it is the label beside it, which a
swap of credentials (`Promote`) leaves behind. `HealthPoll` takes the verdict,
warns of what is verified and spawns a task for what is suspected; a task probes
in two passes (`Begin`, `Probe`) and warns in the step of its last probe
(`Conclude`), or breaks off with a line in the log (`BreakOff`); `Cleanup` is its
done-callback. The stores of a pass are probed in any
order. How one probe survives a token that rotates under it is in `Accounts`.

### WeeklyPacing, Watchdog, BodyFit, QueueWait

`WeeklyPacing`: the line law and the shares of projects over a week of a few
hours. `Watchdog`: the series each gate has of one bearer, the scrapes of them, and the
two rules as functions of the scrapes. Live, `Poll` takes the gates in turn and appends
what it reads to one list, as `poll` does, where the rules look at the bearer only;
rebuilt from a journal there is one gate and a scrape per line. Of the status labels of
the shrink counter a scrape keeps one: live the one that came last, in a replay the last
in order, where glides (status "util") are not counted at all (`Counted`). `BodyFit`: transcripts
that grow and are cut for either format. `QueueWait`: the JavaScript client's
loop with native retries, captures and aborts.

`Rules` puts the last eight modules, from `LaneFeedback` on, which share no state,
side by side, each with constants of its own, and states their properties; the variable
`which` says which of them moves. `MCRules` gives the constants values, adds
`RequestLifecycle` as a ninth and keeps one initial state of those that rest, so one run
explores each alone.

## 4. Runs

| Run | Question | Bounds |
|---|---|---|
| `limiter_fair` | Does the limiter implement `SlotPool`; are slots and waiters accounted for; does every waiter leave? | 3 calls, 2 clients, ceilings 1–2, reserves 0–1, the queue modes "observe", "off" and "fair" and the promotion from "off" |
| `limiter_rounds` | Is service round-robin; are closed form, loop and `_ahead_of` the same? | 5 calls, 3 clients, one ceiling; symmetric calls of one client |
| `gate_safety` | No lease or wake-up lost, leases on their route, no circular wait | 2 calls, 2 bearers, windows to 2 ticks, one streamed call, refusals |
| `gate_live` | One probe, no herd, only success opens, every gate reopens | 3 calls, 1 bearer |
| `owner` | Durability, budgets, permits, debts, closing, through faults and power loss | 3 tickets (2, 1, 1 tokens of 2), 2 permits, 2 windows |
| `lifecycle_leak` | *(violated)* Is nothing left counted when nobody is there? | 3 calls, 2 clients, one streamed, mode "fair" |
| `ingress` | Are attempts bounded, downgrades, stale proofs and unregistered lanes impossible, and does every request end? | 2 requests of 5 kinds, 2 lanes, 1 session, 1 retry, no registry and three |
| `ingress_spill` | *(violated)* Does a 503 reach the client only when no open lane is left? | 1 bulk request, its chain of 3 lanes |
| `forward` | One answer, budgets kept, each pushback fed back once, central used again, every call ends | 2 calls, one may hold; thresholds 2 and 2, 1 retry, 1 unit |
| `accounts` | Are cards true, polls spaced, and is everything known again? | 2 refreshes, 1 check, 2 versions of the file |
| `routing` | Cheapest choice, balanced books, no refused credential, sessions that stay | 2 calls, 3 sessions, 2 accounts, 5 setups of knobs, gauges and live caps, 2 pins, 4 turns of the balancer |
| `rules` | The properties of the eight modules of `Rules`, and of `RequestLifecycle` | 3 calls of 2 clients; 2 rejections and 1 native retry; transcripts of 6 turns; 4 scrapes and 3 shrinks of one gate, 5 and 1 of two; 2 slots, 4 queued; 2 pushbacks, 2 windows; a week of 3 hours, 3 projects, 2 calls; 2 accounts, 2 events; 2 stores, 2 rewritings, 2 verifiers |

Some properties are conjunctions of named parts, which say what is meant:
`WaitersAreReachable`, `LoopIsKept`, `LeasesAreKept`, `GateIsObeyed`,
`DispatchIsLawful`, `RetriesAreAccounted`, `CardsAreTrue`, `BooksAreKept`,
`BooksAreTrue`, `AlertsAreTrue`, `RefusalsAreHonest`, `LanesComeBack`.
"Variant" definitions are plausible slips; each breaks one property.

Why the bounds are enough. *Limiter*: with three calls a cancelled, a granted
and a waiting call coexist, with two clients the rotation turns, and ceilings and
reserves that go up and down put occupancy above, at and below each limit; five
calls give two rounds. *Gate*: a lease on one bearer, a wait on another and a
third state of the window (short, long, none) meet in two calls; the third call
of `gate_live` makes a waiter that loses the race for a lease. *Owner*: the
first ticket fills the token budget alone, the others the request budget
together; two permits make a reservation wait; one clock step lets debits
expire between check, cancel and restart. *Lifecycle*: siblings of a client and
a stranger; counters piled up by a leak are stopped at `MaxCount`. *Ingress*: the
five kinds are a generate, a bulk and a code request in one session (so each may
meet a pin the others made, one of them unable to be sent twice) and two
constrained ones; the chains are Anthropic first, Anthropic last and without
Anthropic; with two requests one may close, reopen or pin what the other has
read, and a registry may lose a lane during a probe. The spill needs three
lanes: one tried, one reopened above it, one open below. *Forwarding*: two calls
contend for one unit, one of them under way to central when it dies while the
other is in its direct retry; two samples make a run that one failure breaks.
*Accounts*: one refresh overtakes the other across a replaced file while a check
is out. *Routing*: a caller's own bearer beside two accounts gives every fallback
its turn, a third session evicts one of two pins, four turns bring an account out
of the pool and back. *Rules*: transcripts of six turns have a head, a dropped
pair and a tail; four scrapes hold a storm of two and a restart, five of two gates two
rounds and the first half of a third; ceilings of one
and three lie on both sides of the floor; two events make a refusal and a lost
write, a refusal and a restart, or two bearers with different locks.

The violated properties quote the repository; `PROJECT.json` has the
quotations under `findings`:

* `NothingLeaks`: `_open_deferral_hold` is awaited between the counting and the
  `try` of `_run_slot`; the run ends with a queued count of 1 and the client's entry
  (queued 1, hold 1), and nobody there. A cancellation inside `hold.stop()` skips
  `_finalize` as well.
* `SpillsDownTheChain`: `_has_spill_target` and `_select_open_lane` look at the
  first open lane of the chain only. A poll that reopens a lane the request has
  tried hides the open lanes below it, and the 503 goes to the client.

Seen on the way, without a run. *Gate and limiter*

* When every caller of a bearer streams its wait, it is served every time and
  half-open for ever (`gate_live` has callers that wait silently): `_dispatch_into_hold` (`proxy.py:6191`) never reports its
  success headers to the gate, and the lease is finished as failed, though
  `limiter.py:767` says a restart must still reopen by one probe.
* `clear_retry_probe` deletes a gate while its probe is in flight; after a
  recovery and a new window two calls hold a lease of one bearer, though
  `limiter.py:1171` says single-flight. `gate_live` is therefore without refusals.
* The no-herd half of `GateIsObeyed` is not true of streamed calls, which skip
  the recheck after the slot.
* A ceiling tuned from 4 to 1 and back with `AIMD_MIN` 2 leaves a cap below the
  floor, and the next shrink *raises* it (`limiter.py:870`); `PushbackNarrows`
  excludes that state.
* A pause stamps `_last_throttle_at` as a shrink does, so a lane that was only
  paused counts as throttled for the floor dwell (`_may_grow`).
* `_maybe_glide` keeps one debounce key: windows that alternate, or a late answer
  of an old window, shrink more than once per window (`proxy.py:564`).
* `_dispatch_into_hold` sets no `aimd_owned`, so a deferred call's pushbacks are
  fed back by the hold and by `_finalize` (comment `proxy.py:741`); `forward` has no
  such call. A cancellation during the pushback wait feeds twice as well.
* The drain estimate's promise holds for one client's queue without a shrink;
  the window-wall floor of its Retry-After is left out.

*Lifecycle and forwarding*

* `_handler_core` drops the admission claim before `handler` writes a held
  call's terminal event, so the drain counters can read zero while that write is
  owed (`BooksAreTrue` is therefore about the core).
* `_run_slot` sets `rerouted` after awaiting `_finalize`, which is sound only
  because `_finalize` never suspends.
* With both weekly deferrals a second hold overwrites the first one in the
  client's entry, and the pacing deferral is not evaluated again after it.
* Once a stream is committed, a break in `_pipe_sse_upstream` is still retried
  directly, which writes a second body on the same event stream
  (`StreamCommittedError`'s docstring, `_retry_direct_once`).
* A hold whose Retry-After reaches its deadline sends one more attempt; attempts
  of a hold claim no free-budget unit; a hold's transport failure through central
  does not mark central down.
* `budget_blocks`' docstring says a budget pushback never shrinks;
  `_aimd_apply_pushback` shrinks on it.

*Accounts, routing, lane health*

* A token that rotates during a usage poll has the old one's numbers shown
  for the new file until the next poll.
* A usage answer of 200 that is not JSON leaves neither reading nor backoff
  (`_get_json` catches timeouts and `ClientError`, `accounts.py:929`), so that the next
  refresh fetches at once. `PollsAreSpaced` counts from the last fetch that was
  recorded; the others it holds to one at a time.
* "No numbers" (`CardsAreTrue`) is of the endpoint's cache: for a refused credential the
  panel falls back to what the bearer's own responses said (`accounts.py:422`).
* The weekly-pacing filter moves pinned sessions (against `session_affinity.py:9`),
  drops live accounts that are ahead even when the others are dead, and makes a
  configured caller that is ahead count as unconfigured.
* Accounts' work evens out only where an API key takes what the balancer cannot
  place (`NobodyRunsAhead`).
* `retry_after_s` is the least of all locks of all bearers, so a bearer with a
  pause and a rejected window, or a dead one, makes it early ("could serve
  again", `_bearer_due_in`); a window spent under an `allowed` status has no due
  time and makes it late. `HintIsNotLate` says what is left.
* A quarantine whose clearing could not be written is back after a restart, until
  the recheck. `credential_streak` is reset by a success only.
* A verifying task warns of the verdict it finds at its end, also of a suspicion that
  arose meanwhile and whose stores it never probed; it stores that signature, so
  no poll has them probed either (`_warn_identity_probe_verdict`, though
  `guard_email` says that nobody alarms without probing first). A suspicion that a
  poll saw go and come back is not warned of twice (`emitted_sus` is re-armed by a
  verifier only).
* A verifying task that breaks off (`proxy.py:7156`) leaves the suspicion on the books,
  and no poll spawns another before the verdict changes, so nobody is warned of it;
  `CollisionsAreFollowedUp` says "unless its task broke off".

*Ingress*

* Without a registry a bulk request follows a pin that another role of its
  session made, to Anthropic too (`ingress.py:1029`; `routing.py:88` says never).
* `LANE_SATURATION_COOLDOWN_S` (`ingress.py:185`) is not read by anything: the
  next poll reopens a lane that was closed for saturation.
* A poll that fails closes its lane but leaves the sessions pinned to it.

*Rules*

* The watchdog keeps one status label per scrape, so rises of a lower label hide
  behind a higher one; the first sight of a counter is no rise, so a storm of
  three needs four in a replay (`_window_counts`); a run at the floor stays open to
  the last scrape after its series have gone.
* The watchdog's two default gates serve the same bearer (`FREE-LANE-RUNBOOK.md:73`),
  and `poll` puts their scrapes into one list the rules key by bearer: where two counters
  differ every round is a rise, so there are storms without a shrink, and the ceiling of
  one gate ends the pinned run of the other, though `_window_counts`' docstring takes the
  observed rises for "how many pushbacks happened in this window". `StormsAreReal` is
  therefore about a bearer of one gate, and `PinsAreSustained` about the merged scrapes.
  Shrinks of a glide (`proxy.py:591`) count as pushbacks live and not in a replay.
* `shrink_body` re-serialises an oversize body that has nothing to trim, which may
  make it longer.
* `WeeklyTokens` never forgets a name: after 256 projects all others share
  `_overflow`, which has no share and is never deferred. A share refusal's
  Retry-After is the accounts' catch-up, though the condition is the fleet's.
* A client whose `onWait` throws ends its turn with that error.

## 5. Fairness

* Limiter: a granted or cancelled task runs, a slot is given back, a scheduled
  kick runs (`FairSpec`). The event loop starves no ready task; every upstream
  call has a read timeout. Nobody need arrive, cancel or retune.
* Gate: a call goes on (`WF` of `CallStep`) and time passes; budgets need not
  expire, tasks need not die. `GateReopens` also needs callers that keep coming
  and an upstream that in the end serves who keeps asking (`SF` of `Served`).
* Owner: the worker and the loop run; a caller's context ends. No fairness for
  faults, closing or the clock.
* Lifecycle: each call that can leave does (`WF` of `Leave`), since timeouts and
  deadlines bound every wait; the number of times it goes round is not bounded.
* Ingress: what an open request awaits happens (`WF` of `Progress` for each): a
  probe has its own timeout, an attempt ends by the lane's answer or a timeout,
  and a pause is a sleep. Polls, edits and arrivals need not happen, and may
  happen for ever.
* Forwarding: each call's await ends (timeouts on connect and read, sleeps), and
  central is polled. Accounts: tasks go on and time passes; that the endpoints
  recover is the premise of `KnownAgain`.
* Rules: the client's loop goes on, and an aborted native call ends; in
  `LaneFeedback` the lane is served and time passes, and its pushbacks are
  bounded, which is "once pushback stops"; in `LaneHealth` the recheck loop runs,
  its messages are answered or time out, and time passes.

## 6. Proofs

Eight modules of proofs, each for every value of its component's constants. A
theorem with a hypothesis of its own says so here; the other assumptions are those
the modules declare (`LimiterAssumption` and its like: sets are finite, numbers
natural, at least one of what there must be one of).

**`FairLimiterProofs`.** `SlotAccountingHolds` needs, beside the types, that the
futures a dispatch resolves are those of parked calls and that the two lanes'
are disjoint, so both counters move by the number of calls that changed status.
`CapWithinCeilingHolds` is arithmetic over `Shrink`, `Grow` and the retunes.

The lanes have an invariant of their own, `LimiterInv`: a lane is in order
(`LaneOK`: its rotation lists exactly the clients with work, once each, and a
queue holds calls of its own client, once each), no call is in both, only parked
calls are queued and every live one is (`Booked`), and without a queue nobody is
parked. The heart is what one dispatch of *k* slots does to a lane in order. The turns
it takes are, client by client, a prefix of that client's queue (`TurnsServe`),
so what is left is in order again and only the calls it resolved, or met
cancelled, are gone (`LaneStaysOK`). It resolves exactly as many live calls as there
are slots, or all: the turns that would resolve one, counted in their order, are
numbered from 0 without a gap (`Ranks`, `FirstRanked`, `LaneBounds`).
`DispatchFits` joins the two lanes, with the migration a reserve of 0 asks for,
and `DispatchStep` the queues to statuses, counters and pools. From it:

* `LimiterTyped` and `NoLostWaiterHolds`: through cancellations, timeouts, migrations and
  retunes each live waiter is exactly once where the dispatcher looks.
* `WaitersAreReachableHolds`: and it is there only because its pool is full, or
  because a reserve retune's kick is still to run. Hypothesis `FloorIsLow`: no
  ceiling the operator gives is below `AIMD_MIN`. It is needed. With such a ceiling
  the floor rests at the ceiling; once the ceiling is raised again the cap is under
  the new floor, the next `shrink` *raises* it (`limiter.py:870`), and a shrink
  dispatches nobody, so a parked call stays beside a free slot until the next
  release, grow or retune. The instance of `limiter_fair` satisfies the hypothesis.
* `RoundRobinHolds`: a client that waits has a next turn that was not taken, so no
  later one was (`PoppedInOrder`), and nobody had more than one turn more; those who had
  are the ones the dispatcher sends behind (`LaneIsFair`). A step may add to the main
  lane before it dispatches, when a call parks or a reserve of 0 closes the other
  lane, but only at the ends (`Longer`), so the turns compare with the state before it.
* `LoopIsKeptHolds`: the loop written round by round, and the rank `_ahead_of` computes.
  What a round keeps is `Reached`: the turns taken so far are the first in order, and
  the rotation lists the clients with work left by their next turns. So its head is the
  earliest turn not taken (`HeadIsNext`), and moving it to the tail keeps the list
  (`RotationServes`), also when the future at its head was cancelled. The loop stops with
  the turns `Popped` names (`LoopPops`) and leaves the same lane (`LoopIs`); closing a lane
  client by client is closing it at once (`MigrationIs`). The rank counts, client by
  client, the turns before the arrival's (`AheadCounts`), and those are what the loop
  takes before it (`LoopAheadIs`). That the loop's function exists is shown as its
  rounds are bounded (`RoundsRun`); `LoopAssumption` says the compared occupancies are natural.
* `ImplementsPoolHolds`: `FairLimiter` implements `SlotPool`, without a hypothesis.
  An action of a call maps to an arrival, a departure or a stutter, one of the
  operator or of AIMD to a retune; a call that is cancelled departs at once, though
  its future stays in its queue until the clean-up.

**`ProbeGateProofs`.** `LeasesAreKeptHolds`: whatever upstream answers. `KeptInv` adds
to the property that a probe is in flight only on a gate in force and where a
call can have no lease, because a new route overwrites it (`LeaselessWaiter`).
`LeasesAreSound` is single-flight, while no answer is a refusal: a claim looks at the
gate's flag and not at the other calls, so the flag must be up while a lease is
out (`FlagWhileLeased`); a quarantine drops the gate under its prober, after which
`SingleProbe` is false (section 4). `GateIsObeyedHolds` is the action property;
hypothesis: no call streams its wait (`Held = {}`), because a streamed call skips
the recheck after the slot (section 4).

**`PersistenceOwnerProofs`**, for any tickets, costs, budgets, window, permits and
clock. `SentIsDurable` is not inductive: whether a ticket may be handed to
transport is decided on the loop, long after the worker has acknowledged it, and
nothing is saved at that moment. Two layers carry it.

* `ControlInv`: every queued operation is awaited by exactly one ticket, the load
  or the snapshot; a half-done save is a debit's or a cancel's at the head of the
  queue, with the ledger loaded and no fault; an owner that is not loaded has no
  tickets; permits add up. From it follow `PermitBalance` and `DrainIsQuiet`:
  with no permit out there is nobody to await an operation, so none is queued.
* `DataInv`: what is *owed*, sent or acknowledged and not taken back, is in every
  image of the file and in memory unless a fault bars the worker; what is
  *absent*, never debited or taken back, is in neither; memory and file agree
  whenever an operation may start; every image is within both budgets. A debit
  becomes owed in the step that syncs the directory, when file and memory both
  hold it; a cancel makes its ticket absent in the same step; a crash shrinks what
  is owed to what was sent. From it follow `SentIsDurable`,
  `DecisionsOnDurableState`, `NoDebtLeak` and `SentWithinBudget`. Its tokens are
  counted as units, one pair per token, so that the law for a union of sets does what
  an induction over a sum would.

**`IngressProofs`**, for any lanes, chains, requests, sessions, registries and
retries. `IInv` relates a turn to its place: a request under way has a lane it has
not tried and has made at most one attempt more than it has tried lanes and
queued, one that is not under way at most as many; the candidates of a probe are
untried lanes of its role's chain. Spilling puts the lane into `tried`, queueing
takes it out and counts a retry, so the sum is kept; it bounds the attempts because
`tried` has no more members than `Lanes`. The action properties rest on one
lemma that says who sends: a request enters a lane only in the answer to its own
probe or in `NextLane`, and both look at the registry of that moment.

**`ForwardingProofs`**, for any calls, retries, thresholds and free budget. `IInv`
says what a call's place tells of its layer (`StageOK`), and per call what the
properties count: nothing is written on a connection before the step that ends
the call (`AnswerOK`, hence `OneAnswer`); the hold reacts for itself exactly while
the call is in it (`OwedOK`); an attempt that has not been heard of yet is one
more than the retries, the direct retry one more still, and after its late attempt
a held call gets no further than the top of the loop (`TriesOK`, `LateOK`, hence
`RetriesAreAccounted`). The calls that are opened into a stream before their
slot, whose pushbacks are fed back twice (section 4), are excepted in the property
itself.

**`RequestLifecycleProofs`.** A client's entry is described by the numbers of its
calls, nought where it is pruned. The process's counters are sums over clients, and
sums need induction, so `CountsAreTrue` is stated on units (`QueuedUnits`,
`InflightUnits`: one pair of a client and a number per call counted), whose
cardinality a step changes by one. The witnesses of `IInv` (`Tallied`) are the counts a
client's entry keeps, which may exceed the calls there are by what has leaked
(`lifecycle_leak`). `BooksAreTrueHolds` adds that the count of emitters is exact;
hypothesis `OneDeferral`: not both weekly deferrals are on, since with both a second
hold overwrites the first (section 4).

**`AccountRoutingProofs`**, for any accounts, sessions, calls, knobs and gauges.
`ChoiceIsCheapestHolds` shows that the ladder of pools and passes comes to the
cheapest account that may be picked, and `SessionsStayHolds` that a pin goes only
for a reason; that pins are tidy (one per session, no more than fit) is an invariant of
its own. Neither has a hypothesis on the slots: an account is full by what is queued and
under way against its live cap (`Saturated`), and `LoadTyped` shows that this is what
the code's load says in its own units. Of the balancer, `PendingIsOwedHolds` keeps the
tickets' estimates as units again, and `BooksAreKeptHolds` adds `Even`: an account given a
call has the others' calls to make good for, each worth at most `MaxTokens`, so
whoever is first in turn is no further ahead than all calls can come to.
Hypotheses: `BalancerDecides` (in the setups with an API key to take the overflow
no session is pinned and no schedule hides accounts from the balancer) and an estimate
of at most `MaxTokens`. The setups of the run satisfy them.

**`ComponentProofs`** has the components that share no state with one another:
`Accounts` and the instances of `Rules`. What an instance assumes of its constants has a
name in `Rules`, and `RulesAssumption`, which the run evaluates, is all of them. Each
component is proved alone; `RulesSpec` is each of their specifications while the others
stutter (`ClientInRules` and so on), which gives the properties of the run for every value
of the constants.

* `Accounts`. `CardsAreTrueHolds`: a task that asks whose a token is would certify the
  very version it was read from (`CertifiesItsOwn`), and a tombstone shows no numbers
  until the endpoint has answered again. `PollsAreSpacedHolds`: one task fetches at a
  time (`OneFetches`); while none does, either the reading or the pause reaches back to
  the last fetch that was recorded (`FetchIsRemembered`); what the endpoint asked for is over or in the
  pause but for a task's own waiting (`AskedIsKept`). Hypothesis `PowersGrow`: powers of
  two up to `Steps` are natural numbers of at least one, which no prover here computes.
* `Guard`. `CollisionsAreFollowedUpHolds`: that one suspicion has one verifier follows from
  an exact list (`ListIsExact`): a live task is listed, and a key lists one task. A spawn
  overwrites only what is over, and a done-callback takes only its own task away. A task
  that breaks off is remembered until the books are written again.
* `Client`. `CallsEndAccountedHolds` and `RetryIsProvenHolds`: a verdict is about the latest
  fetch (`VerdictIsLatest`), what went through is of this attempt (`ThroughIsNow`), and
  `CountIsKept` says how far each stage may be ahead of the rejections counted.
  Hypothesis `ClientParameters`: counts and times are natural numbers.
* `Lane`. `PushbackNarrowsHolds`: the cap stays between one and the hard ceiling, and each
  of the reactions to an answer that throttles leaves it no wider (`Reacted`), so that
  their order does not matter. Hypothesis `LaneParameters`; with a backoff of zero,
  which the configuration excludes, the lane could grow in the answer that throttles it.
* `Door`. `VerdictsAreHonestHolds`: a quarantine in memory is restored as well, what is
  restored is in the file or known not to be (`VerdictsAreWritten`); while only time
  passes, every bearer in view is barred until the hint has run out (`HintKept`: as the hint
  counts down, so does the lock it was read from), and what was open or had room still
  is (`OpenKept`, `CapacityKept`: time only ever lifts locks). Hypothesis
  `DoorParameters`: times are natural numbers.
* `Pace`. The line only falls as the hours left do, and an account is ahead of it exactly
  while more hours are left than a rounded quotient says, so the shortest of the waits is
  the first moment an account is behind it. Hypothesis `PaceParameters`. For the share, the
  hours of the last week add up alike in the buckets and in the calls really served
  (`LedgerHolds`): what was pruned is older, and what was put under the overflow name is there
  still; a bucket never has more than its project's own calls. Hypothesis `ShareParameters`:
  a share is configured for a project, never under the overflow bucket's name.
* `Body`. The size of what is left falls as the cut grows, so the bisection, a
  recursive function that is shown to exist, finds the first cut that fits; snapping moves
  it past answers whose call it dropped. Stubs go to the oldest blocks because a block is
  stubbed exactly when the earlier ones do not suffice. Hypothesis `BodyParameters`: sizes are
  natural numbers and the live tail, `KEEP_TAIL`, is at least one turn.
* `Watch`. `WatchInv` orders the scrapes by time and by the shrinks there had been; of one gate,
  between two of them without a shrink the visible counter stays or starts again at nought,
  so the rises of a window are at most the shrinks in it (`RisesAreShrinks`). Of two gates
  that is false, and the theorem says nothing of their storms. The two rules
  fold over the scrapes: that the folds exist and what they keep is followed scrape by scrape
  (`RateHolds`, `PinHolds`). Hypothesis `WatchParameters`: a spike needs at least one shrink.
* `Drain`. `EstimatesAreKeptHolds` has two halves. A promise is kept because of
  `PromisesHold`: for each promised call, any set of as many slots as the cap comes, within
  what is left of the call's budget and while every hold keeps to the estimate, to the
  dispatches the call needs, itself included. An arrival is promised exactly when the
  slots that end first do (`LeastSum` makes that all sets of that size); a tick
  brings ends and deadlines closer alike, a completion takes as much from the slots as
  from the calls to come. And the greedy schedule is followed start by start (`After`): by any time from the latest start on, the
  servers as they were come to exactly as many dispatches more as have been made, and
  never to more than that, so the least time by which they come to a given number, which
  is the wait told, is the start of that dispatch.
  Hypothesis `DrainParameters`: a service takes time. The slots that pay down an
  overshoot are named by their rank among the holders rather than by sorting them.

Sums over a set, least elements and the existence of recursive functions come first in the
module, as smallest counterexamples: the library's induction theorems are not available.

**Only model-checked.** Liveness under fairness, everywhere: beyond the prover. Every
invariant and every action property a passing run checks has a theorem, under the
hypotheses named above.
`SingleProbe` with refusals, the emitters with both deferrals and the balancer beside
pins are false or unproven as the hypotheses above say.

## 7. Not modelled

Of the ingress: reading and validating the registry file, the cooldowns and score
that rank lanes, the class of a lane's upstream, and the relay of a response's
bytes. Of the accounts: discovery of files, and failing writes of the persisted
caches; a file's stat and read are one step. Of usage pacing: the
remaining-budget law and shadow mode. Of the watchdog: parsing, the
unreachable rule and gates that serve different bearers (the rules treat bearers apart). Of routing: the tie-break among equally priced accounts. A usage
poll that clears a window newer than itself (`accounts.py:896`) is possible in
`ProbeGate` but not told apart there. Text (headers, bodies, log lines, metrics,
pages), ordering by project share inside one client's queue, clock jumps (the
ledger asks its callers for a trustworthy clock), several processes sharing one
ledger file, and the components listed as `not_modelled` in `PROJECT.json`, with
the reason for each.
