# PingGuard in TLA+

PingGuard checks HTTP endpoints. A FastAPI process owns the `monitors` table, Celery beat sends a
sweep every few seconds, the sweep claims the rows that are due and publishes one message per row,
and Celery workers probe the targets and write results back. PostgreSQL and the Redis broker are
the only things the processes share. This directory specifies that core, model-checks it with TLC
and proves part of it with TLAPS.

## 1. The system

| Component | State | Operations | Interacts by |
|---|---|---|---|
| Data and rules (`models.py`, `enums.py`, `schemas.py`, `status.py`) | none | validation of bodies and of merged rows; outcome to status | used by all |
| Monitors API (`main.py`) | `monitors`, the id sequence, one session per request | create, update, delete, on-demand check; reads | rows; messages to the broker |
| Sweep (`tasks.py:253-433`, beat schedule in `worker.py`) | `next_check_at`, `next_keep_alive_at`; a batch in memory | select and lock, claim and commit, publish, reset | rows, row locks; messages |
| Probe tasks (`tasks.py:44-245`, limits and acknowledgement in `worker.py`) | `status`, `last_checked_at`, `ping_results`, messages | read, probe, commit, retry, soft-limit recovery | messages; rows that change underneath |
| Probe engine (`net.py`, `urls.py`, `ssrf.py`) | one redirect loop | resolve, validate, request, follow, classify, deadline | called by a probe task |
| Rate limiter (`ratelimit.py`) | a counter with expiry in Redis | hit | called before each write handler |
| Retention (`tasks.py:436-473`) | `ping_results` | delete expired rows in batches | rows |
| Settings, sessions, authentication, logging, health, migrations, deployment | — | — | — |

What is hard here: handlers interleave at every `await`; sweeps overlap; a claim is committed before
it is published; a publish can fail after the broker took it; a worker can die, or be killed at a
limit, at any instant; messages expire, are redelivered and are retried; a probe reads a row, spends
seconds on the network and writes the row back. The list of hazards, with the source line at which
each bites and the properties about it, is in `PROJECT.json`.

What makes each component correct:

* **Sweep** — one due time never becomes two messages; a reset undoes its own claim only; a claim is
  lost only through a crash or a failed reset; a row is served as often as configured and no more;
  what is due is eventually served; the backlog per row is bounded.
* **Monitors API** — the keep-alive rules an update checks hold of the rows (they need not: the race
  of section 3); the clock of the keep-alive schedule exists exactly while keep-alive is on; rows
  stay below the cap (they need not), or pass it by less than the number of handlers; a deleted row
  stays deleted.
* **Probe tasks** — a check is recorded, once for each failure it survives at most; a crash loses
  nothing that was probed; a row shows only what was recorded, and not much older than the latest;
  a keep-alive leaves the health status alone; every task ends.
* **Probe engine** — a request goes only where its own hop was validated; work is bounded whatever
  the target sends; the answer comes by the deadline; what is retried is what was transient; nothing
  but a URL makes it raise.
* **Rate limiter** — no more admitted than two counters allow; a 429 tells the truth; nobody is
  refused for good, though Redis fails between the calls.
* **Sweep and API together** — edits and deletes between a claim and its publishes break neither the
  claims, nor the rate, nor lose a run.
* **Retention** (not modelled, section 6) — only expired rows are deleted.

## 2. Modules

| Module | Models | State | Actions (code) |
|---|---|---|---|
| `MonitorModel` | the shared data: rows, enumerations, `validate_keep_alive_rules`, `Due` (the `WHERE` of each sweep), messages | — | — |
| `Scheduler` | `sweep_due_monitors` on several workers | rows, messages published, one `SweepState` per process | `Begin`, `SelectNone`, `SelectBatch`, `Claim`, `Enqueue`, `EnqueueFails`, `EndBatch`, `Recover`, `RecoverFails`, `Crash`, `Tick` |
| `Dispatch` | abstract: what the sweep promises, without sweeps, batches or locks | each entry (one schedule of one monitor): its period, next run, whether it is owed a message or lost one | `Claim`, `Publish`, `Refuse`, `GiveBack`, `Lose`, `Tick` |
| `MonitorApi` | the write handlers of `main.py` | rows, id sequence, one session per request | `CreateCount`/`CreateCommit`, `UpdateGet`/`UpdateCommit`, `DeleteGet`/`DeleteCommit`, `CheckGet`/`CheckEnqueue`, `Abort`, `Tick` |
| `ProbeTask` | `_run_probe_task` for both check types on a pool of workers | rows, `ping_results`, the broker's bag of messages, one task per worker | `Start`, `Ignore`, `Expire`, `Commit`, `Retry`, `Gone`, `Fail`, `SoftTimeLimit`, `LateSoftTimeLimit`, `Recover`, `Kill`, `Crash`, `Ack`; around them `SweepSends`, `CheckSends`, `Delete`, `Disable`, `Tick` |
| `PingGuard` | the sweeps and the API over one table, one broker and one clock: `INSTANCE`s of `Scheduler` and `MonitorApi` | the union of theirs | `SweepStep`, `HandlerStep`, `UpdateCommit`, `DeleteCommit`, `Tick` |
| `HttpProbe` | `perform_http_probe` (`net.py`) with the validation of targets (`ssrf.py`, `urls.py`), the exception table, and the bridge `asyncio.run` of `tasks.py` | one probe: where it waits, its hop, what it read, the lookup thread, its result | `Refuse`, `BadPort`, `Literal`, `Lookup`, `LookupPermits`, `LookupRefused`, `LookupFails`, `Connected`, `ConnectFails`, `ExchangeFails`, `TimesOut`, `Answer`, `TooManyRedirects`, `NoLocation`, `BadLocation`, `BadScheme`, `Follow`, `Chunk`, `LastChunk`, `Deadline`, `ThreadEnds`, `Return`, `SoftTimeLimit`, `Tick` |
| `RateLimiter` | `RedisRateLimiter.hit` and `rate_limit_write` (`ratelimit.py`) | one key of Redis, one state per handler | `Hit`, `Expire`, `HitFails`, `ExpireFails`, `Refuse`, `Tick` |
| `MC*` | instances for TLC: rows, request bodies, answers, symmetry | | |
| `*Proofs`, `SchedulerRefinement`, `SchedulerRates` | the theorems of section 5 | | |

How the models correspond to the code:

* **A transaction is one step** where the code commits, since PostgreSQL makes it atomic; what the
  handler read before is kept in its session and may be stale by then. The sweep's locking read and
  its commit are two steps, and rows are locked in between (`rows`), because another sweep's
  `SKIP LOCKED` sees the difference.
* **Updates are column-wise.** SQLAlchemy's `UPDATE` names the columns whose value changed in the
  session (`Changes`, `Write` in `MonitorApi`; `WriteBack` in `ProbeTask`). The race and torn
  findings below come from this.
* **A message keeps its task id and absolute expiry** through retries and redeliveries, as Celery
  does; a retry adds one to `retries` and a countdown of `2 ^ retries` seconds.
* **Acknowledgement**: a worker takes a message out of the bag; `Crash` (the whole worker dies) puts
  it back, `Kill` (the hard limit, or the pool process alone) does not, since Celery by default
  acknowledges on failure or timeout and rejects nothing on a lost pool process.
* **Time** is a counter of ticks. Handlers, messages and rows carry times read from it; a probe may
  take any time up to the hard limit.
* **In `PingGuard` a row lock is felt by both sides**: an `UPDATE` or `DELETE` of the API waits while
  a sweep has the row locked (`Unlocked`). Creates and on-demand checks write no row that exists and
  are left to `MonitorApi`.
* **A step of `HttpProbe` runs from one `await` to the next**, or to the end of the coroutine. Of an
  address it knows the class of network it is in and whether it was written as NAT64; of a URL, what
  the validation reads, and whether httpx can send it. A name lookup runs in a thread that the
  deadline cannot end: `thread` outlives the coroutine, and `asyncio.run` waits for it (`Return`).
* **`RateLimiter` counts relative time**, so its clock has no bound. Redis rounds the TTL it answers
  to whole seconds (`Ttl`). A failing call may have had its effect before it failed. What is
  admitted without a count (the limiter fails open) is not in `admitted`.
* **Refused requests** (404, 409, 422) and skipped messages change nothing; in `MonitorApi` they are
  not actions, in `ProbeTask` they consume the message (`Ignore`).
* `lost`, `published`, `probed`, `dropped`, `cause`, `admitted`, `refusing` and `starts` are
  history variables: no guard of the program reads them (except `Send`, which numbers tasks by what
  was published, and the bound on `starts`).
* Definitions marked `Mutant` are deliberate bugs; no specification uses them. Each property is
  broken by at least one of them, named in `PROJECT.json`.

## 3. Runs

`tlc -config <run>.cfg <module>`.

| Run | Module | Checks | Result |
|---|---|---|---|
| `Scheduler_overlap` | `MCScheduler` | `TypeOK`, `DisjointHoldings`, `HeldIsOwn`, `NoSilentLoss`, `BacklogBounded`, `RateBounded`, `NextRunOnlyClaimedOrGivenBack`, `ImplementsDispatch` | hold |
| `Scheduler_live` | `MCScheduler` | `DisjointHoldings`, `NoSilentLoss`, `DueIsServed` | hold |
| `MonitorApi_concurrent` | `MCMonitorApi` | `TypeOK`, `CapOvershootBounded`, `KeepAliveClockMatchesFlag`, `NoResurrection` | hold |
| `PingGuard` | `MCPingGuard` | `TypeOK`, `HealthClaimsAreExclusive`, `NoSilentLoss`, `RateBounded`, `ClockMatchesFlagUnlessReset` | hold |
| `HttpProbe` | `MCHttpProbe` | `TypeOK`, `RequestsGoWhereValidated`, `WorkIsBounded`, `OnlyLookupsRunLate`, `RetriedIffTransient`, `RaisesOnlyForUrls`, `ProbeAnswers` | hold |
| `RateLimiter` | `RateLimiter` | `TypeOK`, `AtMostTwiceTheLimit`, `RetryAfterIsTrue`, `RefusalEnds` | hold |
| `MonitorApi_race` | `MCMonitorApi` | `EnabledHasInterval` | violated |
| `MonitorApi_cap` | `MCMonitorApi` | `CapIsUpperBound` | violated |
| `ProbeTask_pool` | `MCProbeTask` | `TypeOK`, `AtMostOncePerFault`, `ProbedIsRecorded`, `RowIsBacked`, `KeepAliveOnlyDowns` | hold |
| `ProbeTask_live` | `MCProbeTask` | `LagBounded`, `TasksSettle` | hold |
| `ProbeTask_expiry` | `MCProbeTask` | `TimeoutIsRecorded` | violated |
| `ProbeTask_torn` | `MCProbeTask` | `StatusMatchesLastCheck` | violated |

The four violations are disagreements between the code and what its docs, docstrings or messages say:

* **race** — updates, each valid against the row it read, leave keep-alive on without an interval
  (`main.py:331`, the rule of `schemas.py:49`). It takes two races in a row. In the first, one update
  disables keep-alive and another sets the interval: each writes its own columns, and the row is off
  with an interval. In the second, one update enables that row with the same interval, so it writes
  the flag and not the interval, and another disables it, so it writes the interval `NULL` and not the
  flag. One pair of updates of a row that obeys the rule is not enough. The keep-alive loop skips such
  a row for ever, and its clock stays the oldest (`tasks.py:376`).
* **cap** — `create_monitor` counts and inserts in separate steps, so two creates that count the same
  rows both insert, and the table ends with more rows than `MAX_MONITORS` (`main.py:218`), which
  `README.md:225` of the repository calls the "Global upper bound on registered monitors allowed in
  database". Nothing removes the excess. `CapOvershootBounded` says how far it can go: rows and
  inserts on their way stay below the cap and the number of handlers together.
* **expiry** — a target that times out longer than its interval leaves no result: the attempt is
  rolled back for the retry, and the retry inherits the expiry of the first delivery. `DESIGN.md:44`
  says timeouts map to `DOWN`.
* **torn** — of two overlapping checks, the later commit omits `status` because it equals what the
  session read seconds ago, and dates the other check's status with its own time (`tasks.py:110`).

**Bounds.** Two actors of each kind, since every race found or excluded here is between two; one
fault, so that each kind of fault meets each interleaving, and two for overlapping sweeps, since a
reset can only fail after a publish was refused; intervals of 2 and 3 ticks under a hard
limit of 2 and a clock to 4, so that claims, expiries and a second claim of the same row all happen
(`Scheduler_live` has three rows for batches of two, one of them always skipped and the oldest, so
that `LIMIT` leaves a row out, a sweep meets batches another has locked in part, and a batch is
published in part before a refusal; its clock reaches the second run of each row, and its hard limit
of 1 keeps a sweep within a tick, as sweeps that outlive one are `Scheduler_overlap`'s);
a cap of one monitor and three ids, so that the cap is passed, a row is deleted and another created;
two tasks of one monitor and one retry, so that redelivery, retry, soft limit and a second task
overlap. `MaxClock`, `MaxFaults`, `MaxTasks` and `MaxId` are bounds and nothing in the code; the
theorems hold for every value of them. `HttpProbe` follows two redirects, so that a hop is first,
middle and last; its deadline lies between the timeouts of single operations, so that each can come
first, and its chunks of 1 and 2 bytes meet a bound of 3 exactly and pass it. `RateLimiter` has three
handlers, since it takes a refused, a late and a creating one to extend a counter, and a limit of two,
the least at which a count between the first and the last exists. `PingGuard` has one row (claims of
different rows are independent), two sweeps, one handler and one fault: a message, an edit and a
second claim of the row fit its clock; `MaxStarts` bounds how often updates set the clock of a
keep-alive.
The clock of `ProbeTask` runs past `MaxClock` while a retry
waits, so that no countdown is cut off.

**Fairness.** `Scheduler!FairSpec`, which `Scheduler_live` starts from one table: weakly fair `Begin`
(beat keeps sending sweeps; a free worker takes one) and `Step` (a task that runs goes on); none on the
clock, on faults or on the recovery failing.
`ProbeTask!FairSpec`: weakly fair `Tick` and `Step` (workers keep consuming; a probe ends by its own
deadline); none on what other processes send or on faults.
`HttpProbe!FairSpec`: weakly fair `Tick` and `Step` (timers go off and the worker's code runs); none
on `Environment`, so the target may never answer, send without end, and a lookup may hang.
`RateLimiter!FairSpec`: weakly fair `Tick`; no client need come back and no call to Redis succeed.
`PingGuard` states none.

**Deadlock.** The `ProbeTask` runs set `CHECK_DEADLOCK FALSE`: when every message is consumed, the
clock has reached its bound and no further task may be sent, the modelled pool has nothing to do.
`HttpProbe` sets it because a probe returns and nothing follows. All other runs check it.

**Refinement.** `ImplementsDispatch` (end of `Scheduler`) reads `Dispatch` through a mapping: an
entry's period and next run are the two columns of its schedule in its monitor's row, and it is owed
a message while some sweep holds it among its unpublished items. `SelectNone`, `SelectBatch`, `Begin`
and `EndBatch` map to stutters, `Claim` to the claim of a set of entries nobody owes, `Enqueue` to
`Publish`, `EnqueueFails` to `Refuse`, `Recover` to `GiveBack`, `RecoverFails` and `Crash` to `Lose`.
The row locks, which `Dispatch` does not have, are what makes the claimed entries disjoint from those
owed. `Dispatch` also says what the rate rests on: a claim moves the next run by a period or more, a
reset takes back exactly the period of its claim, and a claim is settled before the run it moved the
entry to comes.

## 4. What the properties rest on

`DisjointHoldings`, `HeldIsOwn`, `NextRunOnlyClaimedOrGivenBack`, `ImplementsDispatch`, `RateBounded`
and `BacklogBounded` need `LimitBelowIntervals`: no sweep lives longer than the shortest interval.
(`NoClaimLostSilently` of `SchedulerProofs` assumes it too, as it rests on the same invariant;
`NoRunLostSilently` of `PingGuardProofs` shows that `NoSilentLoss` holds without.) The schemas fix
the shortest interval at 15 s and the default hard limit is 15 s, so the defaults meet it with
nothing to spare; `validate_timeout_budget` (`config.py:212`) bounds the hard limit from below only,
so a deployment that raises it loses them: a sweep can then still hold a claim when its row is due
again, and its reset undoes the claim another sweep made since.

`DueIsServed` asks that fewer rows be skipped than `sweep_batch_size`, and the condition is part of
the formula. Skipped rows keep the oldest time and come first in every batch; one of them takes a
place in each, the others are still served (the run has one skipped row in batches of two). With as
many as a batch holds, the keep-alive loop rereads the same batch each turn and starves the rest: with
two such rows beside a sound one TLC finds the sound one due for ever. Each skipped row takes the two
races of `MonitorApi_race`.

`AtMostOncePerFault` counts deliveries: the tasks are not idempotent, so each crash, kill or late soft
limit may add one result, and nothing else does. `ProbedIsRecorded` excludes checks with an expiry
(those the sweep sends), which is what `ProbeTask_expiry` is about.

**Sweeps beside the API.** The theorems of `Scheduler` say what sweeps do to each other and those of
`MonitorApi` what handlers do; each assumes that nobody else writes the columns it is about.
`PingGuard` drops that assumption. What survives: health claims stay exclusive and resets undo only
their own (no update writes `next_check_at`), no run disappears, and the rate holds.

As edits change the interval, the rate is counted in the shortest one. A health check gets one
message for each that has passed and one for each fault. A keep-alive pays two for each fault and for
each time an update starts its clock. One is for the claim another sweep holds at that moment, which
is still published though the row is due again; the other is for a sweep that began earlier: it
claims the row from its own older `now`, and the next run comes less than an interval after the last.
One would not do: with two handlers, intervals and hard limit of 3, and a clock to 5, TLC finds five
messages where it allows four.

What does not survive: a keep-alive that is off may have a clock. `Recover` finds its rows by id alone
(`tasks.py:410`) and writes the clock again after an update cleared it (`main.py:347`). The sweep
ignores such a row, as its `WHERE` asks for the flag, and it is stale only until the next update,
which clears it or, switching on, keeps the past time and is due at once.
`ClockMatchesFlagUnlessReset` says that there is no other way to it: without a fault flag and clock
agree, however many handlers there are. After one, updates that do not overlap leave a keep-alive that
is on with its clock. Updates that do may not: of two that both read a row that is off and has a
clock, one switches it on (and, seeing a clock, sets none) and the other clears the clock; such a row
is never sent again until it is switched off and on. The run has one handler, so it shows both parts
on the least instance; the theorem has any number.

**One probe.** `RaisesOnlyForUrls` says which URLs make `perform_http_probe` raise: a `Location`
that `urljoin` or `urlsplit` rejects, or one whose port is no number (`ValueError`), and a URL with
a character httpx does not send (`InvalidURL`), which the path of a keep-alive may have. Nothing in
the probe or the task catches these: the check ends without a result, where other failures of the
target are recorded as `unreachable`. A 3xx without `Location` is a final answer below the redirect
limit and a `redirect_error` at it. `OnlyLookupsRunLate`: the deadline holds for the coroutine, but
the thread of a hanging `getaddrinfo` keeps `asyncio.run` from returning until the soft limit, so
the deadline "across DNS" of the repository's `README.md:221` bounds the result and not the task;
the finished result is then lost to `SoftTimeLimitExceeded`, whose handler records its own.

**One counter.** `EXPIRE` is a call of its own. Failing, it leaves a counter without expiry, which the
next hit repairs, though a slow client may be refused once on the count of an outage long ago; late,
it extends a counter it was not meant for. `AtMostTwiceTheLimit`, `RetryAfterIsTrue` and `RefusalEnds`
hold all the same. Admissions without a count, while Redis fails, come on top, as the code intends.

**Nulls in an update.** `update_monitor` applies every field the client sent (`main.py:342`), so a null
erases `keep_alive_path`, where `schemas.py:276` says "Omit or pass null to leave unchanged" and
`main.py:301` that fields set to None are preserved. `Merged` does what the code does; no run is spent
on it, as it takes one request. A null for a `NOT NULL` column ends in `Abort`, so a null flag never
separates the flag from the clock.

A keep-alive's docstring (`tasks.py:235`) says it never changes the status; its soft-limit handler
does, and a test (`tests/test_tasks.py:362`) expects it to. `KeepAliveOnlyDowns` states what holds.

## 5. Proofs

`tlapm <module>.tla` checks each. All theorems hold for every number of processes, rows, batches,
tasks, retries, faults and every bound, under the named assumptions of the modules.

* **`SchedulerProofs`** — `TypeCorrect`; and, assuming `LimitBelowIntervals`, `NoDoubleClaim`,
  `RecoveryIsOwn`, `ResetsOnlyGiveBack`, `NoClaimLostSilently`. The invariant is
  `TypeOK /\ SweepShape /\ LocksDisjoint /\ LockedDue /\ HeldIsOwn /\ DisjointHoldings`.
  `DisjointHoldings` alone is not inductive: a sweep that holds claims still to be published is
  safe from another's `SELECT` because the rows it claimed carry a time in the future of every sweep
  alive (`HeldIsOwn` with the hard limit), and rows locked but not yet claimed are safe because they
  are locked (`LocksDisjoint`) and still due (`LockedDue`). `ResetsOnlyGiveBack` adds `ItemsCurrent`
  (an item carries the interval of its row): what a reset writes is then one interval before the
  claim it finds, which the hard limit keeps in the future.
* **`SchedulerRefinement`** — `SweepsImplementDispatch`: under `LimitBelowIntervals`, `Spec` implies
  `ImplementsDispatch`. One lemma per action gives the `Dispatch` step it is; they rest on the
  invariant above and on `ItemsCurrent`, which makes a row's item unique. `OneOwner` is
  `DisjointHoldings` seen from `Dispatch`.
* **`SchedulerRates`** — assuming `LimitBelowIntervals`, `RatesAreBounded` and `BacklogIsBounded`. The
  argument is about the steps of `Dispatch`, which the refinement shows the sweeps take. The load of
  an entry is its messages and the one it is owed, less the faults; `Paced` says that a period has
  passed for each of them, counted from the start and from every later time `x`: a claim adds one to
  the load and a period to the next run, a reset takes both back, and a refused publish that went
  through costs a fault. Counted from the start this bounds the rate; counted from the oldest message
  that has not expired, the backlog.
* **`MonitorApiProofs`** — `TypeCorrect`, `OvershootIsBounded`, `ClockFollowsFlag`,
  `DeletedStaysDeleted`. The invariant is `TypeOK /\ CapOvershootBounded /\
  KeepAliveClockMatchesFlag /\ SessionsOK`. `CapOvershootBounded` is inductive because it counts the
  creates between their count and their insert; `SessionsOK` says of each pending update that it
  changes the flag and the clock together or neither, which is why column-wise writes cannot tear
  these two apart although they tear flag and interval.
* **`ProbeTaskProofs`** — `TypeCorrect`, `LagIsBounded`, `RowsAreBacked`, `KeepAliveSparesStatus`. The
  invariant is `TypeOK /\ HistoryOK /\ TimesOK /\ LagBounded /\ RowIsBacked /\ ReadsBacked`. `TimesOK`
  says how old a running task can be, so a commit dates a row at most the hard limit ago;
  `ReadsBacked` says that a row a task read as checked has been checked ever since, so a commit that
  omits `status` leaves one that was recorded.
  `ProbedChecksAreRecorded` adds `Origin`: task ids are unique, and a delivery is of a task that was
  published with its very monitor, type and expiry, so nothing else can consume or expire it; each way
  a task may end then leaves a result, a delivery or an entry in `dropped`. `ResultsPerFault` gives a
  task a weight, its deliveries, the worker that runs it and its results: `Once` bounds it by one and
  the faults, a retry and an acknowledgement hand it on, and only a fault adds to it.

* **`HttpProbeProofs`** — `TypeCorrect`, `RequestsAreValidated`, `ProbeIsBounded`,
  `RetriesAreTransient`, `ExceptionsComeFromUrls`, `LateOnlyForLookups`, for any names, addresses,
  redirects, codes and limits. The invariant joins the four state properties with `Phases` (what each
  value of `pc` says of the result, the thread and the response) and `Origin` (a first hop is a URL of
  a row; a later one came after a request). `FirstEntry` settles the exception table: which row is the
  first that matches. Lemmas say once for all steps what ending (`EndKeepsInvariant`) and what
  awaiting (`AwaitKeepsInvariant`) must preserve.
* **`RateLimiterProofs`** — `TypeCorrect` and `RetryAfterIsHonest`, for any number of handlers, any
  limit and window. `TypeOK` is inductive by itself; `StepIsSound` proves of each step the type and the
  honesty of the `Retry-After` together, as both need what `TTL` may answer (`TtlAnswers`).
  `TwiceTheLimitAtMost`: the weight of a window is what was admitted in it and the hits that wait for
  their `EXPIRE`. `WindowInv` says that all of it is the counter's as far back as the counter reaches,
  and at most a limit more over the whole window, since what an earlier counter admitted has left the
  window by the time a third one starts.
* **`PingGuardProofs`** — `TypeCorrect`, `NoRunLostSilently` and `ClockFollowsFlag`; and, assuming
  `LimitBelowIntervals`, `HealthClaimsStayExclusive` and `EditsKeepTheRate`. `Base` holds the types
  and shapes that all of them need: what a pending update may write (`SessionsOK`: never
  `next_check_at`), and that a locked row is in the table, as a `DELETE` waits for the lock
  (`RowsPresent`). `Exclusive` and `Own` then follow the argument of `SchedulerProofs` with a table
  that edits and deletes change: a step of a handler is a `HandlerFrame`, which leaves every health
  claim as it was. Claims of keep-alives need not stay exclusive (off and on again makes one due at
  once), so `NoSilentLoss` takes an argument of its own: `AllCovered` asks for an item, or a message,
  of the very time the row waits for, which a sweep whose claim was overtaken cannot take away, and
  `ClocksPast` says that the clock a pending update will write has passed already.

  `EditsKeepTheRate` cannot go through `Dispatch`, whose periods are fixed and whose resets undo their
  own claim: here an edit changes the interval, and the reset of a keep-alive may overwrite a newer
  claim. Its load (`Load`) counts messages, open claims and, for keep-alives, resets to come, less what
  faults and starts account for; `Paced` holds it below the row's next run in units of the shortest
  interval, or leaves a whole interval to spare, which is what a reset to an older time then uses up.
  It rests on `LockInv`: a locked row is locked by one sweep and still due as that sweep saw it,
  because an `UPDATE` waits for the lock.
  `ClockFollowsFlag` needs two invariants: `NoResetYet` (without a fault no reset is pending, and every
  pending update writes flag and clock together) and `AloneKeeps` (with one handler, the row as its
  pending update will leave it is right already, whatever sweeps wrote since it was read).

Assumptions on the constants are those of the modules: in `RateLimiter` finitely many handlers; in
`PingGuard` finitely many sweeps and handlers, and rows at the start whose keep-alive clock exists
exactly while keep-alive is on, as `create_monitor` leaves them.

Only model-checked: liveness (`DueIsServed`, `TasksSettle`, `ProbeAnswers`, `RefusalEnds`), which the
prover does not reach. Every other property of the passing runs is stated by a theorem.
No module declares a `RECURSIVE` operator. `BackoffAssumption` states that powers of two are whole
numbers, which would need an induction the provers do not have; TLC evaluates it.

## 6. Not modelled

Reads (`get_monitor`, `list_monitors`, `get_monitor_results`), health endpoints, authentication,
logging and request ids change no shared state. Names and error texts are data no property tells
apart; nor is how URLs are joined and redacted (`safe_join_url`, `redact_url`). The synchronous
`resolve_and_validate_target`, which nothing calls, repeats what `HttpProbe` models.
`InMemoryRateLimiter` serves tests only. A restart of Redis empties its counters, which only admits
more. `asyncio.run` gives up on its executor after 300 s, which the soft limit precedes by far.

**Retention** (`tasks.py:436-473`) deletes in batches, each a transaction, by a cutoff read once. A
row only gets older, and nothing but the prune and the cascade of a deleted monitor removes results,
so an interruption is made good by the next run and a batch deletes no row that was not expired,
whatever runs beside it. Two prunes may select the same ids, and then one stops early
(`deleted == 0`): the daily schedule is what completes the work. None of this depends on a step of
another component.

Connection pools, migrations and deployment are outside the protocol. The result backend of Celery
is written and never read by the program. A duplicate delivery by the broker's visibility timeout is
the redelivery of `Crash` without the crash; with tasks limited to seconds and a timeout of an hour it
is not modelled.

## 7. Plan

Done: `Scheduler` with `Dispatch`, `MonitorApi`, `ProbeTask`, `HttpProbe`, `RateLimiter` and
`PingGuard` (sweeps and API), each with its runs and proofs. Left, in order of importance:

1. `PingGuard` with the probe tasks: they write other columns than sweeps and handlers, so what is
   left to compose is a delete or an update between a message and its check, which `ProbeTask` has as
   `Delete` and `Disable`.
2. Retention beside the inserts of `ProbeTask`, if the prune ever comes to do more than delete by age.
