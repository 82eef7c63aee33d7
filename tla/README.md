# Specter: specifications of the API, the scraper and the tools

TLA+ specifications of New_Specter: which competitor URLs are scraped and when, how
one scrape travels through the queues and workers back to the API, how the workers
share rate limits, proxies, a browser and CAPTCHA solves, when a merchant's scrape
cycle is complete, when an out-of-stock alert opens and closes, how a SKU is
repriced from cycle to cycle, how long price history is kept, how plans, trials and
subscriptions stay in step with Razorpay (`src/specter-api`), and the two parts of
`src/specter-web` that have logic of their own: the scenarios saved in a browser and
the advice of the FBA calculator.

Every definition is written from the code; `PROJECT.json` maps each one to the
lines it models. Lines are quoted below relative to `src/specter-api/` or, where the
path starts with `lib/` or `app/`, to `src/specter-web/`.

## The system

```
 merchants' requests          dispatcher pods             Razorpay
   |  routers/                 | run_dispatcher.py          |  ^
   v                           v services/dispatcher.py     v  |
 Postgres  <---- rows, locks ----> tick: heal, claim,     routers/billing.py
   ^                              dispatch                services/trials.py
   |                               |
   |              open_cycle  <----+---->  enqueue (queue_client.py)
   |                  |                        |
   |              Redis: cycle keys        Redis: BullMQ queues
   |                  ^                        |
   |   record_scrape  |                        v
 routers/internal.py -+  <-- signed POST --  probe -> http -> playwright workers
   |                                         (scraper/workers/*.ts)
   |                                           | tokens and crawl-delay stamps,
   |                                           | proxy health, CAPTCHA claims and
   |                                           v tokens: Redis; one Chromium
   +-> generate_cycle_signals, out-of-stock alerts, repricing

 a browser: localStorage of the tool pages --> useMigrateScenarios --> the API
```

### Components

| Component | State | Operations | What makes it correct |
|---|---|---|---|
| Cycle barrier (`services/cycle_coordinator.py`, `cycle_store.py`) | Redis keys `expected`, `done`, `fired` per merchant and cycle, each with a TTL | `open_cycle`, `record_scrape`, `close_expired` | a complete cycle fires, not twice within a TTL, and leaves no key behind |
| Scrape pipeline (`queue_client.py`, `scraper/queue.ts`, `scraper/workers`, `routers/internal.py`) | BullMQ jobs, `domain:class`, `domain:http-fail`, `price_snapshots`, `domain_exclusions`, `robots_blocked` | enqueue, probe, http, playwright, stall, fail, ingest, scrape-failed, domain-blocked | each dispatched scrape is accounted for; one row per job; no cycle fires before its scrapes have landed |
| Scheduling (`services/dispatcher.py`, `routers/competitors.py`) | `competitor_urls.next_run_at`, `competitor_trackings`, row locks, advisory locks | heal, claim, dispatch, add and delete a competitor | a due URL is dispatched once, a tracked one stays scheduled, plan limits hold |
| Billing and trials (`routers/billing.py`, `services/trials.py`, `routers/merchants.py`) | the `merchants` row, `merchant_addons`, `processed_webhook_events`; subscriptions at Razorpay | subscribe, upgrade, downgrade, cancel, add-ons, webhook, start and expire a trial | the plan follows what was paid, no event is lost, nobody pays twice |
| Rate limiter (`scraper/workers/rate-limiter.ts`, `robots.ts`) | a token bucket and a crawl-delay stamp per domain, with TTLs | `checkRateLimit`, `enforceCrawlDelay` | no more than a burst and the refill pass; fetches keep the delay; the promised wait is enough |
| Proxy health (`scraper/proxy`) | cooldowns in each process and in Redis, sticky assignments, cursors | next, report, refresh | a ban sticks for its cooldown and not longer |
| CAPTCHA offload (`workers/captcha.ts`, `captcha-solver.ts`, `playwright.ts`) | pending claim, token, solve jobs | claim, enqueue, solve, delay | paid solves are spaced; a delayed job finds a token or runs out of attempts |
| Browser pool (`workers/playwright.ts`, `browser-farm.ts`) | one browser and its job count, shared by the jobs of a process | `getBrowser`, the `disconnected` listener | one browser, recycled in time |
| Out-of-stock alerts (`signals/oos_detector.py`, `signals/dispatcher.py`) | `oos_alerts`, `silenced_oos`, the snapshots | capture, detect, create, resolve, mail, silence | an alert exactly while the URL is out; one mail when it is back |
| Price signals, repricing (`signals/*`, `services/repricer.py`, `routers/repricing.py`) | the SKU's price and bounds, competitors' prices, dedup keys | `compute_signal`, `compute_reprice`, manual price, edits | the engine comes to rest with the market, inside the bounds |
| Retention (`services/retention.py`) | `price_snapshots`, `delete_at` | purge in batches, schedule after a downgrade | no history of a paying merchant is purged; a downgrade leaves days of grace |
| Saved scenarios (`lib/tools/scenarios.ts`, `lib/use-migrate-scenarios.ts`) | a bucket per tool in localStorage, the account's calculations | save, delete, migrate | nothing the user saved is lost |
| FBA calculator (`lib/tools/fba.ts`) | the form | enter, apply the suggestion | the advice comes true |
| Node scheduler, dispatch lock (`scraper/scheduler.ts`, `dispatch-lock.ts`) | a Redis lock per URL, batch sets | not called outside the tests | |
| Attribution (`services/attribution.py`) | price changes | a nightly pass | |
| Cost ledger, proxy guard (`services/cost_*.py`, `proxy_guard.py`) | counters, a once-a-day flag | add, flush, alert | every cent once |
| Others | | | parsers, authentication, e-mails, views, schema: without protocol, see the end |

### What is hard in this code

- The barrier's commands of several API threads and dispatcher pods interleave;
  INCRBY and PEXPIRE are two commands; the keys expire on their own clocks.
- A scrape is handed from job to job, retried, stalled and reclaimed. Its
  request may be served although the worker never hears of it, and may arrive
  after the job was taken up again. Redis is written before Postgres commits.
- Dispatchers and requests are transactions at READ COMMITTED. They read without
  locks what others are changing, and write back what they computed.
- Billing requests load the merchant's row, talk to Razorpay for seconds without
  a lock, and then write. Webhooks arrive in any order, more than once, and in
  the middle of that; the trial cron runs beside them.
- The gates of a domain are atomic scripts over keys that expire, but the time
  they compute with is that of the caller, read before.
- Handlers of one worker share a browser, and every `await` lets the others in;
  the processes share proxies through a cache that is written without waiting
  and read late.
- A CAPTCHA is solved by another job, against four clocks: the claim's TTL, the
  token's, the retry of the solve and the delay of the page's job.
- Ingests of one URL run concurrently at READ COMMITTED, compare with "the
  previous row" and send mail before they commit.
- A purge of history commits batch by batch while plans and trackings change, and
  a downgrade is two transactions.
- A merchant's cycle waits for Gemini, sub-batch by sub-batch; its SKUs are split
  over cache, answer and rules, and another cycle may write the same verdicts.
- Each repricing changes the price that the next signal is computed from, with two
  targets, two medians and two bounds, and is written after two awaits from what was
  read before them, while another cycle does the same.
- Tabs of a browser share localStorage and migrate it one request at a time.

`PROJECT.json` lists these hazards one by one, at their lines, with the property
that covers each or the reason why none does.

## Modules

| Module | Models | Checked in |
|---|---|---|
| `CycleBarrier` | the barrier, one Redis command per step | `cycle_barrier` |
| `FiringSchedule` | abstract: what the signal engine is promised about cycles | `cycle_barrier` (`ImplementsSchedule`) |
| `ScrapePipeline` | dispatch, jobs, workers, internal router, landing | `pipeline`, `pipeline_live`, `pipeline_fired_generates` |
| `Scheduling` | ticks and competitor requests, one SQL statement per step | `scheduling`, `scheduling_live` |
| `Billing` | requests, webhook and cron, split at every call to Razorpay | `billing`, `billing_twice` |
| `RateLimiter` | token bucket and crawl delay of one domain, one script per step | `node` |
| `ProxyPool` | the proxy managers of several pods and their mirror in Redis | `node` |
| `Browser` | the shared Chromium of a playwright worker, split at every await | `render` |
| `Captcha` | the jobs of a challenged page, the claim, the token, the solver | `render` |
| `Alerts` | ingests of one URL, one SQL statement per step | `services`, `alerts_flap` |
| `Outages` | abstract: alerts follow the outages of a URL | `services` (`WatchesOutages`) |
| `Retention` | the snapshots of one URL under purges, downgrades and trackings, one transaction per step | `services` |
| `SignalBatch` | the signals of a merchant's overlapping cycles: sub-batches, cache, Gemini, rules, deduplication keys | `node` |
| `Repricing` | the rule engine and the price of one SKU, under overlapping cycles split at their awaits | `services` |
| `Scenarios` | saved scenarios and their migration, split at every await | `services` |
| `FbaFees` | tiers, fees and advice as functions of the form | `services` |
| `CycleBarrierProofs`, `ScrapePipelineProofs`, `SchedulingProofs`, `BillingProofs` | theorems about the module they are named after | TLAPS |
| `NodeProofs` | theorems about `RateLimiter`, `ProxyPool` and `SignalBatch` | TLAPS |
| `RenderProofs` | theorems about `Browser` and `Captcha` | TLAPS |
| `AlertsProofs`, `ServicesProofs` | theorems about `Alerts`, and about the other parts of `MCServices` | TLAPS |
| `MC*` | instances for TLC; `MCFlap` adds to `Alerts` a count of the alerts sent | |

`MCNode`, `MCRender` and `MCServices` hold several parts that share no state. Their
interleavings would show nothing that one part alone does not show, so in these
instances a part takes its steps only while the others are at their initial
states: the state space is the sum of the parts', not their product. For the same reason
the parts share model values (a tracking, a merchant and a tool have the same
name in `Services.cfg`), so that one group of permutations is the symmetry of each.

A definition whose comment begins with "Fault:" is a mutated form of the one
that follows it, used to see that a property notices; no specification uses it.

### CycleBarrier

Keys of different merchants never meet, so one merchant and a set of cycle ids
are enough. `store` holds the three counters (0 is an absent key), `expiry` the
time at which each vanishes. `open_cycle` is `OpenIncr`, `OpenStamp`;
`record_scrape` is `RecordIncr`, `RecordStamp`, `RecordRead` (the GET of
`expected`, compared with the value its own INCR returned), `RecordSet` (SET
NX); `close_expired` is `SweepRead`, `SweepSet`, `SweepDel`. Any process may die
between two commands. The dispatcher computes the cycle id from a `now` read at
the start of its tick, so an INCRBY may run `MaxLag` periods late.

Nothing in the repository calls `close_expired`: a behaviour without `SweepRead`
is the system as it runs, the others are the system with the sweep wired in.

### ScrapePipeline

A `slot` is one dispatched scrape, the unit the barrier counts; `landings`
counts the calls of `record_scrape` made for it. A job carries its slot through
`ProbeFollowUp` and the reclassification in `incrementHttpFailCounter`. Requests
are in `net` until served or lost; each carries the run of the job that sent it,
so a late one does not answer a later run. `Serve*` is a whole handler of
`routers/internal.py`: `_record_cycles` acts on Redis at once, the row and the
signals of a fired cycle appear if the transaction commits. The per-command
interleaving of the barrier is the subject of `CycleBarrier`; here it is one step.

BullMQ is external: what it does is what `scraper/queue.ts` and
`worker-options.ts` configure, with a thrown handler costing one attempt. A handler
may throw at every call it awaits: `ProbeThrows` before the follow-up job is added
(with or without the class written), `ProbeFollowUp` with the outcome "error" after
it, `HttpThrows` outside the fetch, `incrementHttpFailCounter` between any two of its
commands. A job that is put off (`WorkerDelays`: rate limit, crawl delay, exhausted
proxies, 429, CAPTCHA) costs no attempt, as often as it likes, until `DelayEnds`.
The three keys of the cycle expire, each on its own (`CycleKeyExpires`), so a cycle
can fire again; a slot opened after `expected` is gone belongs to the merchant's next
cycle, which is not followed. `SNAPSHOT_SKIP_UNCHANGED` is on, its default: an
unchanged value lands without a row. Thirty http handlers share the failure
counter with separate INCR and DEL commands, hence the two values it may have
after a reclassification. Left out: out-of-stock dispatch, audit rows and cost
counters, which feed nothing back, and the content of pages.

### Scheduling

`sched` is `next_run_at` as far as the code tells it apart: no row, NULL, in the
future, due. `BecomesDue` is the passing of time. A pod's tick is `HealSelect`,
`HealRefresh`, `HealCommit`, `ClaimDueUrls`, `DispatchUrl`, `DispatchCommit`;
its writes stay in the pod until its commit and its row locks are held until
then. `add_competitor` is `AddLock` (the advisory lock), `AddCheck`,
`AddResolve`, `AddCreate`, `AddCommit`, and `delete_competitor` is `DeleteRead`,
`DeleteCommit`. SQLAlchemy writes a column back only if it differs from what was
loaded (`Writes`). `enqueued` and `lost` count the jobs of a URL since it last
became due, and those whose transaction rolled back.

### Billing

One merchant. Each API request, webhook delivery and run of the cron is a process
in `req`: what it loaded (`saw`, one load per request, by the authentication
dependency in the same session), what it is about to do, and where it is. A
commit writes the columns whose value differs from the loaded one (`Flushed`); a
cancellation has flushed its UPDATE before it calls Razorpay for the add-ons, so
others wait for its row (`Writable`). Razorpay is external: it creates
subscriptions, charges, ends or completes them, and redelivers each event in any
order until it is recorded. A redelivery of a recorded event changes nothing and
is left out. A plan is its index in `PLAN_HIERARCHY`. `upgrade` is `subscribe`
to a higher plan. Left out: paused SKUs, the scheduled deletion of history (the
subject of `Retention`), notifications, `subscription.pending`, which changes no plan.
`orphaned` remembers an add-on's subscription when the last that knew of it is lost: a
call to cancel it failed (nobody looks at that), the answer to its creation was lost,
the process died before it inserted the row, or the row came while a downgrade, which
deletes by a predicate, had already read which subscriptions to cancel.

### RateLimiter

One domain. `bucket` and `last` are the two keys, with the time at which each
expires; tokens are counted in 1/`Window`, so the arithmetic is that of the
script. `TakeToken` and `CrawlGate` are single steps, as the scripts are, but
their `now` is any reading up to `MaxLag` old, which is what `Date.now()` in a
worker is when Redis runs the script. The http worker is `CheckRateLimit`,
`EnforceCrawlDelay`, `Fetched` (with the second charge of a page whose headers
say Shopify); a refused job is "waiting" and may come back at any time, earlier
than it was told. `ideal` is a bucket that is filled by the true time, never
expires, and is given once more what a lagging caller counts twice: `RateBound`
says the Redis bucket is never more generous than that. `ParseRobots` is the
probe that caches the crawl delay; its TTL is in the model, so the gate is open
once it has passed.

### ProxyPool

`health[p]` is the map of pod `p`, `mirror` the keys in Redis, `reply[p]` an
answer to MGET on its way. Every stamp is kept as the time left until it, which
makes time unbounded and the state finite. A report may lose its write to Redis
(`arrives`). `ReuseSticky` and `NextProxy` are `next`; a job that finds no proxy
is requeued. `known` is what a pod has last reported itself and `banned` the
latest ban of any pod: between these two lies every copy of a cooldown.

### Browser

The module variables of `playwright.ts` are `browser` and `jobsOnBrowser`. A slot
is one of the concurrent jobs; `getBrowser` is split at the awaits of `close` and
`launch` (`GetBrowser`, `Closed`, `Launched`) and is one step when it finds a
browser (`ReuseBrowser`). `Disconnected` is the listener, of whichever browser it
is: the code does not look. A job whose browser is closed by another ends with
`JobEnds`.

### Captcha

One page. A job is `Render`, `ReadToken` (inject and detect again), `Claim`,
`Enqueue`, `Offload` (delayed without an attempt); a solve is `StartSolve`, `Solved`
or `SolveFailed`, which retries it or gives it up. Time passes at every await, between
claim and enqueue too, and before a due job or a queued solve is picked up: `wait`
and `left` go on counting below zero. `JobThrows` is a navigation or a command that
throws, whose effect may have been had: it costs an attempt and is followed by the
ladder's delay or the dead letter. `CaptchaCrash` is a worker that dies and whose job
is found stalled. A job or a solve that is overdue by more than `MaxLate` is late;
every tick on which somebody is late, every throw, crash and failed solve is a fault,
and `MaxFaults` bounds them together. A tick is about 20 seconds: retry delay 65 s,
claim 90 s, token 110 s, validity 120 s, poll 60 s, lock 90 s, first backoff 60 s are
3, 4, 6, 6, 3, 4, 3 ticks. A site takes any valid token that is new, and may refuse
one that was used.

### Alerts

One URL, several trackings of it, several API processes. `Insert` is the INSERT
of the new rows of the URL in a batch, with one `scraped_at`; then for each row
`Capture`, `Detect`, `Resolve` or `CreateAlerts`, `Notify`, and at the end
`Commit`; `Rollback` at any point. A process sees the committed alerts under its
own writes. Readings that repeat the stored value are dropped before they get
here. `disturbed` remembers that two ingests of the URL overlapped or a batch
carried two of its rows, until the URL is in stock again without alerts.

### Retention

One URL, the snapshots of it and the merchants who may track it. `long` are those
on a plan that keeps `LONG` days, `tracks` those with a row in
`competitor_trackings`, which a disabled tracking still is. `apply_downgrade` is
`DowngradeCommit` and, in a transaction of its own, `Schedule`
(`schedule_downgrade_deletion`); `DowngradeDies` is a process that ends between
them. `Charged` is a charge, which may also lower the plan; `Untrack` the deletion
of a product. `purge_expired_snapshots` is `PurgeStart` and a `PurgeBatch` per
transaction, through the passes `a`, `b`, `c`; a batch is any `BATCH` rows of what
the pass selects now. `PurgeDies` ends it early. Ages and delays count days, ages
up to the first day beyond `LONG`. A day does not end during a purge or between
the transactions of a downgrade, and one purge runs at a time. `covered` are the
snapshots some 90-day plan has tracked ever since they were 30 days old;
`promised[s]` the days of grace a downgrade still owes a snapshot.

### SignalBatch

`run[c]` is a call of `generate_cycle_signals`. `Begin` reads the SKUs and the
quota's flag: without AI the rules judge all of them, else they wait in `rest`.
`SubBatch` takes up to `BATCH_SIZE` of them, puts what is cached into the `queue`
and leaves the `misses` for Gemini, which `TimesOut`, `Fails` or `Replies`, in full
or in part; what a reply leaves out goes to the rules. The queue is written in any
order, by `Exists` and `SetEx`, the two commands of `check_and_set_dedup`;
`CycleLost` is a rollback or a dying process, after which the keys stay. A verdict
is a choice. `due` remembers the SKUs a cycle has read and not judged, `written`
the signals since a key was last absent, `CycleLost` and its unwritten rows
included.

### Repricing

One SKU. `market` holds, in order, what `generate_cycle_signals` reads of its
competitors in stock. A cycle is `ReadMarket`, which fixes what it will do: the signal
of `ComputeSignal` or, where Gemini or its cache answers, any, and the price that
follows from the market, the price and the bounds of that moment; `SetSignal`, the
dedup key, after Gemini (the key is set whether or not a price follows); and
`WritePrice`, after Shopify; `CycleDies` is a refusal of Shopify, a rollback or a dying
process. In between other cycles, the market and the merchant go on. The snapshots
and the SKU are read in one step; in the code they are two queries, and a change of
the market that falls between them makes the cycle one that read before it. `Repriced` and `NewPrice` are `compute_reprice`,
with the median in half cents and `_q` rounding half up. `PatchSku`,
`UpdateSkuReprice`, `ApplyManualPrice` and `ImportPrice` are the four requests that
change price or bounds, each with its own checks; `NewSnapshot` is the market.
`moves` counts the repricings by rule since anything else changed, where a cycle that
had read before the change (it is not in `fresh`) counts as such a change.

### Scenarios

`storage` is localStorage, which every tab reads and writes at once; a migration
(`tab[w]`) reads all buckets (`Collect`), sends its scenarios one by one
(`Answer`: stored, refused, or stored with the answer lost) and at the end removes
the buckets whose scenarios all went through. `Leave` closes the tab.

### FbaFees

Pure functions of the form: lengths in quarter inches, weights in 1/8896 lb and
fees in 1/8896 cent, so no fee is rounded before the code rounds it. The actions
are the fields of the page and the button that applies the suggestion.

## Runs

| Run | Bounds | Shows |
|---|---|---|
| `cycle_barrier` | 1 cycle of 2 periods, grace 1, 2 dispatchers, 2 threads, sweep, 3 opens, 1 duplicate landing, time 7 | `NoLostFire`, `FiresSpaced`, `NoDanglingCounter`, `ImplementsSchedule` |
| `pipeline` | 1 URL of 1 merchant, 2 slots, 2 jobs, 2 values, 1 attempt, 1 stall, failure limit 1, expiring cycle keys, an excluded domain | `UnlandedSlotsExplained`, `RowsHaveLanded`, `FiresWhenLanded` |
| `pipeline_live` | the probe of 1 new URL, 3 jobs, 2 attempts, failure limit 2, delays, an expiring class | `ScrapesEnd` |
| `scheduling` | 2 URLs, 3 trackings of 2 merchants, 2 pods, 2 requests, 3 adds, 2 deletes, 1 crash | `DispatchedOnce`, `LimitsHold` |
| `scheduling_live` | 1 URL of 2 merchants, 2 adds, 2 deletes, 1 crash | `TrackedGetsScheduled`, `DueGetsDispatched`, `UntrackedGetsPaused` |
| `billing` | 2 processes, 2 requests of the user, 2 plans, 1 add-on type, 2 subscriptions, faults | `PlanWasPaid`, `RecordedWasApplied`, `OrphansExplained` |
| `node` | 2 handlers, window 3, limits 2 and 3, delay 3 known for 4, lag 1, time 7; 2 pods of 2 and 1 handlers, a proxy in each tier, cooldown 1; 2 cycles over 3 SKUs and 1 of them, sub-batches of 2, 1 verdict | `RateBound`, `RetryIsExact`, `CrawlSpaced`, `BanSticks`, `BanEnds`, `NoneForgotten`, `SignalsPerHour` |
| `render` | 2 slots, 4 browsers, refresh every 2; 2 jobs, 3 solves at once, 2 attempts each, 2 faults of any kind | `OneBrowser`, `RefreshBound`, `PaidSpaced`, `Rendezvous` |
| `services` | 2 trackings, 2 processes, 4 rows, batches of 1 and 2; 2 merchants, 2 snapshots, 1 and 3 days, grace 2, batches of 1; 2 cycles, 2 competitors of 2 prices, 1 own price, 1 floor, 1 ceiling; 2 tools, 2 tabs, 3 saves, buckets of 2; 10 lengths and 8 weights around the tables' bounds | `WatchesOutages`, `OutageAlerted`, `RestockMailedOnce`, `HistoryKept`, `GraceKept`, `RepricingSettles`, `NothingLost`, `AdviceHolds` |
| `pipeline_fired_generates`, `billing_twice`, `alerts_flap`, which find a violation | as small as the violation allows | the findings below |

Why the bounds are enough. *Barrier*: time 7 is beyond the deadline (3) by more
than a TTL, so keys expire, are swept and are made anew; two threads are what a
race for the flag takes, and the proofs cover every other number. *Pipeline*:
two slots make a cycle that is incomplete after the first landing; two jobs with a
stall give a hand-over, a reclaim, a late request of a dead worker and a second
landing; two values make a retry see its own row, or another's; and each key of the
cycle may vanish between any two steps. What a second merchant, a third job or more
attempts would add is left to the proofs, which have no bounds. `pipeline_live` follows
one scrape alone, with two attempts of every job and three jobs: a probe that throws
after it has handed over hands over again, to http or to playwright, and http hands over
to playwright.
*Scheduling*: two pods race for a row, two requests for a limit, for a new
registry row and for the schedule. *Billing*: a subscription and its successor,
two processes that overlap at every call, and each event in every order; the second
subscription is a successor's or an add-on's, with which a plan's downgrade or
cancellation then overlaps. *Gates
and proxies*: time 7 lets the bucket's key, the stamp and the known delay expire
and be made anew; two handlers with two readings are what a stale clock needs;
two pods, one with two requests at once, give a success after a ban, a lost
write and a late answer. *Signals*: three SKUs need two
sub-batches and give a reply that leaves one out, and two cycles meet on one of
them; keys of different verdicts never meet, so one verdict is enough.
*Browser and CAPTCHA*: two slots overlap at every await,
and four browsers are enough for each to hold one while another is launched;
two jobs compete for claim and token, and two faults exhaust a solve or a job, or let
a job enqueue a second solve or lose a token while another fails. *Alerts*:
four rows are out, in, out again and an overlap; two trackings tell a mail, a
silenced one and an alert apart. *Retention*: two merchants make a URL shared and
unshared, two snapshots need two batches in every pass, and ages reach each of
the three bands. *Repricing*: with two
cycles one can write what it computed before the other wrote; of 10.00 and 25.00 a
RAISE and a LOWER aim at prices on either side of the own one, and the floor and the
ceiling cut both. Longer markets, outliers and medians of half a cent are left to the
proof, which has no bounds.
*Scenarios*: three saves overflow a bucket of
two and leave one to be saved during a migration. *FBA*: for each bound of the
tables a value on it and one beyond it, in every combination.

### Fairness

- `ScrapePipeline`: weak fairness of what is done for each job, as a whole (BullMQ
  keeps handing it out, a handler has timeouts, a delay passes), and of the router (a
  request is served or its timeout loses it). A worker may choose to delay a job each
  time, and nothing in the code ends that: the CAPTCHA offload does it with a page
  whose token never clears. So `ScrapesEnd` says: a scrape ends once none of its jobs
  is delayed any more.
- `Scheduling`: weak fairness of a pod's tick (`run_dispatcher.py` loops) and of
  time; strong fairness of requests, because a statement that waits for a row
  lock is woken in Postgres' queue order when the holder releases it.
- `Captcha` (in `render`): weak fairness of time and of the workers (BullMQ takes up
  a delayed job when it is due, the poll has a last round); how soon is not a
  matter of fairness, lateness is one of the faults. Faults are bounded, so
  `Rendezvous` says: once they have ceased, the busy queue among them. A worker with
  five slots and a prioritised queue may in fact come late at every return, find the
  token gone each time, and delay the job for ever.

The other specifications state no fairness and no liveness.

## Findings

Each is a run that expects a violation and quotes what the code says of itself.

- `pipeline_fired_generates`: the fired flag is in Redis before the transaction
  that generates the signals commits; after a rollback the retry lands again but
  does not fire, and this cycle's signals are lost.
- `billing_twice`: two overlapping subscribes leave two live subscriptions.
- `alerts_flap`: of a URL that goes out of stock, in and out again within a cycle two
  alerts are created and mailed, where `signals/oos_detector.py:8-11` and
  `docs/FEATURES.md:108` say one. The restock between resolves the first alert, so the
  check for an open one does not see it. `OutageAlerted`, which passes, asks for the
  second alert: it states what the code does. Of the tests, `test_rule_engine.py:440`
  goes with the docs, the test after it with the code.

Other places where the code does not do what a comment beside it says, read in
the source and visible in the models, but not kept as runs:

- A page without a price, a blocked domain or an unreported stall ends a job
  without landing its slot (`services/dispatcher.py:328-330` says every scrape
  lands). `EndedSilently` lists these paths, and `UnlandedSlotsExplained` says
  there is no other.
- `/domain-blocked` carries no cycle ids (`routers/internal.py:11-12`) and marks
  the URLs `robots_blocked` after a bot wall too (`probe.ts:240-242`).
- A retry whose first request was served lands its slot again, as unchanged
  (`routers/internal.py:4-5`).
- The id of a job is per queue, so two jobs of one URL in two queues can share a
  `job_uuid`, and the later row is dropped (`ingest-client.ts:41-42`).
- A cycle fires whenever `done` reaches `expected`, which can be before the rest
  of its URLs are dispatched, and again after the fired key has expired
  (`cycle_coordinator.py:1-8`).
- A cycle opened only at the beginning of its interval expires exactly at its
  deadline, before the sweep may take it (`cycle_coordinator.py:15-17`).
- The "upsert" of a new registry row (`routers/competitors.py:288`) is a select
  and an insert; of two merchants who add a URL at once one gets an error.
- Two deletes of a URL's last two trackings can both leave it scheduled
  (`services/dispatcher.py:228-229`), until the next claim pauses it.
- An abandoned upgrade cancels the paid subscription, whose cancellation then no
  longer matches the row: the plan stays (`routers/billing.py:485-486`).
- An activation that was applied but not recorded is applied again after the
  subscription's cancellation (`routers/billing.py:475-476`).
- A checkout that is never paid makes a trial permanent: `subscribe` stores the
  subscription's id first and `expire_trials` skips rows that have one
  (`services/trials.py:55`, against lines 5-6). The cron also overwrites a
  payment applied between its SELECT and its commit (`services/trials.py:61`,
  against lines 36-37).
- An add-on inserted during a downgrade loses its row but not its subscription
  (`OrphansExplained` lists this with the other three ways, all of them a failed call
  or a dead process, and says there is no other), and two overlapping downgrades may end on the higher target
  (`routers/billing.py:158-159`); overlapping add-on requests exceed the cap by
  one each (`docs/PRICING.md:92`).
- The crawl delay is cached for a day and read by workers that trust a domain's
  class for a week, so it is not honoured in between; a job refused by the crawl
  delay has already spent its token, and the extra GETs of the platform parse
  pass no gate (`rate-limiter.ts:148-152`).
- A late success clears a ban of the same proxy, and another pod's success
  overwrites it in Redis (`redis-health-store.ts:78` says "so a ban on any pod
  wins"). The score of a proxy is never used to choose one.
- The claim of a CAPTCHA counts its 90 s from the enqueue, so a solve that waits
  or is retried can be in flight when a second one is paid (`captcha.ts:14-16`); and
  a job that is slow between the claim and the enqueue enqueues when its claim has
  expired and another job has claimed and enqueued. What holds is `PaidSpaced`, of
  jobs that are not late.
- A token is cached for 110 s from the solve, and a job that a busy worker picks up
  later than that finds nothing and is delayed again, without an attempt
  (`playwright.ts:370-376`): nothing bounds how often. The same is true of every other
  `moveToDelayed`, so "every dispatched scrape lands" (`services/dispatcher.py:328-330`)
  is not so for a job that is put off for ever.
- Two overlapping relaunches leave a Chromium that nothing points to
  (`playwright.ts:69`, "One Chromium instance per worker process"), and a
  relaunch closes the browser under the jobs that use it. `OneBrowser` holds up
  to the first overlap.
- Overlapping ingests can leave an alert active when the URL is in stock; then
  every further in-stock row mails a restock. They can also leave two active
  alerts of a tracking, on which `scalar_one_or_none` raises, and the ingest
  fails until the URL is back in stock. Mails leave before the commit, so a
  rolled-back ingest mails again.
- A merchant who downgrades and pays again within the grace still loses the marked
  history: nothing clears `delete_at` (`services/retention.py:6-9`). A purge that
  falls between the two transactions of a downgrade deletes it at once, and a crash
  there leaves it to the next purge (`retention.py:11-12`); so does a charge of a
  lower plan or a deleted product, which mark nothing. Marked rows are outside the
  "hard cap" of 90 days (`retention.py:93`) until their grace ends.
- A RAISE aims a penny below the cheapest competitor, so it may lower the price
  (`signals/rule_engine.py:136-145` promises "raise ... potential"): with competitors
  at 10.00 and 10.40, a price of 13.00 is first lowered to 10.19 and then "raised"
  to 9.99.
- A cycle writes the price it computed before it awaited Gemini and Shopify. One that
  read a competitor at 50.00 writes 49.99 after the market has come to rest at 10.00
  and 10.40, from where a LOWER to 10.19 and a RAISE to 9.99 follow: three moves by rule
  over a resting market. `RepricingSettles` counts anew after such a write. A
  cycle that read before another wrote also undoes what that one did, so the bound is
  two moves for each cycle that can be under way.
- With a floor above the ceiling, `compute_reprice` lets the floor win and the
  suggestion of the AI the ceiling (`signals/ai_engine.py:426-429`); such bounds can
  be entered through `patch_sku`, which does not compare them
  (`routers/repricing.py:182`).
- The deduplication key is set before the signal commits, so a rollback suppresses
  it for an hour (`signals/dispatcher.py:52-55`); two overlapping cycles can both
  write it, as `SignalsPerHour` allows.
- The quota's flag is read at the start of a cycle only, so a cycle that exhausts
  it goes on calling Gemini for its later sub-batches (`signals/ai_engine.py:19-20`).
- The cache key holds the competitors' prices and not the SKU's own price and
  bounds, so a cached suggestion can lie outside a floor entered since
  (`signals/ai_engine.py:420`); and entries are sorted by domain alone, so two URLs
  of one domain leave the hash to the query's order (`signals/cache.py:44`).
- A scenario saved while a migration holds its bucket is removed with the bucket,
  and a bucket sent again after a lost answer is stored twice
  (`lib/use-migrate-scenarios.ts:9-13`).
- "weight-dominated extra-large tier" (`lib/tools/fba.ts:220`) also covers units
  whose dimensional weight puts them there, which a shorter side would help.

## Proofs

Every invariant and every action property that a passing run checks is also a
theorem, for every value of the constants under the ASSUMEs of the module it is
about; so are the two refinements. An ASSUME says what the code's configuration
and tables guarantee: durations and limits are natural numbers, a batch is not
empty, a proxy pool is a sequence of proxies and every pod has a tier
(`PoolAssumption`), the cycles of a merchant that run at once are finitely many
(`BatchAssumption`, `RepricingAssumption`). No theorem has hypotheses of its own.

Not proved, and left to TLC: the liveness properties `ScrapesEnd`,
`TrackedGetsScheduled`, `DueGetsDispatched`, `UntrackedGetsPaused` and
`Rendezvous` (fairness and ENABLED are out of the prover's reach), and the three
properties that a run refutes. Nothing here needs induction over data: sorting is
stated by what it yields (`Ordered`), and lists are cut and joined by positions.

**Barrier.** The one assumption with content is `MaxLag \in 0..Grace`: a tick is
not longer than the grace.

- `TypeCorrect`: `Spec => []TypeOK`; the run leaves the types to it.
- `NeverLosesAFire`: `Spec => []NoLostFire`. `NoLostFire` is not inductive: a new
  `open_cycle` under old `done` counts could make a cycle complete that nobody
  will fire. `BarrierInv` adds why this cannot happen. An opened cycle keeps its
  `expected` key until its deadline, because a TTL of interval + grace outlives
  the interval and the dispatcher's lag (`ExpectedSurvives`); no cycle is opened
  after its deadline (`OpenBeforeDeadline`); the sweep only acts after it. So
  `expected` only grows while a cycle may be opened, and the thread whose INCR
  brought `done` to its present value is the one that fires. The step is split
  into `NoLostFireStep`, `SideStep` and `SurvivesStep`, one case per action.
- `NoCounterDangles`: `Spec => []NoDanglingCounter`, inductive with the types:
  a key without a TTL belongs to a process about to stamp it, or to one that died.
- `FiresAreSpaced`: `Spec => FiresSpaced`, from `SpacedInv`: within a TTL of a
  fire its `fired` key stands, so the next SET NX fails.
- `BarrierImplements` : `Spec => ImplementsSchedule`.
  Under the mapping of `CycleBarrier` an INCR of `done` is `Land`, a successful
  SET NX is `Fire`, the sweep's DEL is a step that ends the quiet time, every
  other command a stutter; `LandedStep` shows that a thread about to fire has
  landed.

**Pipeline** (`ScrapePipelineProofs`).

- `PipelineTypeCorrect`: `TypeInv` adds to the types that a job which will run
  again has an attempt left, and that a failure is only posted for a dead job.
- `FiresNoSooner`, from `CountInv`: while `expected` stands it is the number of the
  merchant's slots, and while none of them has landed twice `done` is at most the
  number of those that have landed, whichever keys have expired. So when `done` comes
  to `expected` the landed slots are as many as the slots, hence all of them.
- `StoredRowsHaveLanded`, from `RowsInv`: the router lands a slot before it inserts
  the row, and a landing is never taken back when the transaction is.
- `NoSlotDropped`: `UnlandedSlotsExplained` says nothing of who will land a slot, so
  it is not inductive. `SlotsInv` does: an enqueued slot that has not landed has a
  job that answers for it (`Carries`): the job will run, or its failure is on the
  way, or it ends silently. Each action either keeps that job, or hands the slot to
  the next one (probe to fetch, reclassification), or lands it.

**Scheduling** (`SchedulingProofs`).

- `DueDispatchedOnce`: `DispatchInv` says of a pod that it holds the lock of every
  row it touches and that what it dispatches is due (`PodOK`), and of a URL that
  while it is due and in nobody's open transaction, each of its jobs was enqueued by
  a transaction that rolled back (`UrlOK`). So the pod that takes a due row is the
  first since the last rollback.
- `PlanLimitsHold`: `LimitInv` says that a request that adds holds the advisory
  lock of its merchant from before it counts, and that from its check on there
  is room for one more (`Admitted`, `HasRoom`). Only the holder can take that
  room; the products of a merchant fall under the same lock.

**Billing** (`BillingProofs`).

- `RecordedApplied` and `PlansArePaid`: in `BillingInv` a charge shows at Razorpay
  before its event is sent (`Charged`), and what a request has read and decided
  stays justified while it talks to Razorpay (`Sound`): the plan it read is
  covered by a payment, and payments are never undone (`Grows`). Both theorems
  include faults, crashes and any overlap of requests.
- `AddonsAccountedFor` includes faults, crashes and overlap, too. `AddonInv`: a live
  add-on has its row, a request about to insert it, or is in `orphaned`; and a request
  that deletes rows has cancelled, is still to cancel or was known not to cancel what
  they stand for (`Answers`). Each of the four ways into `orphaned` is needed: without
  one of them TLC finds the add-on that it leaves behind.

**Gates** (`NodeProofs`). `RateInv` adds to `RateBound` that stamps are
never ahead of the clock and that an expired key stands for no more than a full
bucket, since `until` is a window after the last write (`Stamps`). `RetryExact`
rests on `CeilIsLeast`, the one fact about rounding. `CrawlInv`: while the delay is
known, the stamp is at most `MaxLag` older than the last passage and lives two
delays.

**Proxies** (`NodeProofs`). `BanInv` is `Cooldowns` (the types), `BanSticks`
and `BanEnds` together: a merge takes the maximum of two values that are both
between `known` and `banned`. That a choice is a proxy of a pool (`Choices`) rests on
`PoolAssumption`.

**Signals** (`NodeProofs`). `EverySkuJudged` rests on `BatchInv`: a SKU still to be
judged waits for a later sub-batch, for Gemini, or has its verdict in the queue
(`RunOK`), so none is left when all three are empty. `VerdictsAreDeduplicated` rests
on `HourInv`: the signals written under a key, and the cycles that have passed
EXISTS and not yet reached SETEX (`Poised`), are together no more than the cycles;
who passes EXISTS finds the key absent, and then nothing has been written since it
was.

**Browser** (`RenderProofs`). `BrowserInv` adds `CountInv` (a browser in the
variable has served no more jobs than the count says, and one that has left it
never serves again) and `ReplaceInv` (while no two slots have replaced it, an
open browser is the variable's or the one being closed).

**CAPTCHA** (`RenderProofs`). `ClaimInv`: what is left of the pending key and the time
since the last solve make up the key's TTL but for the lateness, and one job at a time
that is not late is about to enqueue. `CaptchaTypeCorrect` adds the types of
the rest; the run leaves the types of browser and CAPTCHA to the proofs.

**Alerts** (`AlertsProofs`). `AlertInv` says for each position of the one undisturbed
transaction what it has read and written (`Steady`), and until a rollback what
has been mailed (`Posted`). `AlertsWatchOutages` uses it to show that a commit is
`GoesOut`, `ComesBack` or a stutter of `Outages`.

**Retention** (`ServicesProofs`). `MarksInv` is the strengthening: what has been
covered is not marked, because a row is marked only while no 90-day plan tracks
it and, being old by then, it is not covered any more; and a promise that is not
yet written as `delete_at` belongs to a downgrade that is still to write it. From
it, `HistoryIsKept` and `GraceIsKept` look at the one step that deletes, for any
merchants, snapshots, batch size and days with `SHORT < LONG`.

**Repricing** (`ServicesProofs`). `EngineSettles`: in a market at rest the rules go for
two prices only, and one of them is where they leave it (`Stop`). `FreshInv` says that
a cycle that has read at rest goes for one of the two; `Astray` are those that have read
before the price came to `Stop` and will move it away again. No cycle that reads a
price the rules have set becomes one of them, each of them moves the price away at
most once and it comes back at most once (`SettleInv`: `moves`, twice the cycles
astray and the move that is `Due` are no more than twice the cycles). Behind it are
facts about prices in order: a RAISE aims below the cheapest and so never
above where a LOWER aims (`RaiseBelowLower`), clamping keeps that order
(`ClampedOrder`), and a price that is too high for the market leaves every higher
price too high (`OverpricedUpwards`).

**Scenarios** (`ServicesProofs`). `NoScenarioLost`: `MigrationOK` says of a tab that
migrates what it has read (`got`), what of that is in the account or still to be sent,
and that its bucket has gained nothing since but what counts as `raced`. When it
removes a bucket, all that was read from it has been answered for.

**FBA calculator** (`ServicesProofs`). `AdviceIsKept` holds for every form in Nat:
the advice cuts the longest side to the bound of the next tier, which makes no unit
heavier to bill (`SuggestedIsLighter`); in that tier a unit that is no heavier costs
at least a cent less (`CheaperTier`); and rounding two fees differs from rounding
their difference by a cent at most (`RoundedFees`).

**Composition.** In `MCNode` and `MCServices` a step is one of one part, with the
others at their initial states, so `NodeTypeCorrect` and `ServicesTypeCorrect`
follow from the theorems of the parts: each part takes steps of its own
specification only. What is proved of a part is proved of its own specification,
without the restriction.

## Plan

Done: all the modules of the table, their runs, and a theorem for each of the
invariants and action properties they check.

What would come next: abstract specifications, and proofs of refinement, for two
components that only have invariants so far: scheduling (a period has one dispatch)
and saved scenarios (a set that several tabs share); the retries of the PUT to
Shopify and what the shop shows after a rollback; the enabling and deleting of
trackings while a URL is out of stock.

## Not modelled

- *Node scheduler, dispatch lock, concurrency lease*: `dispatchScrapeJob`,
  `scheduleRepeatJobs`, `acquireSlot` and `releaseSlot` have no caller outside
  the tests. A model of them would describe no behaviour of the system.
- *Price signals*: prompt, validation of Gemini's fields, confidence and reasoning;
  a verdict is a choice. *Repricing*: the retries of the PUT, and what
  the shop shows when a transaction rolls back after it. *Attribution, cost ledger*:
  one request or one statement each, without a protocol.
- *Parsers, validation and URL checks* are functions of strings without state;
  the pipeline takes their outcome as a choice. *Authentication, plan gates,
  e-mails, notifications, health and cost views, schema, observability* have no
  protocol.
- *The web application* is most of the repository's lines: pages, marketing and
  legal text, and a typed client of the API. They render what they are given.
  The other calculators are closed formulas of their inputs. This is why the
  lines that the modules translate are a small share of the implementation.
