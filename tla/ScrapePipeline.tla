--------------------------- MODULE ScrapePipeline ---------------------------
(***************************************************************************)
(* One scrape from the dispatcher to the cycle barrier: the dispatcher     *)
(* opens a cycle slot for every merchant that tracks a URL and enqueues a  *)
(* job; the probe, http and playwright workers turn the job into a result  *)
(* and POST it to the internal router; the router stores the snapshot and  *)
(* advances the barrier.                                                   *)
(*                                                                         *)
(* One cycle of every merchant is followed, so its counters are three      *)
(* keys, each of which may expire (the lengths of the TTLs, and what they  *)
(* allow from one cycle to the next, are the subject of CycleBarrier).  A  *)
(* `slot' is one dispatched scrape, the unit the barrier counts.  A job    *)
(* waits or is being worked on in the same state "wait"; a worker that     *)
(* puts it off (rate limit, crawl delay, exhausted proxies, 429, CAPTCHA)  *)
(* leaves it "delayed" and otherwise as it found it.  Requests travel on   *)
(* their own, so a request of a worker that died may arrive after the job  *)
(* was taken up again.                                                     *)
(***************************************************************************)
EXTENDS Integers, FiniteSets

CONSTANTS
    Urls, Domains, Merchants,
    DomainOf,       \* the domain of each URL
    Trackers,       \* the merchants with an enabled tracking of each URL
    Values,         \* what a scrape reads: a price and a stock state
    MaxAttempts,    \* `attempts' of the queues
    MaxStalls,      \* maxStalledCount
    HTTP_FAIL_LIMIT,
    NewlyAdded,     \* the URLs whose immediate probe may be enqueued (a bound)
    Excludable,     \* the domains support may exclude (a bound)
    Expiring,       \* the Redis keys that may expire (a bound)
    MaxSlots,       \* bound on dispatches
    MaxJobs         \* bound on jobs

ASSUME PipelineAssumption ==
    /\ DomainOf \in [Urls -> Domains]
    /\ Trackers \in [Urls -> SUBSET Merchants]
    /\ MaxAttempts \in Nat \ {0}
    /\ MaxStalls \in Nat
    /\ HTTP_FAIL_LIMIT \in Nat \ {0}
    /\ MaxSlots \in Nat
    /\ MaxJobs \in Nat

VARIABLES
    slots,          \* the dispatched scrapes, with the merchants they count for
    jobs,           \* the BullMQ jobs
    ids,            \* the id counter of each queue
    domainClass,    \* domain:class:{domain} in Redis
    httpFail,       \* domain:http-fail:{domain} in Redis
    robotsBlocked,  \* competitor_urls.robots_blocked
    excluded,       \* domain_exclusions
    net,            \* requests to the internal router under way
    rows,           \* price_snapshots
    last,           \* the last stored value of each URL
    expected, done, fired,  \* the barrier's counters, per merchant
    generated,      \* history: has generate_cycle_signals run and committed
    landings        \* history: record_scrape calls made for each slot

barrier == <<expected, done, fired, generated, landings>>
stored  == <<rows, last>>
domain  == <<domainClass, httpFail, robotsBlocked, excluded>>
vars == <<slots, jobs, ids, domain, net, stored, barrier>>

Queues  == {"probe", "http", "playwright"}
SlotIds == 1..MaxSlots
JobIds  == 1..MaxJobs
NoSlot  == 0
NoValue == "none"

FreeSlot == [open |-> FALSE, enqueued |-> FALSE, merchants |-> {}]
FreeJob  == [st |-> "free", queue |-> "probe", id |-> 0, url |-> "none",
             slot |-> NoSlot, attempts |-> 0, stalls |-> 0, out |-> "none"]
-----------------------------------------------------------------------------
(***************************************************************************)
(* Queues.                                                                 *)
(***************************************************************************)
queue_for_class(class) ==
    CASE class = "http_ok"     -> "http"
      [] class = "js_required" -> "playwright"
      [] OTHER                 -> "probe"

NextJob == CHOOSE j \in JobIds : jobs[j].st = "free" /\ \A k \in 1..(j - 1) : jobs[k].st # "free"
RoomForJob == \E j \in JobIds : jobs[j].st = "free"

\* The state of the jobs after `add', given the state js before it.
Added(js, queue, url, slot) ==
    [js EXCEPT ![NextJob] = [FreeJob EXCEPT !.st = "wait", !.queue = queue,
                                !.id = ids[queue] + 1, !.url = url, !.slot = slot]]

CountId(queue) == ids' = [ids EXCEPT ![queue] = @ + 1]

\* Which run of its job a request belongs to.
Run(j) == jobs[j].attempts + jobs[j].stalls

\* The handler ends with out, once it has returned or thrown.
Returning(js, j, out) == [js EXCEPT ![j].st = "returning", ![j].out = out]
-----------------------------------------------------------------------------
Init ==
    /\ slots = [s \in SlotIds |-> FreeSlot]
    /\ jobs = [j \in JobIds |-> FreeJob]
    /\ ids = [q \in Queues |-> 0]
    /\ domainClass = [d \in Domains |-> "none"]
    /\ httpFail = [d \in Domains |-> 0]
    /\ robotsBlocked = [u \in Urls |-> FALSE]
    /\ excluded = {}
    /\ net = {}
    /\ rows = {}
    /\ last = [u \in Urls |-> NoValue]
    /\ expected = [m \in Merchants |-> 0]
    /\ done = [m \in Merchants |-> 0]
    /\ fired = [m \in Merchants |-> FALSE]
    /\ generated = [m \in Merchants |-> FALSE]
    /\ landings = [s \in SlotIds |-> 0]

(***************************************************************************)
(* The dispatcher.  A due URL with trackers gets one cycle slot per        *)
(* merchant, then one job.  A pod that dies in between has opened the      *)
(* slots of some merchants and enqueued nothing; the row's lock and its    *)
(* next_run_at roll back, so the URL is dispatched again.  A slot that a    *)
(* merchant opens after `expected' has expired belongs to its next cycle.  *)
(***************************************************************************)
CanOpen(s, M) ==
    /\ ~slots[s].open /\ \A t \in 1..(s - 1) : slots[t].open
    /\ \A m \in M : expected[m] > 0 \/ \A t \in SlotIds : m \notin slots[t].merchants

\* Fault: a slot sets the counter where it should add to it.
OpenSlotSets(s, M, queued) ==
    /\ CanOpen(s, M)
    /\ slots' = [slots EXCEPT ![s] = [open |-> TRUE, enqueued |-> queued, merchants |-> M]]
    /\ expected' = [m \in Merchants |-> IF m \in M THEN 1 ELSE expected[m]]

OpenSlot(s, M, queued) ==
    /\ CanOpen(s, M)
    /\ slots' = [slots EXCEPT ![s] = [open |-> TRUE, enqueued |-> queued, merchants |-> M]]
    /\ expected' = [m \in Merchants |-> expected[m] + (IF m \in M THEN 1 ELSE 0)]

Dispatch(u, s) ==
    /\ ~robotsBlocked[u]
    /\ Trackers[u] # {}
    /\ RoomForJob
    /\ OpenSlot(s, Trackers[u], TRUE)
    /\ LET q == queue_for_class(domainClass[DomainOf[u]])
       IN  jobs' = Added(jobs, q, u, s) /\ CountId(q)
    /\ UNCHANGED <<domain, net, stored, done, fired, generated, landings>>

DispatchCrash(u, s) ==
    /\ ~robotsBlocked[u]
    /\ \E M \in SUBSET Trackers[u] : M # {} /\ OpenSlot(s, M, FALSE)
    /\ UNCHANGED <<jobs, ids, domain, net, stored, done, fired, generated, landings>>

\* add_competitor's immediate probe: a job that belongs to no cycle (one for a
\* URL, a bound).
EnqueueProbe(u) ==
    /\ u \in NewlyAdded /\ Trackers[u] # {}
    /\ \A j \in JobIds : jobs[j].slot = NoSlot => jobs[j].url # u
    /\ RoomForJob
    /\ jobs' = Added(jobs, "probe", u, NoSlot)
    /\ CountId("probe")
    /\ UNCHANGED <<slots, domain, net, stored, barrier>>
-----------------------------------------------------------------------------
\* Fault: the follow-up job is added without its merchant_cycle_ids.
ProbeFollowUpDropsCycles(j, class, out) ==
    /\ jobs[j].st = "wait" /\ jobs[j].queue = "probe"
    /\ class \in {"http_ok", "js_required"} /\ out \in {"classified", "error"}
    /\ RoomForJob
    /\ domainClass' = [domainClass EXCEPT ![DomainOf[jobs[j].url]] = class]
    /\ LET q == queue_for_class(class)
       IN  /\ jobs' = Returning(Added(jobs, q, jobs[j].url, NoSlot), j, out)
           /\ CountId(q)
    /\ UNCHANGED <<slots, httpFail, robotsBlocked, excluded, net, stored, barrier>>

(***************************************************************************)
(* The probe worker.  It throws when Redis or the queue fails under it:    *)
(* after an `add' whose answer is lost the follow-up job exists as well.   *)
(***************************************************************************)
ProbeFollowUp(j, class, out) ==
    /\ jobs[j].st = "wait" /\ jobs[j].queue = "probe"
    /\ class \in {"http_ok", "js_required"} /\ out \in {"classified", "error"}
    /\ RoomForJob
    /\ domainClass' = [domainClass EXCEPT ![DomainOf[jobs[j].url]] = class]
    /\ LET q == queue_for_class(class)
       IN  /\ jobs' = Returning(Added(jobs, q, jobs[j].url, jobs[j].slot), j, out)
           /\ CountId(q)
    /\ UNCHANGED <<slots, httpFail, robotsBlocked, excluded, net, stored, barrier>>

\* It throws before the `add', with or without the class written.
ProbeThrows(j) ==
    /\ jobs[j].st = "wait" /\ jobs[j].queue = "probe"
    /\ \/ UNCHANGED domainClass
       \/ \E class \in {"http_ok", "js_required", "blocked"} :
             domainClass' = [domainClass EXCEPT ![DomainOf[jobs[j].url]] = class]
    /\ jobs' = Returning(jobs, j, "error")
    /\ UNCHANGED <<slots, ids, httpFail, robotsBlocked, excluded, net, stored, barrier>>

\* A URL that robots.txt or a bot wall blocks: the notice to the router is
\* best-effort and carries no merchant_cycle_ids.
ProbeBlocked(j) ==
    /\ jobs[j].st = "wait" /\ jobs[j].queue = "probe"
    /\ domainClass' = [domainClass EXCEPT ![DomainOf[jobs[j].url]] = "blocked"]
    /\ net' = net \cup {[kind |-> "blocked", job |-> j, run |-> Run(j), val |-> NoValue]}
    /\ jobs' = Returning(jobs, j, "blocked")
    /\ UNCHANGED <<slots, ids, httpFail, robotsBlocked, excluded, stored, barrier>>

(***************************************************************************)
(* The http worker.  Both a network error and a page without a price run   *)
(* incrementHttpFailCounter, which may add a playwright job for the scrape.*)
(* Thirty handlers run side by side and the INCR and the DEL are two       *)
(* commands: an INCR between those of another handler finds the limit      *)
(* reached as well, as if that DEL had not happened.  At the limit the     *)
(* handler may throw after any of its commands.                            *)
(***************************************************************************)
incrementHttpFailCounter(j, out) ==
    LET d == DomainOf[jobs[j].url]
    IN  \/ /\ httpFail[d] + 1 < HTTP_FAIL_LIMIT
           /\ httpFail' = [httpFail EXCEPT ![d] = @ + 1]
           /\ jobs' = Returning(jobs, j, out)
           /\ UNCHANGED <<ids, domainClass>>
        \/ /\ httpFail[d] + 1 >= HTTP_FAIL_LIMIT
           /\ RoomForJob
           /\ domainClass' = [domainClass EXCEPT ![d] = "js_required"]
           /\ \E n \in {0, HTTP_FAIL_LIMIT} : httpFail' = [httpFail EXCEPT ![d] = n]
           /\ jobs' = Returning(Added(jobs, "playwright", jobs[j].url, jobs[j].slot), j, out)
           /\ CountId("playwright")
        \/ /\ httpFail[d] + 1 >= HTTP_FAIL_LIMIT /\ out = "error"
           /\ \E class \in {domainClass[d], "js_required"} :
                 domainClass' = [domainClass EXCEPT ![d] = class]
           /\ \E n \in {0, HTTP_FAIL_LIMIT} : httpFail' = [httpFail EXCEPT ![d] = n]
           /\ jobs' = Returning(jobs, j, out)
           /\ UNCHANGED ids

HttpNoPrice(j, out) ==
    /\ jobs[j].st = "wait" /\ jobs[j].queue = "http"
    /\ out \in {"error", "unusable"}
    /\ incrementHttpFailCounter(j, out)
    /\ UNCHANGED <<slots, robotsBlocked, excluded, net, stored, barrier>>

\* A parsed page resets the counter; validation may still reject it.
HttpInvalid(j) ==
    /\ jobs[j].st = "wait" /\ jobs[j].queue = "http"
    /\ httpFail' = [httpFail EXCEPT ![DomainOf[jobs[j].url]] = 0]
    /\ jobs' = Returning(jobs, j, "unusable")
    /\ UNCHANGED <<slots, ids, domainClass, robotsBlocked, excluded, net, stored, barrier>>

\* The handler throws without a fetch error: before it has fetched, or once it
\* has parsed, with or without the counter reset.
HttpThrows(j) ==
    /\ jobs[j].st = "wait" /\ jobs[j].queue = "http"
    /\ \E n \in {0, httpFail[DomainOf[jobs[j].url]]} :
          httpFail' = [httpFail EXCEPT ![DomainOf[jobs[j].url]] = n]
    /\ jobs' = Returning(jobs, j, "error")
    /\ UNCHANGED <<slots, ids, domainClass, robotsBlocked, excluded, net, stored, barrier>>

\* postPriceSnapshot: the worker waits for the response of this run's request.
PostPriceSnapshot(j, v) ==
    /\ net' = net \cup {[kind |-> "snapshot", job |-> j, run |-> Run(j), val |-> v]}
    /\ jobs' = [jobs EXCEPT ![j].st = "posting"]

HttpPost(j, v) ==
    /\ jobs[j].st = "wait" /\ jobs[j].queue = "http"
    /\ httpFail' = [httpFail EXCEPT ![DomainOf[jobs[j].url]] = 0]
    /\ PostPriceSnapshot(j, v)
    /\ UNCHANGED <<slots, ids, domainClass, robotsBlocked, excluded, stored, barrier>>

(***************************************************************************)
(* The playwright worker: navigation errors throw, a page without a price  *)
(* and an invalid result end the job, the rest is posted.                  *)
(***************************************************************************)
PlaywrightNoResult(j, out) ==
    /\ jobs[j].st = "wait" /\ jobs[j].queue = "playwright"
    /\ out \in {"error", "unusable"}
    /\ jobs' = Returning(jobs, j, out)
    /\ UNCHANGED <<slots, ids, domain, net, stored, barrier>>

PlaywrightPost(j, v) ==
    /\ jobs[j].st = "wait" /\ jobs[j].queue = "playwright"
    /\ PostPriceSnapshot(j, v)
    /\ UNCHANGED <<slots, ids, domain, stored, barrier>>

\* moveToDelayed of the http and playwright workers, which costs no attempt;
\* nothing bounds how often a job is put off.
WorkerDelays(j) ==
    /\ jobs[j].st = "wait" /\ jobs[j].queue \in {"http", "playwright"}
    /\ jobs' = [jobs EXCEPT ![j].st = "delayed"]
    /\ UNCHANGED <<slots, ids, domain, net, stored, barrier>>

DelayEnds(j) ==
    /\ jobs[j].st = "delayed"
    /\ jobs' = [jobs EXCEPT ![j].st = "wait"]
    /\ UNCHANGED <<slots, ids, domain, net, stored, barrier>>
-----------------------------------------------------------------------------
\* Fault: one attempt too many.
JobReturnsOneMore(j) ==
    /\ jobs[j].st = "returning"
    /\ LET made == jobs[j].attempts + 1
       IN  jobs' = [jobs EXCEPT ![j] =
                       IF jobs[j].out # "error" THEN [@ EXCEPT !.st = "completed"]
                       ELSE [@ EXCEPT !.attempts = made,
                                      !.st = IF made <= MaxAttempts THEN "wait" ELSE "failed"]]
    /\ UNCHANGED <<slots, ids, domain, net, stored, barrier>>

\* Fault: a thrown handler does not cost an attempt.
JobReturnsForever(j) ==
    /\ jobs[j].st = "returning"
    /\ jobs' = [jobs EXCEPT ![j].st = IF jobs[j].out = "error" THEN "wait" ELSE "completed"]
    /\ UNCHANGED <<slots, ids, domain, net, stored, barrier>>

(***************************************************************************)
(* BullMQ: a returned handler completes the job, a thrown one costs an     *)
(* attempt, and a job whose worker died is reclaimed MaxStalls times.      *)
(***************************************************************************)
JobReturns(j) ==
    /\ jobs[j].st = "returning"
    /\ LET thrown == jobs[j].out = "error"
           made   == jobs[j].attempts + 1
       IN  jobs' = [jobs EXCEPT ![j] =
                       IF ~thrown THEN [@ EXCEPT !.st = "completed"]
                       ELSE [@ EXCEPT !.attempts = made,
                                      !.st = IF made < MaxAttempts THEN "wait" ELSE "failed"]]
    /\ UNCHANGED <<slots, ids, domain, net, stored, barrier>>

JobStalls(j) ==
    /\ jobs[j].st \in {"wait", "posting", "returning"}
    /\ jobs' = [jobs EXCEPT ![j] =
                   IF jobs[j].stalls < MaxStalls
                   THEN [@ EXCEPT !.st = "wait", !.stalls = jobs[j].stalls + 1, !.out = "none"]
                   ELSE [@ EXCEPT !.st = "failed", !.out = "stalled"]]
    /\ UNCHANGED <<slots, ids, domain, net, stored, barrier>>

\* The workers' `failed' handler: it returns early unless the attempts are
\* used up, then dead-letters the job and posts /scrape-failed.
OnFailed(j) ==
    /\ jobs[j].st = "failed"
    /\ jobs' = [jobs EXCEPT ![j].st = "dead"]
    /\ net' = IF jobs[j].attempts >= MaxAttempts
              THEN net \cup {[kind |-> "failed", job |-> j, run |-> Run(j), val |-> NoValue]}
              ELSE net
    /\ UNCHANGED <<slots, ids, domain, stored, barrier>>

\* domain:class is written with a TTL of seven days.
ClassExpires(d) ==
    /\ "class" \in Expiring /\ domainClass[d] # "none"
    /\ domainClass' = [domainClass EXCEPT ![d] = "none"]
    /\ UNCHANGED <<slots, jobs, ids, httpFail, robotsBlocked, excluded, net, stored, barrier>>

\* Support adds a domain to the exclusion list.
Exclude(d) ==
    /\ d \in Excludable \ excluded
    /\ excluded' = excluded \cup {d}
    /\ UNCHANGED <<slots, jobs, ids, domainClass, httpFail, robotsBlocked, net, stored, barrier>>
-----------------------------------------------------------------------------
(***************************************************************************)
(* The internal router.  The barrier lives in Redis and the snapshots in   *)
(* Postgres: _record_cycles takes effect at once, while the rows and the   *)
(* signals of a fired cycle appear when the transaction commits, or never. *)
(***************************************************************************)
MerchantsOf(slot) == IF slot = NoSlot THEN {} ELSE slots[slot].merchants

\* record_scrape for each merchant of the slot, and _fire_cycle_signals.
RecordCycles(slot, committed) ==
    LET M == MerchantsOf(slot)
        F == {m \in M : expected[m] > 0 /\ done[m] + 1 >= expected[m] /\ ~fired[m]}
    IN  /\ done' = [m \in Merchants |-> done[m] + (IF m \in M THEN 1 ELSE 0)]
        /\ fired' = [m \in Merchants |-> fired[m] \/ m \in F]
        /\ generated' = [m \in Merchants |-> generated[m] \/ (committed /\ m \in F)]
        /\ landings' = [s \in SlotIds |-> landings[s] + (IF s = slot THEN 1 ELSE 0)]
        /\ UNCHANGED expected

\* Each key of a cycle has a TTL and a clock of its own.
CycleKeyExpires(m) ==
    /\ \/ /\ "expected" \in Expiring /\ expected[m] > 0
          /\ expected' = [expected EXCEPT ![m] = 0]
          /\ UNCHANGED <<done, fired>>
       \/ /\ "done" \in Expiring /\ done[m] > 0
          /\ done' = [done EXCEPT ![m] = 0]
          /\ UNCHANGED <<expected, fired>>
       \/ /\ "fired" \in Expiring /\ fired[m]
          /\ fired' = [fired EXCEPT ![m] = FALSE]
          /\ UNCHANGED <<expected, done>>
    /\ UNCHANGED <<slots, jobs, ids, domain, net, stored, generated, landings>>

\* What the sender of r makes of the response, if it is still waiting for it.
Respond(r, ok) ==
    jobs' = IF jobs[r.job].st = "posting" /\ Run(r.job) = r.run
            THEN Returning(jobs, r.job, IF ok THEN "written" ELSE "error")
            ELSE jobs

\* job_uuid is derived from the job's id alone, which each queue counts for
\* itself.
JobUuid(j) == jobs[j].id

Stored(j) == \E row \in rows : row.uuid = JobUuid(j)

(***************************************************************************)
(* _ingest of one snapshot: an excluded domain is dropped, an unchanged    *)
(* value is not stored but advances the cycle, and ON CONFLICT makes a     *)
(* known job_uuid a no-op.                                                 *)
(***************************************************************************)
IngestDropped(r) ==
    /\ LET u == jobs[r.job].url
       IN  \/ DomainOf[u] \in excluded
           \/ DomainOf[u] \notin excluded /\ last[u] # r.val /\ Stored(r.job)
    /\ UNCHANGED <<stored, barrier>>

IngestUnchanged(r, committed) ==
    /\ DomainOf[jobs[r.job].url] \notin excluded
    /\ last[jobs[r.job].url] = r.val
    /\ RecordCycles(jobs[r.job].slot, committed)
    /\ UNCHANGED stored

\* Fault: a stored snapshot does not advance the cycle.
IngestNewUncounted(r, committed) ==
    LET u == jobs[r.job].url
    IN  /\ DomainOf[u] \notin excluded /\ last[u] # r.val /\ ~Stored(r.job)
        /\ UNCHANGED barrier
        /\ \/ /\ committed
              /\ rows' = rows \cup {[uuid |-> JobUuid(r.job), job |-> r.job, val |-> r.val]}
              /\ last' = [last EXCEPT ![u] = r.val]
           \/ ~committed /\ UNCHANGED stored

IngestNew(r, committed) ==
    LET u == jobs[r.job].url
    IN  /\ DomainOf[u] \notin excluded
        /\ last[u] # r.val
        /\ ~Stored(r.job)
        /\ RecordCycles(jobs[r.job].slot, committed)
        /\ \/ /\ committed
              /\ rows' = rows \cup {[uuid |-> JobUuid(r.job), job |-> r.job, val |-> r.val]}
              /\ last' = [last EXCEPT ![u] = r.val]
           \/ ~committed /\ UNCHANGED stored

\* The request is served; the transaction commits or fails; the response
\* of a committed one arrives or is lost.
ServeSnapshot(r, committed, heard) ==
    /\ r.kind = "snapshot"
    /\ heard => committed
    /\ \/ committed /\ IngestDropped(r)
       \/ IngestUnchanged(r, committed)
       \/ IngestNew(r, committed)
    /\ net' = net \ {r}
    /\ Respond(r, heard)
    /\ UNCHANGED <<slots, ids, domain>>

ServeScrapeFailed(r, committed) ==
    /\ r.kind = "failed"
    /\ RecordCycles(jobs[r.job].slot, committed)
    /\ net' = net \ {r}
    /\ UNCHANGED <<slots, jobs, ids, domain, stored>>

\* domain_blocked marks every URL of the domain; the probe sends no cycles.
ServeDomainBlocked(r) ==
    /\ r.kind = "blocked"
    /\ robotsBlocked' = [u \in Urls |->
            robotsBlocked[u] \/ DomainOf[u] = DomainOf[jobs[r.job].url]]
    /\ net' = net \ {r}
    /\ UNCHANGED <<slots, jobs, ids, domainClass, httpFail, excluded, stored, barrier>>

\* A request that does not arrive, is refused, or fails before it has any
\* effect.
LoseRequest(r) ==
    /\ net' = net \ {r}
    /\ \/ r.kind = "snapshot" /\ Respond(r, FALSE)
       \/ r.kind = "failed" /\ jobs' = [jobs EXCEPT ![r.job].out = "unreported"]
       \/ r.kind = "blocked" /\ UNCHANGED jobs
    /\ UNCHANGED <<slots, ids, domain, stored, barrier>>
-----------------------------------------------------------------------------
WorkerStep(j) ==
    \/ \E class \in {"http_ok", "js_required"}, out \in {"classified", "error"} :
          ProbeFollowUp(j, class, out)
    \/ ProbeBlocked(j)
    \/ ProbeThrows(j)
    \/ \E out \in {"error", "unusable"} : HttpNoPrice(j, out)
    \/ HttpInvalid(j)
    \/ HttpThrows(j)
    \/ \E v \in Values : HttpPost(j, v)
    \/ \E out \in {"error", "unusable"} : PlaywrightNoResult(j, out)
    \/ \E v \in Values : PlaywrightPost(j, v)

\* What is done for job j, in whatever state it is.
JobStep(j) ==
    WorkerStep(j) \/ WorkerDelays(j) \/ DelayEnds(j) \/ JobReturns(j) \/ OnFailed(j)

RouterStep ==
    \E r \in net :
        \/ \E committed, heard \in BOOLEAN : ServeSnapshot(r, committed, heard)
        \/ \E committed \in BOOLEAN : ServeScrapeFailed(r, committed)
        \/ ServeDomainBlocked(r)
        \/ LoseRequest(r)

Next ==
    \/ \E u \in Urls, s \in SlotIds : Dispatch(u, s) \/ DispatchCrash(u, s)
    \/ \E u \in Urls : EnqueueProbe(u)
    \/ \E j \in JobIds : JobStep(j) \/ JobStalls(j)
    \/ RouterStep
    \/ \E m \in Merchants : CycleKeyExpires(m)
    \/ \E d \in Domains : ClassExpires(d) \/ Exclude(d)

Spec == Init /\ [][Next]_vars

\* Workers keep taking a job, to work on it or to put it off, handlers and
\* delays end, and requests are served or lost.
Fairness == (\A j \in JobIds : WF_vars(JobStep(j))) /\ WF_vars(RouterStep)

FairSpec == Spec /\ Fairness
-----------------------------------------------------------------------------
(***************************************************************************)
(* Properties.                                                             *)
(***************************************************************************)
Requests == [kind : {"snapshot", "failed", "blocked"}, job : JobIds, run : Nat,
             val : Values \cup {NoValue}]
JobStates == {"free", "wait", "delayed", "posting", "returning", "completed", "failed", "dead"}
Outcomes == {"none", "classified", "blocked", "error", "unusable",
             "written", "stalled", "unreported"}

\* Types of the queues, the requests, the stored rows and the counters.
TypeOK ==
    /\ slots \in [SlotIds -> [open : BOOLEAN, enqueued : BOOLEAN,
                              merchants : SUBSET Merchants]]
    /\ jobs \in [JobIds -> [st : JobStates, queue : Queues, id : Nat,
                            url : Urls \cup {"none"}, slot : SlotIds \cup {NoSlot},
                            attempts : 0..MaxAttempts, stalls : 0..MaxStalls,
                            out : Outcomes]]
    /\ \A j \in JobIds : jobs[j].st # "free" => jobs[j].url \in Urls
    /\ ids \in [Queues -> Nat]
    /\ domainClass \in [Domains -> {"none", "http_ok", "js_required", "blocked"}]
    /\ httpFail \in [Domains -> 0..HTTP_FAIL_LIMIT]
    /\ robotsBlocked \in [Urls -> BOOLEAN]
    /\ excluded \subseteq Domains
    /\ net \subseteq Requests
    /\ \A r \in net : jobs[r.job].st # "free"
    /\ rows \subseteq [uuid : Nat, job : JobIds, val : Values]
    /\ last \in [Urls -> Values \cup {NoValue}]
    /\ expected \in [Merchants -> Nat]
    /\ done \in [Merchants -> Nat]
    /\ fired \in [Merchants -> BOOLEAN]
    /\ generated \in [Merchants -> BOOLEAN]
    /\ landings \in [SlotIds -> Nat]

\* A job that BullMQ or its worker still has work to do for.
Live(j) == jobs[j].st \in {"wait", "delayed", "posting", "returning", "failed"}

\* Everything that still may land slot s: a live job or a request under way.
Pending(s) ==
    \/ \E j \in JobIds : jobs[j].slot = s /\ Live(j)
    \/ \E r \in net : r.kind # "blocked" /\ jobs[r.job].slot = s

\* A job of slot s that ended without telling the barrier: its page had no
\* usable price, its domain was blocked, its worker died too often or its
\* failure report was lost, or the router took the snapshot and dropped it
\* because the domain is excluded or another job's row has its job_uuid.
EndedSilently(j) ==
    \/ /\ jobs[j].st = "completed"
       /\ \/ jobs[j].out \in {"unusable", "blocked"}
          \/ jobs[j].out = "written" /\ DomainOf[jobs[j].url] \in excluded
          \/ jobs[j].out = "written" /\ \E row \in rows : row.uuid = JobUuid(j) /\ row.job # j
    \/ jobs[j].st = "dead" /\ jobs[j].out \in {"stalled", "unreported"}

\* No scrape is lost on any path but the silent ones: a slot that has not
\* landed still has a job or a request under way, or its dispatcher died
\* before the enqueue, or one of its jobs ended silently.  Handovers from
\* probe to fetch, reclassification, retries, stalls, lost responses and
\* failed transactions never drop a slot.
UnlandedSlotsExplained ==
    \A s \in SlotIds :
        slots[s].open /\ landings[s] = 0 =>
            \/ Pending(s)
            \/ ~slots[s].enqueued
            \/ \E j \in JobIds : jobs[j].slot = s /\ EndedSilently(j)

\* What Postgres holds has been counted in Redis: a stored snapshot of a
\* dispatched scrape has advanced the barrier, whatever transaction failed or
\* response was lost on the way.
RowsHaveLanded ==
    \A row \in rows : jobs[row.job].slot # NoSlot => landings[jobs[row.job].slot] > 0

SlotsOf(m) == {s \in SlotIds : m \in slots[s].merchants}

\* The barrier does not open early: when it fires, every slot the merchant has
\* opened in the cycle so far has landed.  Hand-overs from queue to queue,
\* failure reports, keys that expire before others and repeated fires keep to
\* that; the exception is a slot that landed twice (a retry after a lost
\* answer, or both jobs of a scrape that was handed over by a handler that
\* then threw), whose second landing counts for a slot that has not landed.
FiresWhenLanded ==
    [][\A m \in Merchants :
          fired'[m] /\ ~fired[m] =>
              \/ \A s \in SlotsOf(m) : landings'[s] > 0
              \/ \E s \in SlotsOf(m) : landings'[s] > 1]_vars

\* A scrape (of a slot, or the probe of a newly added URL) comes to an end
\* unless its jobs are put off for ever: once none of them is delayed any more,
\* every job and every request of it is done with.  Attempts, reclaims and the
\* hand-overs from queue to queue run out, and no handler waits for another
\* job; nothing bounds the delays.
ScrapesEnd ==
    \A s \in SlotIds \cup {NoSlot} :
        <>[](\A j \in JobIds : jobs[j].slot = s => jobs[j].st # "delayed")
            => (Pending(s) ~> ~Pending(s))
-----------------------------------------------------------------------------
(***************************************************************************)
(* What the code's comments say of it.                                     *)
(***************************************************************************)
\* services/cycle_coordinator.py:6-8: the cycle "fires signal generation
\* exactly once": the signals of a fired cycle were generated.
FiredGenerates == \A m \in Merchants : fired[m] => generated[m]
=============================================================================
