----------------------------- MODULE Scheduling -----------------------------
(***************************************************************************)
(* Which URLs are scraped, and when: the dispatcher pods of                *)
(* services/dispatcher.py and the requests of routers/competitors.py, as   *)
(* transactions over competitor_urls and competitor_trackings at READ      *)
(* COMMITTED.  A step is a statement: a read sees what has been committed  *)
(* and what its own transaction wrote, and a write of a locked row waits.  *)
(*                                                                         *)
(* The schedule of a URL is what the code distinguishes: next_run_at is    *)
(* NULL, in the future, or due.  Every computed next_run_at lies in the    *)
(* future (next_run_after), so only the passing of time makes a URL due.   *)
(***************************************************************************)
EXTENDS Integers, FiniteSets

CONSTANTS
    Urls, Trackings, Merchants, Products,
    UrlOf, OwnerOf, ProductOf,   \* the columns of each tracking
    Pods,            \* dispatcher pods
    Requests,        \* API requests that may be open at the same time
    Nobody,          \* the holder of a free lock
    Known,           \* the URLs that already have a registry row
    MerchantLimit,   \* effective_limit of every merchant
    ProductLimit,    \* per_product_limit
    BatchLimit,      \* limit of claim_due_urls
    MaxAdds, MaxDeletes, MaxCrashes   \* bounds on the environment

ASSUME SchedulingAssumption ==
    /\ UrlOf \in [Trackings -> Urls]
    /\ OwnerOf \in [Trackings -> Merchants]
    /\ ProductOf \in [Trackings -> Products]
    /\ \A t, u \in Trackings : ProductOf[t] = ProductOf[u] => OwnerOf[t] = OwnerOf[u]
    /\ \A t, u \in Trackings : ProductOf[t] = ProductOf[u] /\ UrlOf[t] = UrlOf[u] => t = u
    /\ Known \subseteq Urls
    /\ Nobody \notin Pods \cup Requests
    /\ Pods \cap Requests = {}
    /\ {MerchantLimit, ProductLimit, BatchLimit, MaxAdds, MaxDeletes, MaxCrashes} \subseteq Nat
    /\ BatchLimit > 0

VARIABLES
    sched,     \* competitor_urls.next_run_at, committed; "absent" without a row
    blocked,   \* competitor_urls.robots_blocked
    track,     \* competitor_trackings.enabled, committed; "absent" without a row
    rowLock,   \* who holds the lock of each competitor_urls row
    advisory,  \* who holds the advisory lock of each merchant
    pod,       \* each pod: where it is in tick, its batch, its uncommitted writes
    req,       \* each request: where it is, its tracking, what it read and writes
    enqueued,  \* history: jobs enqueued for a URL since it last became due
    lost,      \* history: those of them whose transaction rolled back
    counts     \* history: adds, deletes and crashes so far

database == <<sched, blocked, track>>
locks    == <<rowLock, advisory>>
history  == <<enqueued, lost, counts>>
vars == <<database, locks, pod, req, history>>

PodIdle == [pc |-> "idle", batch |-> {}, writes |-> [u \in Urls |-> "none"]]
ReqIdle == [pc |-> "idle", t |-> "none", saw |-> "none", new |-> "none"]

Count(what) == counts' = [counts EXCEPT ![what] = @ + 1]
-----------------------------------------------------------------------------
Init ==
    /\ sched = [u \in Urls |-> IF u \in Known THEN "null" ELSE "absent"]
    /\ blocked = [u \in Urls |-> FALSE]
    /\ track = [t \in Trackings |-> "absent"]
    /\ rowLock = [u \in Urls |-> Nobody]
    /\ advisory = [m \in Merchants |-> Nobody]
    /\ pod = [p \in Pods |-> PodIdle]
    /\ req = [q \in Requests |-> ReqIdle]
    /\ enqueued = [u \in Urls |-> 0]
    /\ lost = [u \in Urls |-> 0]
    /\ counts = [adds |-> 0, deletes |-> 0, crashes |-> 0]

\* enabled_trackings_for_url, as a transaction sees it that wrote nothing.
EnabledTrackings(u) == {t \in Trackings : UrlOf[t] = u /\ track[t] = "enabled"}

\* refresh_url_schedule: no enabled tracking clears next_run_at.
Refreshed(trackings) == IF trackings = {} THEN "null" ELSE "later"

\* Fault: the EXISTS guard is inverted.
UnscheduledInverted == {u \in Urls : /\ sched[u] = "null" /\ ~blocked[u]
                                     /\ EnabledTrackings(u) = {}
                                     /\ rowLock[u] = Nobody}

(***************************************************************************)
(* tick: heal_unscheduled_urls, then dispatch_due, each one transaction.   *)
(***************************************************************************)
Unscheduled == {u \in Urls : /\ sched[u] = "null" /\ ~blocked[u]
                             /\ EnabledTrackings(u) # {}
                             /\ rowLock[u] = Nobody}
\* Fault: FOR UPDATE SKIP LOCKED is left out of the claim.
DueUnlocked == {u \in Urls : sched[u] = "due" /\ ~blocked[u]}

\* Fault: the claim joins the trackings and never sees an untracked URL.
DueTracked == {u \in Urls : /\ sched[u] = "due" /\ ~blocked[u] /\ rowLock[u] = Nobody
                            /\ EnabledTrackings(u) # {}}

Due == {u \in Urls : sched[u] = "due" /\ ~blocked[u] /\ rowLock[u] = Nobody}

Lock(p, S) == rowLock' = [u \in Urls |-> IF u \in S THEN p ELSE rowLock[u]]
Unlocked(p) == [u \in Urls |-> IF rowLock[u] = p THEN Nobody ELSE rowLock[u]]

\* The pods of one step only touch their own rows, so a commit is a map.
Committed(p) == [u \in Urls |-> IF pod[p].writes[u] = "none" THEN sched[u]
                                ELSE pod[p].writes[u]]

HealSelect(p) ==
    /\ pod[p].pc = "idle"
    /\ Lock(p, Unscheduled)
    /\ pod' = [pod EXCEPT ![p].pc = "heal", ![p].batch = Unscheduled]
    /\ UNCHANGED <<database, advisory, req, history>>

HealRefresh(p, u) ==
    /\ pod[p].pc = "heal" /\ u \in pod[p].batch
    /\ pod' = [pod EXCEPT ![p].batch = @ \ {u},
                          ![p].writes[u] = Refreshed(EnabledTrackings(u))]
    /\ UNCHANGED <<database, locks, req, history>>

HealCommit(p) ==
    /\ pod[p].pc = "heal" /\ pod[p].batch = {}
    /\ sched' = Committed(p)
    /\ rowLock' = Unlocked(p)
    /\ pod' = [pod EXCEPT ![p] = [PodIdle EXCEPT !.pc = "claim"]]
    /\ UNCHANGED <<blocked, track, advisory, req, history>>

\* claim_due_urls: at most BatchLimit rows, those locked by others skipped.
ClaimDueUrls(p) ==
    /\ pod[p].pc = "claim"
    /\ \E S \in SUBSET Due :
          /\ Cardinality(S) <= BatchLimit
          /\ S = Due \/ Cardinality(S) = BatchLimit
          /\ Lock(p, S)
          /\ pod' = [pod EXCEPT ![p].pc = "dispatch", ![p].batch = S]
    /\ UNCHANGED <<database, advisory, req, history>>

\* Fault: a URL without trackers is skipped but its schedule is kept.
DispatchUrlNoPause(p, u) ==
    /\ pod[p].pc = "dispatch" /\ u \in pod[p].batch
    /\ pod' = [pod EXCEPT ![p].batch = @ \ {u},
                          ![p].writes[u] = IF EnabledTrackings(u) = {} THEN "none" ELSE "later"]
    /\ enqueued' = [enqueued EXCEPT ![u] = @ + (IF EnabledTrackings(u) = {} THEN 0 ELSE 1)]
    /\ UNCHANGED <<database, locks, req, lost, counts>>

\* One URL of the batch: paused if nobody tracks it any more, else one job.
DispatchUrl(p, u) ==
    /\ pod[p].pc = "dispatch" /\ u \in pod[p].batch
    /\ pod' = [pod EXCEPT ![p].batch = @ \ {u},
                          ![p].writes[u] = Refreshed(EnabledTrackings(u))]
    /\ enqueued' = [enqueued EXCEPT ![u] = @ + (IF EnabledTrackings(u) = {} THEN 0 ELSE 1)]
    /\ UNCHANGED <<database, locks, req, lost, counts>>

DispatchCommit(p) ==
    /\ pod[p].pc = "dispatch" /\ pod[p].batch = {}
    /\ sched' = Committed(p)
    /\ rowLock' = Unlocked(p)
    /\ pod' = [pod EXCEPT ![p] = PodIdle]
    /\ UNCHANGED <<blocked, track, advisory, req, history>>

\* A pod dies, or its tick raises: the transaction rolls back, the jobs stay.
PodCrash(p) ==
    /\ pod[p].pc # "idle"
    /\ counts.crashes < MaxCrashes /\ Count("crashes")
    /\ rowLock' = Unlocked(p)
    /\ lost' = [u \in Urls |->
                  lost[u] + (IF pod[p].pc = "dispatch" /\ pod[p].writes[u] = "later"
                             THEN 1 ELSE 0)]
    /\ pod' = [pod EXCEPT ![p] = PodIdle]
    /\ UNCHANGED <<database, advisory, req, enqueued>>
-----------------------------------------------------------------------------
\* Fault: no advisory lock.
AddWithoutLock(q, t) ==
    /\ req[q].pc = "idle"
    /\ counts.adds < MaxAdds /\ Count("adds")
    /\ req' = [req EXCEPT ![q] = [ReqIdle EXCEPT !.pc = "check", !.t = t]]
    /\ UNCHANGED <<database, locks, pod, enqueued, lost>>

(***************************************************************************)
(* add_competitor.  The advisory lock of the merchant is held from before  *)
(* the limits are counted until the transaction ends.                      *)
(***************************************************************************)
AddLock(q, t) ==
    /\ req[q].pc = "idle"
    /\ counts.adds < MaxAdds /\ Count("adds")
    /\ advisory[OwnerOf[t]] = Nobody
    /\ advisory' = [advisory EXCEPT ![OwnerOf[t]] = q]
    /\ req' = [req EXCEPT ![q] = [ReqIdle EXCEPT !.pc = "check", !.t = t]]
    /\ UNCHANGED <<database, rowLock, pod, enqueued, lost>>

EnabledOf(m) == {t \in Trackings : OwnerOf[t] = m /\ track[t] = "enabled"}
EnabledFor(r) == {t \in Trackings : ProductOf[t] = r /\ track[t] = "enabled"}

\* The limits (402), the duplicate check (409, which also sees disabled
\* trackings) and the reachability check (422).
AddCheck(q) ==
    /\ req[q].pc = "check"
    /\ LET t == req[q].t
       IN  IF /\ Cardinality(EnabledOf(OwnerOf[t])) < MerchantLimit
              /\ Cardinality(EnabledFor(ProductOf[t])) < ProductLimit
              /\ track[t] = "absent"
           THEN /\ \/ req' = [req EXCEPT ![q].pc = "resolve"]
                   \/ req' = [req EXCEPT ![q].pc = "reject"]
           ELSE req' = [req EXCEPT ![q].pc = "reject"]
    /\ UNCHANGED <<database, locks, pod, history>>

ReqEnds(q) ==
    /\ rowLock' = Unlocked(q)
    /\ advisory' = [m \in Merchants |-> IF advisory[m] = q THEN Nobody ELSE advisory[m]]
    /\ req' = [req EXCEPT ![q] = ReqIdle]

AddReject(q) ==
    /\ req[q].pc = "reject"
    /\ ReqEnds(q)
    /\ UNCHANGED <<database, pod, history>>

\* Fault: the schedule is not refreshed but written back as it was read.
AddResolveUnrefreshed(q) ==
    /\ req[q].pc = "resolve"
    /\ LET u == UrlOf[req[q].t]
       IN  req' = [req EXCEPT ![q].pc = IF sched[u] = "absent" THEN "create" ELSE "write",
                              ![q].saw = sched[u], ![q].new = sched[u]]
    /\ UNCHANGED <<database, locks, pod, history>>

\* The get of the get-or-create of the registry row.
AddResolve(q) ==
    /\ req[q].pc = "resolve"
    /\ LET u == UrlOf[req[q].t]
       IN  req' = [req EXCEPT ![q].pc = IF sched[u] = "absent" THEN "create" ELSE "write",
                              ![q].saw = sched[u], ![q].new = "later"]
    /\ UNCHANGED <<database, locks, pod, history>>

\* The create: the INSERT waits for an uncommitted insert of the same
\* (domain, url_path) and fails on the unique index if that one committed.
AddCreate(q) ==
    /\ req[q].pc = "create"
    /\ LET u == UrlOf[req[q].t]
       IN  \/ /\ rowLock[u] = Nobody /\ sched[u] = "absent"
              /\ rowLock' = [rowLock EXCEPT ![u] = q]
              /\ req' = [req EXCEPT ![q].pc = "write"]
              /\ UNCHANGED advisory
           \/ /\ sched[u] # "absent"
              /\ ReqEnds(q)
    /\ UNCHANGED <<database, pod, history>>

\* Does the session write next_run_at back?  Only if the new value differs
\* from the loaded one; two values in the future may be the same slot.
Writes(q) == IF req[q].saw = "null" /\ req[q].new = "null" THEN {FALSE}
             ELSE IF req[q].saw = "later" /\ req[q].new = "later" THEN BOOLEAN
             ELSE {TRUE}

\* The flush of the registry row waits for its lock; the commit shows the
\* tracking, and the probe of the new competitor is queued.
ReqCommit(q, u, state) ==
    /\ \E w \in Writes(q) :
          /\ w => rowLock[u] \in {Nobody, q}
          /\ sched' = IF w THEN [sched EXCEPT ![u] = req[q].new] ELSE sched
    /\ track' = [track EXCEPT ![req[q].t] = state]
    /\ ReqEnds(q)
    /\ UNCHANGED <<blocked, pod, history>>

AddCommit(q) ==
    /\ req[q].pc = "write"
    /\ ReqCommit(q, UrlOf[req[q].t], "enabled")

(***************************************************************************)
(* delete_competitor: no advisory lock; it refreshes the schedule from the *)
(* trackings it sees, its own already disabled.                            *)
(***************************************************************************)
DeleteRead(q, t) ==
    /\ req[q].pc = "idle"
    /\ counts.deletes < MaxDeletes /\ Count("deletes")
    /\ track[t] # "absent"
    /\ LET u == UrlOf[t]
       IN  req' = [req EXCEPT ![q] = [pc |-> "delete", t |-> t, saw |-> sched[u],
                                      new |-> Refreshed(EnabledTrackings(u) \ {t})]]
    /\ UNCHANGED <<database, locks, pod, enqueued, lost>>

DeleteCommit(q) ==
    /\ req[q].pc = "delete"
    /\ ReqCommit(q, UrlOf[req[q].t], "disabled")

ReqCrash(q) ==
    /\ req[q].pc # "idle"
    /\ counts.crashes < MaxCrashes /\ Count("crashes")
    /\ ReqEnds(q)
    /\ UNCHANGED <<database, pod, enqueued, lost>>
-----------------------------------------------------------------------------
\* domain_blocked waits for the row and is never undone.
DomainBlocked(u) ==
    /\ sched[u] # "absent" /\ ~blocked[u] /\ rowLock[u] = Nobody
    /\ blocked' = [blocked EXCEPT ![u] = TRUE]
    /\ UNCHANGED <<sched, track, locks, pod, req, history>>

\* Time passes next_run_at.
BecomesDue(u) ==
    /\ sched[u] = "later"
    /\ sched' = [sched EXCEPT ![u] = "due"]
    /\ enqueued' = [enqueued EXCEPT ![u] = 0]
    /\ lost' = [lost EXCEPT ![u] = 0]
    /\ UNCHANGED <<blocked, track, locks, pod, req, counts>>

TickStep(p) ==
    \/ HealSelect(p)
    \/ \E u \in Urls : HealRefresh(p, u)
    \/ HealCommit(p)
    \/ ClaimDueUrls(p)
    \/ \E u \in Urls : DispatchUrl(p, u)
    \/ DispatchCommit(p)

RequestStep(q) ==
    \/ AddCheck(q)
    \/ AddReject(q)
    \/ AddResolve(q)
    \/ AddCreate(q)
    \/ AddCommit(q)
    \/ DeleteCommit(q)

Next ==
    \/ \E p \in Pods : TickStep(p) \/ PodCrash(p)
    \/ \E q \in Requests :
          \/ \E t \in Trackings : AddLock(q, t) \/ DeleteRead(q, t)
          \/ RequestStep(q)
          \/ ReqCrash(q)
    \/ \E u \in Urls : DomainBlocked(u) \/ BecomesDue(u)

Spec == Init /\ [][Next]_vars

\* run_dispatcher loops for ever, open requests end, and time passes.  A
\* write that waits for a row lock gets it once the holders keep releasing it.
Fairness ==
    /\ \A p \in Pods : WF_vars(TickStep(p))
    /\ \A q \in Requests : SF_vars(RequestStep(q))
    /\ \A u \in Urls : WF_vars(BecomesDue(u))

FairSpec == Spec /\ Fairness
-----------------------------------------------------------------------------
(***************************************************************************)
(* Properties.                                                             *)
(***************************************************************************)
SchedStates == {"absent", "null", "later", "due"}
ReqPcs == {"idle", "check", "reject", "resolve", "create", "write", "delete"}

\* Types of the rows, the locks and the positions of pods and requests.
TypeOK ==
    /\ sched \in [Urls -> SchedStates]
    /\ blocked \in [Urls -> BOOLEAN]
    /\ track \in [Trackings -> {"absent", "enabled", "disabled"}]
    /\ rowLock \in [Urls -> Pods \cup Requests \cup {Nobody}]
    /\ advisory \in [Merchants -> Requests \cup {Nobody}]
    /\ pod \in [Pods -> [pc : {"idle", "heal", "claim", "dispatch"}, batch : SUBSET Urls,
                         writes : [Urls -> {"none", "null", "later"}]]]
    /\ req \in [Requests -> [pc : ReqPcs, t : Trackings \cup {"none"},
                             saw : SchedStates \cup {"none"},
                             new : {"none", "null", "later"}]]
    /\ \A q \in Requests : req[q].pc # "idle" => req[q].t \in Trackings
    /\ enqueued \in [Urls -> Nat]
    /\ lost \in [Urls -> Nat]
    /\ counts \in [{"adds", "deletes", "crashes"} -> Nat]

\* A due URL is dispatched once: whatever pods run ticks side by side, and
\* whatever requests move the schedule under them, more than one job for the
\* same due time means that a transaction rolled back after its enqueue.
DispatchedOnce == \A u \in Urls : enqueued[u] <= lost[u] + 1

\* The limits of the plan hold however adds of one merchant overlap with each
\* other and with deletes.
LimitsHold ==
    /\ \A m \in Merchants : Cardinality(EnabledOf(m)) <= MerchantLimit
    /\ \A r \in Products : Cardinality(EnabledFor(r)) <= ProductLimit

Tracked(u) == EnabledTrackings(u) # {}

\* heal_unscheduled_urls: a tracked URL never stays without a schedule, also
\* when an add and a delete overwrote each other's next_run_at.
TrackedGetsScheduled ==
    \A u \in Urls :
        Tracked(u) /\ sched[u] = "null" /\ ~blocked[u]
            ~> sched[u] # "null" \/ ~Tracked(u) \/ blocked[u]

\* A due, tracked URL is dispatched (or moved to a later slot by a request).
DueGetsDispatched ==
    \A u \in Urls : sched[u] = "due" /\ ~blocked[u] ~> sched[u] # "due" \/ blocked[u]

\* The dispatcher stops scraping a URL that nobody tracks: even if two deletes
\* each took the other's tracking for enabled, the URL is paused in the end.
UntrackedGetsPaused ==
    \A u \in Urls :
        ~Tracked(u) /\ sched[u] # "absent" ~> sched[u] = "null" \/ Tracked(u) \/ blocked[u]
=============================================================================
