------------------------------- MODULE Billing -------------------------------
(***************************************************************************)
(* One merchant's plan: routers/billing.py, services/billing.py,           *)
(* services/trials.py and start_trial, against Razorpay.                   *)
(*                                                                         *)
(* Every entry into the API (a user's request, a webhook delivery, the     *)
(* trial cron) is a process: it loads the merchant's row, decides on what  *)
(* it loaded, talks to Razorpay with no lock held, and commits the columns *)
(* it changed.  Razorpay keeps the subscriptions, sends an event for what  *)
(* happens to one, and redelivers it, in any order, until it is accepted.  *)
(* A plan is its index in PLAN_HIERARCHY; 0 is free, 1 is recon.           *)
(***************************************************************************)
EXTENDS Integers, FiniteSets

CONSTANTS
    Requests,     \* API requests that may be open at the same time
    SelfServe,    \* the plans that are sold, a set of indices
    Kinds,        \* the add-on types
    AllowedOn,    \* the plans each add-on type may be bought on
    MAX_ADDONS,
    TotalCount,   \* total_count of a subscription
    Faults,       \* may calls to Razorpay fail and processes die?
    MaxAsks,      \* bound on requests of the user
    MaxSubs,      \* bound on subscriptions
    MaxCharges    \* bound on charges per subscription

ASSUME BillingAssumption ==
    /\ SelfServe \subseteq Nat \ {0}
    /\ 1 \in SelfServe
    /\ SelfServe \cap Kinds = {}
    /\ AllowedOn \in [Kinds -> SUBSET Nat]
    /\ {MAX_ADDONS, TotalCount, MaxAsks, MaxSubs, MaxCharges} \subseteq Nat
    /\ Faults \in BOOLEAN

VARIABLES
    row,       \* the merchants row
    addons,    \* the merchant_addons rows
    recorded,  \* processed_webhook_events
    req,       \* each request: where it is, what it loaded and is about to do
    rzp,       \* the subscriptions at Razorpay
    sent,      \* the events Razorpay has sent
    applied,   \* history: the events whose effect has been committed
    asks,      \* history: the user's requests so far
    orphaned   \* history: add-on subscriptions whose last trace was lost, or will be

vars == <<row, addons, recorded, req, rzp, sent, applied, asks, orphaned>>

Plans  == {0} \cup SelfServe
Subs   == 1..MaxSubs
NoSub  == 0
Items  == SelfServe \cup Kinds
NoItem == -1
NoEvent == [kind |-> "none", sub |-> NoSub, n |-> 0]

FreeRow == [plan |-> 0, sub |-> NoSub, trial |-> "none", cancelAt |-> FALSE, ends |-> FALSE]
Idle == [pc |-> "idle", saw |-> FreeRow, item |-> NoItem, sub |-> NoSub,
         batch |-> {}, ev |-> NoEvent]
-----------------------------------------------------------------------------
(***************************************************************************)
(* What a process shares with the others.                                  *)
(***************************************************************************)
\* The session writes the columns whose value differs from the loaded one.
Flushed(saw, new) ==
    [f \in DOMAIN row |-> IF new[f] = saw[f] THEN row[f] ELSE new[f]]

\* A cancellation has flushed its UPDATE and holds the row while it calls
\* Razorpay for the add-ons; another write of the row waits.
Writable(q) ==
    \A p \in Requests \ {q} : ~(req[p].pc = "downgrade" /\ req[p].ev # NoEvent)

Goto(q, pc) == req' = [req EXCEPT ![q].pc = pc]
Record(q) == req' = [req EXCEPT ![q] = [Idle EXCEPT !.pc = "record", !.ev = req[q].ev]]
Ends(q) == req' = [req EXCEPT ![q] = Idle]

\* A request starts by loading the row.
Begin(q, r) ==
    /\ req[q].pc = "idle"
    /\ req' = [req EXCEPT ![q] = [r EXCEPT !.saw = row]]

Ask(q, r) ==
    /\ asks < MaxAsks
    /\ asks' = asks + 1
    /\ Begin(q, r)

LiveSub(s) == rzp[s].st \in {"created", "active"}

\* Razorpay ends a subscription, and sends an event that says so.
EndSub(s) ==
    IF LiveSub(s)
    THEN /\ rzp' = [rzp EXCEPT ![s].st = "ended"]
         /\ sent' = sent \cup {[kind |-> "cancelled", sub |-> s, n |-> 0]}
    ELSE UNCHANGED <<rzp, sent>>

\* The last that knew of an add-on's subscription is gone, or will be.
Orphan(s) == orphaned' = IF rzp'[s].item \in Kinds THEN orphaned \cup {s} ELSE orphaned

\* cancel_subscription is best-effort: nobody looks at a failure.
CancelSubscription(s) ==
    \/ EndSub(s) /\ UNCHANGED orphaned
    \/ Faults /\ UNCHANGED <<rzp, sent>> /\ Orphan(s)
-----------------------------------------------------------------------------
Init ==
    /\ row = FreeRow
    /\ addons = {}
    /\ recorded = {}
    /\ req = [q \in Requests |-> Idle]
    /\ rzp = [s \in Subs |-> [st |-> "unused", item |-> NoItem, atEnd |-> FALSE, charges |-> 0]]
    /\ sent = {}
    /\ applied = {}
    /\ asks = 0
    /\ orphaned = {}

(***************************************************************************)
(* subscribe, and upgrade, which is subscribe to a higher plan: create at  *)
(* Razorpay, point the row at it and commit, cancel the previous one.      *)
(***************************************************************************)
Subscribe(q, plan) ==
    /\ Ask(q, [Idle EXCEPT !.pc = "create", !.item = plan])
    /\ UNCHANGED <<row, addons, recorded, rzp, sent, applied, orphaned>>

\* create_subscription, for a plan or an add-on; a call that fails, or whose
\* response is lost, ends the request with 502.
CreateSubscription(q) ==
    /\ req[q].pc = "create"
    /\ \/ \E s \in Subs :
             /\ rzp[s].st = "unused" /\ \A t \in 1..(s - 1) : rzp[t].st # "unused"
             /\ rzp' = [rzp EXCEPT ![s].st = "created", ![s].item = req[q].item]
             /\ \/ /\ req' = [req EXCEPT ![q].sub = s,
                         ![q].pc = IF req[q].item \in Kinds THEN "insert" ELSE "point"]
                   /\ UNCHANGED orphaned
                \/ Faults /\ Ends(q) /\ Orphan(s)
       \/ /\ Faults \/ \A s \in Subs : rzp[s].st # "unused"
          /\ Ends(q)
          /\ UNCHANGED <<rzp, orphaned>>
    /\ UNCHANGED <<row, addons, recorded, sent, applied, asks>>

\* The rest of the request: cancel the subscription the row pointed at.
Superseded(q) ==
    IF req[q].saw.sub = NoSub THEN Ends(q)
    ELSE req' = [req EXCEPT ![q] = [Idle EXCEPT !.pc = "cancelOld", !.sub = req[q].saw.sub]]

\* Fault: the plan is raised before Razorpay has confirmed a payment.
PointAtSubUnpaid(q) ==
    /\ req[q].pc = "point" /\ Writable(q)
    /\ row' = Flushed(req[q].saw, [req[q].saw EXCEPT !.sub = req[q].sub, !.cancelAt = FALSE,
                                                     !.plan = req[q].item])
    /\ Superseded(q)
    /\ UNCHANGED <<addons, recorded, rzp, sent, applied, asks, orphaned>>

PointAtSub(q) ==
    /\ req[q].pc = "point" /\ Writable(q)
    /\ row' = Flushed(req[q].saw, [req[q].saw EXCEPT !.sub = req[q].sub, !.cancelAt = FALSE])
    /\ Superseded(q)
    /\ UNCHANGED <<addons, recorded, rzp, sent, applied, asks, orphaned>>

CancelPrevious(q) ==
    /\ req[q].pc = "cancelOld"
    /\ CancelSubscription(req[q].sub)
    /\ Ends(q)
    /\ UNCHANGED <<row, addons, recorded, applied, asks>>

(***************************************************************************)
(* cancel: at the end of the period, unless that is already scheduled.     *)
(***************************************************************************)
Cancel(q) ==
    /\ row.sub # NoSub /\ ~row.cancelAt
    /\ Ask(q, [Idle EXCEPT !.pc = "cancel"])
    /\ UNCHANGED <<row, addons, recorded, rzp, sent, applied, orphaned>>

\* Razorpay schedules the end of a paid subscription and refuses any other.
CancelAtCycleEnd(q) ==
    /\ req[q].pc = "cancel"
    /\ \/ /\ rzp[req[q].saw.sub].st = "active"
          /\ rzp' = [rzp EXCEPT ![req[q].saw.sub].atEnd = TRUE]
          /\ \/ Goto(q, "cancelWrite")
             \/ Faults /\ Ends(q)
       \/ /\ Faults \/ rzp[req[q].saw.sub].st # "active"
          /\ Ends(q)
          /\ UNCHANGED rzp
    /\ UNCHANGED <<row, addons, recorded, sent, applied, asks, orphaned>>

CancelWrite(q) ==
    /\ req[q].pc = "cancelWrite" /\ Writable(q)
    /\ row' = Flushed(req[q].saw, [req[q].saw EXCEPT !.cancelAt = req[q].saw.ends])
    /\ Ends(q)
    /\ UNCHANGED <<addons, recorded, rzp, sent, applied, asks, orphaned>>

(***************************************************************************)
(* downgrade, and the cancellation of the current subscription, both by    *)
(* apply_downgrade: cancel every add-on read, delete all, write the plan.  *)
(***************************************************************************)
AddonSubs == {a.sub : a \in addons}

Downgrade(q, target) ==
    /\ target < row.plan
    /\ Ask(q, [Idle EXCEPT !.pc = "downgrade", !.batch = AddonSubs,
                           !.item = target])
    /\ UNCHANGED <<row, addons, recorded, rzp, sent, applied, orphaned>>

CancelAddon(q, s) ==
    /\ req[q].pc \in {"downgrade", "remove"} /\ s \in req[q].batch
    /\ CancelSubscription(s)
    /\ req' = [req EXCEPT ![q].batch = @ \ {s}]
    /\ UNCHANGED <<row, addons, recorded, applied, asks>>

\* Fault: the plan is lowered before the add-ons are cancelled.
DowngradeCommitEarly(q) ==
    /\ req[q].pc = "downgrade" /\ Writable(q)
    /\ row' = Flushed(req[q].saw,
                IF req[q].ev = NoEvent THEN [req[q].saw EXCEPT !.plan = req[q].item]
                ELSE [FreeRow EXCEPT !.trial = req[q].saw.trial])
    /\ addons' = {}
    /\ \/ req[q].ev = NoEvent /\ Ends(q) /\ UNCHANGED applied
       \/ req[q].ev # NoEvent /\ Record(q) /\ applied' = applied \cup {req[q].ev}
    /\ UNCHANGED <<recorded, rzp, sent, asks, orphaned>>

DowngradeCommit(q) ==
    /\ req[q].pc = "downgrade" /\ req[q].batch = {} /\ Writable(q)
    /\ row' = Flushed(req[q].saw,
                IF req[q].ev = NoEvent THEN [req[q].saw EXCEPT !.plan = req[q].item]
                ELSE [FreeRow EXCEPT !.trial = req[q].saw.trial])
    /\ addons' = {}
    /\ \/ req[q].ev = NoEvent /\ Ends(q) /\ UNCHANGED applied
       \/ req[q].ev # NoEvent /\ Record(q) /\ applied' = applied \cup {req[q].ev}
    /\ UNCHANGED <<recorded, rzp, sent, asks, orphaned>>

(***************************************************************************)
(* add_addon and remove_addon.                                             *)
(***************************************************************************)
AddAddon(q, kind) ==
    /\ row.plan \in AllowedOn[kind]
    /\ Cardinality(addons) < MAX_ADDONS
    /\ \A a \in addons : a.kind # kind
    /\ Ask(q, [Idle EXCEPT !.pc = "create", !.item = kind])
    /\ UNCHANGED <<row, addons, recorded, rzp, sent, applied, orphaned>>

\* A downgrade that has read the add-ons deletes this one, too.
InsertAddon(q) ==
    /\ req[q].pc = "insert"
    /\ addons' = addons \cup {[kind |-> req[q].item, sub |-> req[q].sub]}
    /\ Ends(q)
    /\ UNCHANGED <<row, recorded, rzp, sent, applied, asks>>
    /\ IF \E p \in Requests : req[p].pc = "downgrade" THEN Orphan(req[q].sub)
       ELSE UNCHANGED orphaned

RemoveAddon(q, a) ==
    /\ Ask(q, [Idle EXCEPT !.pc = "remove", !.sub = a.sub, !.batch = {a.sub}])
    /\ UNCHANGED <<row, addons, recorded, rzp, sent, applied, orphaned>>

DeleteAddon(q) ==
    /\ req[q].pc = "remove" /\ req[q].batch = {}
    /\ addons' = {a \in addons : a.sub # req[q].sub}
    /\ Ends(q)
    /\ UNCHANGED <<row, recorded, rzp, sent, applied, asks, orphaned>>

(***************************************************************************)
(* start_trial, and expire_trials of the daily cron.                       *)
(***************************************************************************)
StartTrial(q) ==
    /\ row.plan = 0
    /\ Ask(q, [Idle EXCEPT !.pc = "trial"])
    /\ UNCHANGED <<row, addons, recorded, rzp, sent, applied, orphaned>>

\* The new trial_ends_at differs from any loaded one.
StartTrialWrite(q) ==
    /\ req[q].pc = "trial" /\ Writable(q)
    /\ row' = [row EXCEPT !.plan = 1, !.trial = "running"]
    /\ Ends(q)
    /\ UNCHANGED <<addons, recorded, rzp, sent, applied, asks, orphaned>>

ExpireSelect(q) ==
    /\ row.plan = 1 /\ row.sub = NoSub /\ row.trial = "over"
    /\ Begin(q, [Idle EXCEPT !.pc = "expire"])
    /\ UNCHANGED <<row, addons, recorded, rzp, sent, applied, asks, orphaned>>

ExpireWrite(q) ==
    /\ req[q].pc = "expire" /\ Writable(q)
    /\ row' = Flushed(req[q].saw, [req[q].saw EXCEPT !.plan = 0, !.trial = "none"])
    /\ Ends(q)
    /\ UNCHANGED <<addons, recorded, rzp, sent, applied, asks, orphaned>>

\* Time passes trial_ends_at.
TrialLapses ==
    /\ row.trial = "running"
    /\ row' = [row EXCEPT !.trial = "over"]
    /\ UNCHANGED <<addons, recorded, req, rzp, sent, applied, asks, orphaned>>
-----------------------------------------------------------------------------
(***************************************************************************)
(* webhook: look the event up, apply it, record it.  A delivery of a       *)
(* recorded event changes nothing and is left out.                         *)
(***************************************************************************)
\* Fault: the event is recorded before it is applied.
WebhookRecordsFirst(q, e) ==
    /\ e \in sent \ recorded
    /\ Begin(q, [Idle EXCEPT !.pc = "apply", !.ev = e])
    /\ recorded' = recorded \cup {e}
    /\ UNCHANGED <<row, addons, rzp, sent, applied, asks, orphaned>>

Webhook(q, e) ==
    /\ e \in sent \ recorded
    /\ Begin(q, [Idle EXCEPT !.pc = "apply", !.ev = e])
    /\ UNCHANGED <<row, addons, recorded, rzp, sent, applied, asks, orphaned>>

\* _apply_activation; the plan of an add-on's subscription is None.
ApplyActivation(q) ==
    LET e == req[q].ev
        item == rzp[e.sub].item
    IN  /\ req[q].pc = "apply" /\ e.kind = "charged"
        /\ \/ item \in Kinds /\ UNCHANGED row
           \/ /\ item \in SelfServe /\ Writable(q)
              /\ row' = Flushed(req[q].saw, [plan |-> item, sub |-> e.sub, trial |-> "none",
                                             cancelAt |-> FALSE, ends |-> TRUE])
        /\ applied' = applied \cup {e}
        /\ Record(q)
        /\ UNCHANGED <<addons, recorded, rzp, sent, asks, orphaned>>

\* _apply_cancellation, of the current subscription of a merchant who is not
\* on free; it clears the subscription fields and runs apply_downgrade.
IsCancellation(q) ==
    LET s == req[q].ev.sub
    IN  rzp[s].item \in SelfServe /\ req[q].saw.plan # 0 /\ req[q].saw.sub = s

ApplyCancellation(q) ==
    /\ req[q].pc = "apply" /\ req[q].ev.kind = "cancelled"
    /\ \/ /\ IsCancellation(q) /\ Writable(q)
          /\ req' = [req EXCEPT ![q].pc = "downgrade", ![q].batch = AddonSubs]
          /\ UNCHANGED applied
       \/ /\ ~IsCancellation(q)
          /\ Record(q)
          /\ applied' = applied \cup {req[q].ev}
    /\ UNCHANGED <<row, addons, recorded, rzp, sent, asks, orphaned>>

\* Any other event only reaches _record_webhook_event.
ApplyOther(q) ==
    /\ req[q].pc = "apply" /\ req[q].ev.kind = "completed"
    /\ Record(q)
    /\ applied' = applied \cup {req[q].ev}
    /\ UNCHANGED <<row, addons, recorded, rzp, sent, asks, orphaned>>

\* Fault: the events of one subscription share an id.
RecordEventBySub(q) ==
    /\ req[q].pc = "record"
    /\ recorded' = recorded \cup {[req[q].ev EXCEPT !.n = 1]}
    /\ Ends(q)
    /\ UNCHANGED <<row, addons, rzp, sent, applied, asks, orphaned>>

RecordEvent(q) ==
    /\ req[q].pc = "record"
    /\ recorded' = recorded \cup {req[q].ev}
    /\ Ends(q)
    /\ UNCHANGED <<row, addons, rzp, sent, applied, asks, orphaned>>

\* The process dies, or its request is cut off; what is uncommitted is gone.
Crash(q) ==
    /\ Faults /\ req[q].pc # "idle"
    /\ Ends(q)
    /\ UNCHANGED <<row, addons, recorded, rzp, sent, applied, asks>>
    /\ IF req[q].pc = "insert" THEN Orphan(req[q].sub) ELSE UNCHANGED orphaned
-----------------------------------------------------------------------------
(***************************************************************************)
(* Razorpay: a subscription is charged, ends after the period in which it  *)
(* was cancelled, is halted when payments fail (both drop the plan), or    *)
(* completes its total_count.                                              *)
(***************************************************************************)
Charge(s) ==
    /\ LiveSub(s) /\ rzp[s].charges < MaxCharges /\ rzp[s].charges < TotalCount
    /\ rzp' = [rzp EXCEPT ![s].st = "active", ![s].charges = @ + 1]
    /\ sent' = sent \cup {[kind |-> "charged", sub |-> s, n |-> rzp[s].charges + 1]}
    /\ UNCHANGED <<row, addons, recorded, req, applied, asks, orphaned>>

PeriodEnds(s) ==
    /\ rzp[s].st = "active" /\ rzp[s].atEnd
    /\ EndSub(s)
    /\ UNCHANGED <<row, addons, recorded, req, applied, asks, orphaned>>

Halts(s) ==
    /\ Faults /\ rzp[s].st = "active"
    /\ EndSub(s)
    /\ UNCHANGED <<row, addons, recorded, req, applied, asks, orphaned>>

Completes(s) ==
    /\ rzp[s].st = "active" /\ rzp[s].charges = TotalCount
    /\ rzp' = [rzp EXCEPT ![s].st = "ended"]
    /\ sent' = sent \cup {[kind |-> "completed", sub |-> s, n |-> 0]}
    /\ UNCHANGED <<row, addons, recorded, req, applied, asks, orphaned>>

UserRequest(q) ==
    \/ \E plan \in SelfServe : Subscribe(q, plan)
    \/ Cancel(q)
    \/ \E target \in Plans : Downgrade(q, target)
    \/ \E kind \in Kinds : AddAddon(q, kind)
    \/ \E a \in addons : RemoveAddon(q, a)
    \/ StartTrial(q)

RequestStep(q) ==
    \/ CreateSubscription(q) \/ PointAtSub(q) \/ CancelPrevious(q)
    \/ CancelAtCycleEnd(q) \/ CancelWrite(q)
    \/ (\E s \in Subs : CancelAddon(q, s)) \/ DowngradeCommit(q)
    \/ InsertAddon(q) \/ DeleteAddon(q)
    \/ StartTrialWrite(q) \/ ExpireWrite(q)
    \/ ApplyActivation(q) \/ ApplyCancellation(q) \/ ApplyOther(q) \/ RecordEvent(q)

Next ==
    \/ \E q \in Requests :
          \/ UserRequest(q)
          \/ ExpireSelect(q)
          \/ \E e \in sent : Webhook(q, e)
          \/ RequestStep(q)
          \/ Crash(q)
    \/ \E s \in Subs : Charge(s) \/ PeriodEnds(s) \/ Halts(s) \/ Completes(s)
    \/ TrialLapses

Spec == Init /\ [][Next]_vars

EventsSent == [kind : {"charged", "cancelled", "completed"}, sub : Subs, n : 0..MaxCharges]
-----------------------------------------------------------------------------
(***************************************************************************)
(* Properties.                                                             *)
(***************************************************************************)
Rows == [plan : Plans, sub : {NoSub} \cup Subs, trial : {"none", "running", "over"},
         cancelAt : BOOLEAN, ends : BOOLEAN]
Pcs == {"idle", "create", "point", "cancelOld", "cancel", "cancelWrite", "downgrade",
        "insert", "remove", "trial", "expire", "apply", "record"}

\* Types of the rows, the requests and Razorpay's subscriptions and events.
TypeOK ==
    /\ row \in Rows
    /\ addons \subseteq [kind : Kinds, sub : Subs]
    /\ sent \subseteq EventsSent
    /\ recorded \subseteq sent
    /\ applied \subseteq sent
    /\ req \in [Requests -> [pc : Pcs, saw : Rows,
                             item : Items \cup {0, NoItem},
                             sub : {NoSub} \cup Subs, batch : SUBSET Subs,
                             ev : EventsSent \cup {NoEvent}]]
    /\ rzp \in [Subs -> [st : {"unused", "created", "active", "ended"},
                         item : Items \cup {NoItem}, atEnd : BOOLEAN, charges : 0..MaxCharges]]
    /\ asks \in 0..MaxAsks
    /\ orphaned \subseteq Subs

Paid(plan) == \E s \in Subs : rzp[s].charges > 0 /\ rzp[s].item = plan

\* No interleaving of requests, deliveries and the cron lifts a merchant above
\* recon (which a trial gives) to a plan above all those he has ever paid for,
\* although each of them writes a plan it decided on from a row loaded earlier.
PlanWasPaid ==
    row.plan > 1 => \E plan \in SelfServe : plan >= row.plan /\ Paid(plan)

\* webhook checks before and records after: an event that is not delivered
\* again has taken effect, wherever the process died.
RecordedWasApplied == recorded \subseteq applied

\* The request that has created this subscription is about to insert its row.
HasRequest(s) == \E q \in Requests : req[q].pc = "insert" /\ req[q].sub = s

\* add_addon, remove_addon, apply_downgrade: nobody pays for an add-on he does not have,
\* but for what is known to go wrong.  Under any overlap of requests, renewals, downgrades
\* and cancellations an add-on subscription that is alive has its row, or its request is
\* about to insert it, or a call to cancel it failed, the answer to its creation or the
\* process before the insert was lost, or the insert came after a downgrade, which then
\* deletes it, had read what to cancel.
OrphansExplained ==
    \A s \in Subs : LiveSub(s) /\ rzp[s].item \in Kinds =>
        s \in AddonSubs \/ HasRequest(s) \/ s \in orphaned

(***************************************************************************)
(* What the code's comments and the docs say of it.                        *)
(***************************************************************************)
\* Nothing is under way: no request is open and every event is recorded.
Quiet == sent = recorded /\ \A q \in Requests : req[q].pc = "idle"

\* routers/billing.py:115-116: the prior subscription is superseded "so the
\* customer isn't billed for both": at rest at most one subscription of a plan
\* is alive and has been charged.
BilledPlans == {s \in Subs : LiveSub(s) /\ rzp[s].charges > 0 /\ rzp[s].item \in SelfServe}

BilledOnce == Quiet => Cardinality(BilledPlans) <= 1
=============================================================================
