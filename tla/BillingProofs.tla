---------------------------- MODULE BillingProofs ----------------------------
(***************************************************************************)
(* Proofs about one merchant's plan, for any requests, plans, add-ons and  *)
(* subscriptions, with and without faults: what is recorded was applied,   *)
(* no plan above recon was never paid for, and no add-on is paid for in    *)
(* vain but by a call that failed, a process that died or a downgrade that *)
(* overlapped.                                                             *)
(***************************************************************************)
EXTENDS Billing, TLAPS

ReqTypes == [pc : Pcs, saw : Rows, item : Items \cup {0, NoItem}, sub : {NoSub} \cup Subs,
             batch : SUBSET Subs, ev : EventsSent \cup {NoEvent}]

\* A plan a merchant may have: recon, or one he has paid for, or a lower one.
Covered(p) == p > 1 => \E plan \in SelfServe : plan >= p /\ Paid(plan)

\* What a request has decided on stays justified while it talks to Razorpay.
Sound(r) ==
    /\ Covered(r.saw.plan)
    /\ r.pc = "create" => r.item \in Items
    /\ r.pc = "insert" => r.item \in Kinds
    /\ r.pc \in {"insert", "point", "cancelOld", "remove"} => r.sub \in Subs
    /\ r.pc \in {"apply", "record"} => r.ev \in sent
    /\ r.pc = "record" => r.ev \in applied
    /\ r.pc = "downgrade" /\ r.ev = NoEvent => r.item \in Plans /\ r.item < r.saw.plan
    /\ r.pc = "downgrade" /\ r.ev # NoEvent => r.ev \in sent

\* A charge leaves its mark at Razorpay before anybody hears of it.
Charged ==
    /\ \A e \in sent : e.kind = "charged" => rzp[e.sub].charges > 0
    /\ \A s \in Subs : rzp[s].st = "unused" => rzp[s].charges = 0

BillingInv ==
    /\ TypeOK
    /\ Charged
    /\ Covered(row.plan)
    /\ RecordedWasApplied
    /\ \A q \in Requests : Sound(req[q])

\* What only grows: events, and what has been paid for.
Grows ==
    /\ sent \subseteq sent' /\ applied \subseteq applied'
    /\ \A s \in Subs : rzp[s].charges > 0 =>
          rzp'[s].charges > 0 /\ rzp'[s].item = rzp[s].item
-----------------------------------------------------------------------------
LEMMA PlansAreNumbers == SelfServe \subseteq Nat /\ Plans \subseteq Nat
BY BillingAssumption DEF Plans

LEMMA FreeRowInRows == FreeRow \in Rows /\ FreeRow.plan = 0
BY DEF FreeRow, Rows, Plans, NoSub

LEMMA IdleIsSound == Idle \in ReqTypes /\ Sound(Idle)
<1>1. Idle.ev = NoEvent /\ Idle.pc = "idle" /\ Idle.saw = FreeRow
  BY DEF Idle
<1>2. Idle \in ReqTypes
  BY FreeRowInRows DEF Idle, ReqTypes, Pcs, NoItem, NoSub, NoEvent
<1>3. QED
  BY <1>1, <1>2, FreeRowInRows DEF Sound, Covered

\* What is left of a request once it has written the row.
Recording(e) == [Idle EXCEPT !.pc = "record", !.ev = e]
Cancelling(s) == [Idle EXCEPT !.pc = "cancelOld", !.sub = s]

LEMMA RecordIsSound ==
    ASSUME NEW e \in EventsSent, e \in sent', e \in applied'
    PROVE  Recording(e) \in ReqTypes /\ Sound(Recording(e))'
<1>1. Recording(e) \in ReqTypes
  BY IdleIsSound DEF Recording, ReqTypes, Pcs
<1>2. Recording(e).pc = "record" /\ Recording(e).ev = e /\ Recording(e).saw = FreeRow
  BY DEF Recording, Idle
<1>3. QED
  BY <1>1, <1>2, FreeRowInRows DEF Sound, Covered

LEMMA CancelOldIsSound ==
    ASSUME NEW s \in Subs
    PROVE  Cancelling(s) \in ReqTypes /\ Sound(Cancelling(s))'
<1>1. Cancelling(s) \in ReqTypes
  BY IdleIsSound DEF Cancelling, ReqTypes, Pcs
<1>2. Cancelling(s).pc = "cancelOld" /\ Cancelling(s).sub = s /\ Cancelling(s).saw = FreeRow
  BY DEF Cancelling, Idle
<1>3. QED
  BY <1>1, <1>2, FreeRowInRows DEF Sound, Covered

\* Flushing writes, column by column, what was there or what is new.
LEMMA FlushedInRows ==
    ASSUME row \in Rows, NEW saw \in Rows, NEW new \in Rows
    PROVE  /\ Flushed(saw, new) \in Rows
           /\ Flushed(saw, new).plan =
                 IF new.plan = saw.plan THEN row.plan ELSE new.plan
BY DEF Flushed, Rows

\* What was covered stays covered.
LEMMA CoveredStays == ASSUME Grows, NEW p, Covered(p) PROVE Covered(p)'
BY DEF Grows, Covered, Paid

LEMMA SoundStays == ASSUME Grows, NEW r, Sound(r) PROVE Sound(r)'
BY CoveredStays DEF Grows, Sound

\* A step of one request, or of none, leaves the others as they were.
LEMMA RequestsStep ==
    ASSUME BillingInv, Grows, NEW q \in Requests, NEW r \in ReqTypes, Sound(r)',
           req' = [req EXCEPT ![q] = r]
    PROVE  /\ req' \in [Requests -> ReqTypes]
           /\ \A p \in Requests : Sound(req[p])'
<1>1. req \in [Requests -> ReqTypes]
  BY DEF BillingInv, TypeOK, ReqTypes
<1>2. ASSUME NEW p \in Requests PROVE Sound(req[p])'
  <2>1. CASE p = q
    BY <1>1, <2>1 DEF Sound
  <2>2. CASE p # q
    <3>1. req'[p] = req[p]
      BY <1>1, <2>2
    <3>2. Sound(req[p])
      BY DEF BillingInv
    <3>3. QED
      BY <3>1, <3>2, CoveredStays DEF Sound, Grows
  <2>3. QED
    BY <2>1, <2>2
<1>3. QED
  BY <1>1, <1>2
-----------------------------------------------------------------------------
(***************************************************************************)
(* The steps.                                                              *)
(***************************************************************************)
LEMMA BillingStarts == Init => BillingInv
<1> SUFFICES ASSUME Init PROVE BillingInv
  OBVIOUS
<1>1. req \in [Requests -> ReqTypes] /\ \A q \in Requests : Sound(req[q])
  BY IdleIsSound DEF Init, Sound
<1>2. TypeOK
  BY <1>1, FreeRowInRows, BillingAssumption DEF Init, TypeOK, ReqTypes, NoItem
<1>3. QED
  BY <1>1, <1>2, FreeRowInRows DEF Init, BillingInv, Charged, Covered, RecordedWasApplied

\* Starting a request: it saw the row as it is.
LEMMA BeginStep ==
    ASSUME BillingInv, NEW q \in Requests, NEW r \in ReqTypes,
           Begin(q, r), Sound([r EXCEPT !.saw = row]),
           UNCHANGED <<row, addons, recorded, rzp, sent, applied, orphaned>>, asks' \in 0..MaxAsks
    PROVE  BillingInv'
<1> DEFINE new == [r EXCEPT !.saw = row]
<1>1. new \in ReqTypes
  BY DEF BillingInv, TypeOK, ReqTypes
<1>2. Grows
  BY DEF Grows
<1>3. Sound(new)'
  BY <1>2, SoundStays
<1>4. req' = [req EXCEPT ![q] = new]
  BY DEF Begin
<1>5. req' \in [Requests -> ReqTypes] /\ \A p \in Requests : Sound(req[p])'
  BY <1>1, <1>2, <1>3, <1>4, RequestsStep
<1>6. TypeOK'
  BY <1>5 DEF BillingInv, TypeOK, ReqTypes
<1>7. QED
  BY <1>2, <1>5, <1>6, CoveredStays DEF BillingInv, Charged, RecordedWasApplied

LEMMA AskStep ==
    ASSUME BillingInv, NEW q \in Requests, NEW r \in ReqTypes,
           Ask(q, r), Sound([r EXCEPT !.saw = row]),
           UNCHANGED <<row, addons, recorded, rzp, sent, applied, orphaned>>
    PROVE  BillingInv'
<1>1. MaxAsks \in Nat
  BY BillingAssumption
<1>2. asks' \in 0..MaxAsks
  BY <1>1 DEF BillingInv, TypeOK, Ask, Begin
<1>3. QED
  BY <1>2, BeginStep DEF Ask

LEMMA UserStep ==
    ASSUME BillingInv, NEW q \in Requests,
           UserRequest(q) \/ ExpireSelect(q) \/ \E e \in sent : Webhook(q, e)
    PROVE  BillingInv'
<1> DEFINE Started(r) == [r EXCEPT !.saw = row]
<1>0. Idle = [pc |-> "idle", saw |-> FreeRow, item |-> NoItem, sub |-> NoSub,
              batch |-> {}, ev |-> NoEvent]
  BY DEF Idle
<1>1. Covered(row.plan) /\ Idle \in ReqTypes /\ AddonSubs \subseteq Subs /\ asks \in 0..MaxAsks
  BY IdleIsSound DEF BillingInv, TypeOK, AddonSubs
<1>2. ASSUME NEW plan \in SelfServe, Subscribe(q, plan) PROVE BillingInv'
  <2> DEFINE r == [Idle EXCEPT !.pc = "create", !.item = plan]
  <2>1. r \in ReqTypes /\ Sound(Started(r))
    BY <1>0, <1>1 DEF ReqTypes, Pcs, Items, Sound
  <2>2. QED
    BY <1>1, <1>2, <2>1, AskStep DEF Subscribe
<1>3. ASSUME Cancel(q) PROVE BillingInv'
  <2> DEFINE r == [Idle EXCEPT !.pc = "cancel"]
  <2>1. r \in ReqTypes /\ Sound(Started(r))
    BY <1>0, <1>1 DEF ReqTypes, Pcs, Sound
  <2>2. QED
    BY <1>1, <1>3, <2>1, AskStep DEF Cancel
<1>4. ASSUME NEW target \in Plans, Downgrade(q, target) PROVE BillingInv'
  <2> DEFINE r == [Idle EXCEPT !.pc = "downgrade", !.batch = AddonSubs, !.item = target]
  <2>1. r \in ReqTypes /\ Sound(Started(r))
    BY <1>0, <1>1, <1>4 DEF ReqTypes, Pcs, Plans, Items, Sound, Downgrade
  <2>2. QED
    BY <1>1, <1>4, <2>1, AskStep DEF Downgrade
<1>5. ASSUME NEW kind \in Kinds, AddAddon(q, kind) PROVE BillingInv'
  <2> DEFINE r == [Idle EXCEPT !.pc = "create", !.item = kind]
  <2>1. r \in ReqTypes /\ Sound(Started(r))
    BY <1>0, <1>1 DEF ReqTypes, Pcs, Items, Sound
  <2>2. QED
    BY <1>1, <1>5, <2>1, AskStep DEF AddAddon
<1>6. ASSUME NEW a \in addons, RemoveAddon(q, a) PROVE BillingInv'
  <2> DEFINE r == [Idle EXCEPT !.pc = "remove", !.sub = a.sub, !.batch = {a.sub}]
  <2>0. a.sub \in Subs
    BY DEF BillingInv, TypeOK
  <2>1. r \in ReqTypes /\ Sound(Started(r))
    BY <1>0, <1>1, <2>0 DEF ReqTypes, Pcs, Sound
  <2>2. QED
    BY <1>1, <1>6, <2>1, AskStep DEF RemoveAddon
<1>7. ASSUME StartTrial(q) PROVE BillingInv'
  <2> DEFINE r == [Idle EXCEPT !.pc = "trial"]
  <2>1. r \in ReqTypes /\ Sound(Started(r))
    BY <1>0, <1>1 DEF ReqTypes, Pcs, Sound
  <2>2. QED
    BY <1>1, <1>7, <2>1, AskStep DEF StartTrial
<1>8. ASSUME ExpireSelect(q) PROVE BillingInv'
  <2> DEFINE r == [Idle EXCEPT !.pc = "expire"]
  <2>1. r \in ReqTypes /\ Sound(Started(r))
    BY <1>0, <1>1 DEF ReqTypes, Pcs, Sound
  <2>2. QED
    BY <1>1, <1>8, <2>1, BeginStep DEF ExpireSelect
<1>9. ASSUME NEW e \in sent, Webhook(q, e) PROVE BillingInv'
  <2> DEFINE r == [Idle EXCEPT !.pc = "apply", !.ev = e]
  <2>0. e \in EventsSent
    BY DEF BillingInv, TypeOK
  <2>1. r \in ReqTypes /\ Sound(Started(r))
    BY <1>0, <1>1, <2>0 DEF ReqTypes, Pcs, Sound
  <2>2. QED
    BY <1>1, <1>9, <2>1, BeginStep DEF Webhook
<1>10. QED
  BY <1>2, <1>3, <1>4, <1>5, <1>6, <1>7, <1>8, <1>9 DEF UserRequest

\* A step that changes the row or the history and moves one request on.
LEMMA RowStep ==
    ASSUME BillingInv, NEW q \in Requests, NEW r \in ReqTypes, Sound(r)',
           req' = [req EXCEPT ![q] = r], UNCHANGED <<rzp, sent, asks>>,
           row' \in Rows, Covered(row'.plan),
           addons' \subseteq [kind : Kinds, sub : Subs],
           applied \subseteq applied', applied' \subseteq sent,
           recorded' \subseteq applied', orphaned' \subseteq Subs
    PROVE  BillingInv'
<1>1. Grows
  BY DEF Grows
<1>2. req' \in [Requests -> ReqTypes] /\ \A p \in Requests : Sound(req[p])'
  BY <1>1, RequestsStep
<1>3. TypeOK'
  BY <1>2 DEF BillingInv, TypeOK, ReqTypes
<1>4. Covered(row.plan)'
  BY DEF Covered, Paid
<1>5. QED
  BY <1>2, <1>3, <1>4 DEF BillingInv, Charged, RecordedWasApplied

\* A step at Razorpay that moves one request on.
LEMMA RazorpayStep ==
    ASSUME BillingInv, NEW q \in Requests, NEW r \in ReqTypes, Sound(r)',
           req' = [req EXCEPT ![q] = r], UNCHANGED <<row, addons, recorded, applied, asks>>,
           Grows, Charged',
           rzp' \in [Subs -> [st : {"unused", "created", "active", "ended"},
                              item : Items \cup {NoItem}, atEnd : BOOLEAN,
                              charges : 0..MaxCharges]],
           sent' \subseteq EventsSent, orphaned' \subseteq Subs
    PROVE  BillingInv'
<1>1. req' \in [Requests -> ReqTypes] /\ \A p \in Requests : Sound(req[p])'
  BY RequestsStep
<1>2. TypeOK'
  BY <1>1 DEF BillingInv, TypeOK, ReqTypes, Grows
<1>3. QED
  BY <1>1, <1>2, CoveredStays DEF BillingInv, RecordedWasApplied
-----------------------------------------------------------------------------
\* Only a subscription is orphaned, and only by a request.
LEMMA OrphansAreSubs ==
    ASSUME BillingInv, NEW q \in Requests, RequestStep(q) \/ Crash(q)
    PROVE  orphaned' \subseteq Subs
<1>1. /\ orphaned \subseteq Subs /\ req[q].batch \subseteq Subs
      /\ req[q].pc \in {"insert", "cancelOld"} => req[q].sub \in Subs
  BY DEF BillingInv, TypeOK, Sound
<1>2. ASSUME NEW s \in Subs, Orphan(s) PROVE orphaned' \subseteq Subs
  BY <1>1, <1>2 DEF Orphan
<1>3. ASSUME NEW s \in Subs, CancelSubscription(s) PROVE orphaned' \subseteq Subs
  BY <1>1, <1>2, <1>3 DEF CancelSubscription
<1>4. CASE CreateSubscription(q) \/ InsertAddon(q) \/ Crash(q)
  BY <1>1, <1>2, <1>4 DEF CreateSubscription, InsertAddon, Crash
<1>5. CASE CancelPrevious(q) \/ \E s \in Subs : CancelAddon(q, s)
  BY <1>1, <1>3, <1>5 DEF CancelPrevious, CancelAddon
<1>6. CASE orphaned' = orphaned
  BY <1>1, <1>6
<1>7. QED
  BY <1>4, <1>5, <1>6
     DEF RequestStep, PointAtSub, CancelAtCycleEnd, CancelWrite, DowngradeCommit, DeleteAddon,
         StartTrialWrite, ExpireWrite, ApplyActivation, ApplyCancellation, ApplyOther, RecordEvent

\* The last steps of a request that has written the row: it records the event it
\* has applied, or cancels the subscription the row pointed at.
LEMMA RecordStep ==
    ASSUME BillingInv, NEW q \in Requests, NEW e \in sent,
           req' = [req EXCEPT ![q] = Recording(e)], applied' = applied \cup {e},
           UNCHANGED <<recorded, rzp, sent, asks>>,
           row' \in Rows, Covered(row'.plan), addons' \subseteq [kind : Kinds, sub : Subs],
           orphaned' \subseteq Subs
    PROVE  BillingInv'
<1>1. applied' \subseteq sent /\ recorded' \subseteq applied' /\ e \in EventsSent
  BY DEF BillingInv, TypeOK, RecordedWasApplied
<1>2. Recording(e) \in ReqTypes /\ Sound(Recording(e))'
  BY <1>1, RecordIsSound
<1>3. QED
  BY <1>1, <1>2, RowStep

LEMMA CancelOldStep ==
    ASSUME BillingInv, NEW q \in Requests, NEW s \in Subs,
           req' = [req EXCEPT ![q] = Cancelling(s)],
           UNCHANGED <<addons, recorded, rzp, sent, applied, asks>>,
           row' \in Rows, Covered(row'.plan), orphaned' \subseteq Subs
    PROVE  BillingInv'
<1>1. applied \subseteq sent /\ recorded \subseteq applied /\ addons \subseteq [kind : Kinds, sub : Subs]
  BY DEF BillingInv, TypeOK, RecordedWasApplied
<1>2. Cancelling(s) \in ReqTypes /\ Sound(Cancelling(s))'
  BY CancelOldIsSound
<1>3. QED
  BY <1>1, <1>2, RowStep

\* The row a request writes is covered: it keeps the plan or lowers the one it
\* read, or writes one that a charge has paid for.
LEMMA WriteStep ==
    ASSUME BillingInv, NEW q \in Requests,
           \/ PointAtSub(q) \/ CancelWrite(q) \/ DowngradeCommit(q)
           \/ StartTrialWrite(q) \/ ExpireWrite(q) \/ ApplyActivation(q)
    PROVE  BillingInv'
<1> DEFINE old == req[q]
<1>0. Idle = [pc |-> "idle", saw |-> FreeRow, item |-> NoItem, sub |-> NoSub,
              batch |-> {}, ev |-> NoEvent]
  BY DEF Idle
<1>1. /\ old \in ReqTypes /\ Sound(old) /\ Idle \in ReqTypes /\ row \in Rows
      /\ Covered(row.plan) /\ old.saw \in Rows /\ addons \subseteq [kind : Kinds, sub : Subs]
      /\ recorded \subseteq applied /\ applied \subseteq sent /\ orphaned' \subseteq Subs
  BY IdleIsSound, OrphansAreSubs DEF RequestStep, BillingInv, TypeOK, ReqTypes, RecordedWasApplied
<1>2. Grows => Sound(Idle)'
  BY IdleIsSound, SoundStays
<1>3. 0 \in Plans /\ 1 \in Plans
  BY BillingAssumption DEF Plans
<1>4. ASSUME PointAtSub(q) PROVE BillingInv'
  <2> DEFINE new == [old.saw EXCEPT !.sub = old.sub, !.cancelAt = FALSE]
  <2>1. Grows /\ old.pc = "point" /\ row' = Flushed(old.saw, new)
    BY <1>4 DEF PointAtSub, Grows
  <2>2. new \in Rows /\ new.plan = old.saw.plan
    BY <1>1, <2>1 DEF Sound, Rows
  <2>3. row' \in Rows /\ row'.plan = row.plan
    BY <1>1, <2>1, <2>2, FlushedInRows
  <2>4. CASE old.saw.sub = NoSub
    <3>1. req' = [req EXCEPT ![q] = Idle]
      BY <1>4, <2>4 DEF PointAtSub, Superseded, Ends
    <3>2. QED
      BY <1>1, <1>2, <1>4, <2>1, <2>3, <3>1, RowStep DEF PointAtSub
  <2>5. CASE old.saw.sub # NoSub
    <3>1. old.saw.sub \in Subs
      BY <1>1, <2>5 DEF Rows
    <3>2. req' = [req EXCEPT ![q] = Cancelling(old.saw.sub)]
      BY <1>4, <2>5 DEF PointAtSub, Superseded, Cancelling
    <3>3. QED
      BY <1>1, <1>4, <2>3, <3>1, <3>2, CancelOldStep DEF PointAtSub
  <2>6. QED
    BY <2>4, <2>5
<1>5. ASSUME CancelWrite(q) PROVE BillingInv'
  <2> DEFINE new == [old.saw EXCEPT !.cancelAt = old.saw.ends]
  <2>1. new \in Rows /\ new.plan = old.saw.plan
    BY <1>1 DEF Rows
  <2>2. row' \in Rows /\ row'.plan = row.plan
    BY <1>1, <1>5, <2>1, FlushedInRows DEF CancelWrite
  <2>3. Grows /\ req' = [req EXCEPT ![q] = Idle]
    BY <1>5 DEF CancelWrite, Ends, Grows
  <2>4. QED
    BY <1>1, <1>2, <1>5, <2>2, <2>3, RowStep DEF CancelWrite
<1>6. ASSUME DowngradeCommit(q) PROVE BillingInv'
  <2> DEFINE new == IF old.ev = NoEvent THEN [old.saw EXCEPT !.plan = old.item]
                    ELSE [FreeRow EXCEPT !.trial = old.saw.trial]
  <2>0. old.pc = "downgrade" /\ row' = Flushed(old.saw, new) /\ addons' = {}
    BY <1>6 DEF DowngradeCommit
  <2>1. new \in Rows /\ Covered(new.plan)
    <3>1. CASE old.ev = NoEvent
      <4>1. old.item \in Plans /\ old.item < old.saw.plan /\ Covered(old.saw.plan)
        BY <1>1, <2>0, <3>1 DEF Sound
      <4>2. new \in Rows /\ new.plan = old.item
        BY <1>1, <3>1, <4>1 DEF Rows
      <4>3. old.item \in Nat /\ old.saw.plan \in Nat /\ SelfServe \subseteq Nat
        BY <1>1, <4>1, PlansAreNumbers DEF Rows
      <4>4. QED
        BY <4>1, <4>2, <4>3 DEF Covered
    <3>2. CASE old.ev # NoEvent
      <4>1. new \in Rows /\ new.plan = 0
        BY <1>1, <1>3, <3>2, FreeRowInRows DEF Rows
      <4>2. QED
        BY <4>1 DEF Covered
    <3>3. QED
      BY <3>1, <3>2
  <2>2. row' \in Rows /\ Covered(row'.plan)
    BY <1>1, <2>0, <2>1, FlushedInRows
  <2>3. CASE old.ev = NoEvent
    <3>1. Grows /\ req' = [req EXCEPT ![q] = Idle] /\ applied' = applied
      BY <1>6, <2>3 DEF DowngradeCommit, Ends, Grows
    <3>2. QED
      BY <1>1, <1>2, <1>6, <2>0, <2>2, <3>1, RowStep DEF DowngradeCommit
  <2>4. CASE old.ev # NoEvent
    <3>1. old.ev \in sent /\ old.ev \in EventsSent
      BY <1>1, <2>0, <2>4 DEF Sound, BillingInv, TypeOK
    <3>2. /\ req' = [req EXCEPT ![q] = Recording(old.ev)]
          /\ applied' = applied \cup {old.ev} /\ UNCHANGED <<recorded, rzp, sent, asks>>
      BY <1>6, <2>4 DEF DowngradeCommit, Record, Recording
    <3>3. addons' \subseteq [kind : Kinds, sub : Subs]
      BY <2>0
    <3>4. QED
      BY <1>1, <2>2, <3>1, <3>2, <3>3, RecordStep
  <2>5. QED
    BY <2>3, <2>4
<1>7. ASSUME StartTrialWrite(q) PROVE BillingInv'
  <2>1. row' \in Rows /\ row'.plan = 1
    BY <1>1, <1>3, <1>7 DEF StartTrialWrite, Rows
  <2>2. Grows /\ req' = [req EXCEPT ![q] = Idle]
    BY <1>7 DEF StartTrialWrite, Ends, Grows
  <2>3. Covered(row'.plan)
    BY <2>1 DEF Covered
  <2>4. QED
    BY <1>1, <1>2, <1>7, <2>1, <2>2, <2>3, RowStep DEF StartTrialWrite
<1>8. ASSUME ExpireWrite(q) PROVE BillingInv'
  <2> DEFINE new == [old.saw EXCEPT !.plan = 0, !.trial = "none"]
  <2>1. new \in Rows /\ new.plan = 0
    BY <1>1, <1>3 DEF Rows
  <2>2. row' \in Rows /\ row'.plan \in {row.plan, 0}
    BY <1>1, <1>8, <2>1, FlushedInRows DEF ExpireWrite
  <2>3. Grows /\ req' = [req EXCEPT ![q] = Idle]
    BY <1>8 DEF ExpireWrite, Ends, Grows
  <2>4. Covered(row'.plan)
    BY <1>1, <2>2 DEF Covered
  <2>5. QED
    BY <1>1, <1>2, <1>8, <2>2, <2>3, <2>4, RowStep DEF ExpireWrite
<1>9. ASSUME ApplyActivation(q) PROVE BillingInv'
  <2> DEFINE e == old.ev
             item == rzp[e.sub].item
             new == [plan |-> item, sub |-> e.sub, trial |-> "none",
                     cancelAt |-> FALSE, ends |-> TRUE]
  <2>1. old.pc = "apply" /\ e.kind = "charged" /\ e \in sent
    BY <1>1, <1>9 DEF ApplyActivation, Sound
  <2>2. e.sub \in Subs /\ rzp[e.sub].charges > 0
    BY <2>1 DEF BillingInv, TypeOK, EventsSent, Charged
  <2>3. row' \in Rows /\ Covered(row'.plan)
    <3>1. CASE item \in SelfServe /\ row' = Flushed(old.saw, new)
      <4>1. new \in Rows
        BY <2>2, <3>1 DEF Rows, Plans
      <4>2. Paid(item) /\ item >= item
        <5>1. Paid(item)
          BY <2>2 DEF Paid
        <5>2. item \in Nat
          BY <3>1, PlansAreNumbers
        <5>3. QED
          BY <5>1, <5>2
      <4>3. Covered(item)
        BY <3>1, <4>2 DEF Covered
      <4>4. QED
        BY <1>1, <3>1, <4>1, <4>3, FlushedInRows
    <3>2. CASE UNCHANGED row
      BY <1>1, <3>2
    <3>3. QED
      BY <1>9, <3>1, <3>2 DEF ApplyActivation
  <2>4. /\ req' = [req EXCEPT ![q] = Recording(e)]
        /\ applied' = applied \cup {e} /\ UNCHANGED <<addons, recorded, rzp, sent, asks>>
    BY <1>9 DEF ApplyActivation, Record, Recording
  <2>5. QED
    BY <1>1, <2>1, <2>3, <2>4, RecordStep
<1>10. QED
  BY <1>4, <1>5, <1>6, <1>7, <1>8, <1>9
\* The steps of a request that change neither row nor Razorpay.
LEMMA PlainStep ==
    ASSUME BillingInv, NEW q \in Requests,
           \/ InsertAddon(q) \/ DeleteAddon(q) \/ RecordEvent(q) \/ Crash(q)
           \/ ApplyCancellation(q) \/ ApplyOther(q)
    PROVE  BillingInv'
<1> DEFINE old == req[q]
<1>1. /\ old \in ReqTypes /\ Sound(old) /\ Idle \in ReqTypes /\ row \in Rows
      /\ Covered(row.plan) /\ addons \subseteq [kind : Kinds, sub : Subs]
      /\ recorded \subseteq applied /\ applied \subseteq sent /\ orphaned' \subseteq Subs
  BY IdleIsSound, OrphansAreSubs DEF RequestStep, BillingInv, TypeOK, ReqTypes, RecordedWasApplied
<1>2. Grows => Sound(Idle)'
  BY IdleIsSound, SoundStays
<1>3. ASSUME InsertAddon(q) PROVE BillingInv'
  <2>1. Grows /\ req' = [req EXCEPT ![q] = Idle]
    BY <1>3 DEF InsertAddon, Ends, Grows
  <2>2. addons' \subseteq [kind : Kinds, sub : Subs]
    BY <1>1, <1>3 DEF InsertAddon, Sound
  <2>3. QED
    BY <1>1, <1>2, <1>3, <2>1, <2>2, RowStep DEF InsertAddon
<1>4. ASSUME DeleteAddon(q) PROVE BillingInv'
  <2>1. Grows /\ req' = [req EXCEPT ![q] = Idle]
    BY <1>4 DEF DeleteAddon, Ends, Grows
  <2>2. addons' \subseteq [kind : Kinds, sub : Subs]
    BY <1>1, <1>4 DEF DeleteAddon
  <2>3. QED
    BY <1>1, <1>2, <1>4, <2>1, <2>2, RowStep DEF DeleteAddon
<1>5. ASSUME RecordEvent(q) PROVE BillingInv'
  <2>1. Grows /\ req' = [req EXCEPT ![q] = Idle]
    BY <1>5 DEF RecordEvent, Ends, Grows
  <2>2. old.ev \in applied /\ recorded' = recorded \cup {old.ev}
    BY <1>1, <1>5 DEF RecordEvent, Sound
  <2>3. QED
    BY <1>1, <1>2, <1>5, <2>1, <2>2, RowStep DEF RecordEvent
<1>6. ASSUME Crash(q) PROVE BillingInv'
  <2>1. Grows /\ req' = [req EXCEPT ![q] = Idle]
    BY <1>6 DEF Crash, Ends, Grows
  <2>2. QED
    BY <1>1, <1>2, <1>6, <2>1, RowStep DEF Crash
<1>7. ASSUME ApplyOther(q) PROVE BillingInv'
  <2>1. old.ev \in sent
    BY <1>1, <1>7 DEF ApplyOther, Sound
  <2>2. req' = [req EXCEPT ![q] = Recording(old.ev)]
    BY <1>7 DEF ApplyOther, Record, Recording
  <2>3. QED
    BY <1>1, <1>7, <2>1, <2>2, RecordStep DEF ApplyOther
<1>8. ASSUME ApplyCancellation(q) PROVE BillingInv'
  <2>1. old.pc = "apply" /\ old.ev \in sent /\ old.ev \in EventsSent
    BY <1>1, <1>8 DEF ApplyCancellation, Sound, BillingInv, TypeOK
  <2>2. CASE ~IsCancellation(q)
    <3>1. req' = [req EXCEPT ![q] = Recording(old.ev)] /\ applied' = applied \cup {old.ev}
      BY <1>8, <2>2 DEF ApplyCancellation, Record, Recording
    <3>2. QED
      BY <1>1, <1>8, <2>1, <3>1, RecordStep DEF ApplyCancellation
  <2>3. CASE IsCancellation(q)
    <3>1. /\ req' = [req EXCEPT ![q] = [old EXCEPT !.pc = "downgrade", !.batch = AddonSubs]]
          /\ UNCHANGED <<row, addons, recorded, rzp, sent, applied, asks>>
      BY <1>8, <2>3 DEF ApplyCancellation, BillingInv, TypeOK
    <3>2. PICK r : r = [old EXCEPT !.pc = "downgrade", !.batch = AddonSubs]
      OBVIOUS
    <3>3. AddonSubs \subseteq Subs
      BY <1>1 DEF AddonSubs
    <3>4. /\ r \in ReqTypes /\ r.pc = "downgrade" /\ r.ev = old.ev
          /\ r.saw = old.saw /\ r.item = old.item
      BY <1>1, <3>2, <3>3 DEF ReqTypes, Pcs
    <3>5. r.ev # NoEvent
      BY <2>1, <3>4 DEF EventsSent, NoEvent
    <3>6. Sound(r) /\ Grows
      BY <1>1, <2>1, <3>1, <3>4, <3>5 DEF Sound, Grows
    <3>7. Sound(r)'
      BY <3>6, SoundStays
    <3>8. QED
      BY <1>1, <3>1, <3>2, <3>4, <3>7, RowStep
  <2>4. QED
    BY <2>2, <2>3
<1>9. QED
  BY <1>3, <1>4, <1>5, <1>6, <1>7, <1>8
-----------------------------------------------------------------------------
SubTypes == [st : {"unused", "created", "active", "ended"}, item : Items \cup {NoItem},
             atEnd : BOOLEAN, charges : 0..MaxCharges]

\* What a subscription that ends means to everybody else.
LEMMA EndSubGrows ==
    ASSUME BillingInv, NEW s \in Subs, EndSub(s), applied' = applied
    PROVE  Grows /\ Charged' /\ rzp' \in [Subs -> SubTypes] /\ sent' \subseteq EventsSent
<1>0. MaxCharges \in Nat
  BY BillingAssumption
<1>1. rzp \in [Subs -> SubTypes] /\ sent \subseteq EventsSent
  BY DEF BillingInv, TypeOK, SubTypes
<1>2. CASE LiveSub(s)
  <2>1. /\ rzp' = [rzp EXCEPT ![s].st = "ended"]
        /\ sent' = sent \cup {[kind |-> "cancelled", sub |-> s, n |-> 0]}
    BY <1>2 DEF EndSub
  <2>2. rzp' \in [Subs -> SubTypes] /\ sent' \subseteq EventsSent
    BY <1>0, <1>1, <2>1 DEF SubTypes, EventsSent
  <2>3. \A t \in Subs : /\ rzp'[t].charges = rzp[t].charges
                        /\ rzp'[t].item = rzp[t].item
                        /\ rzp'[t].st = "unused" => rzp[t].st = "unused"
    BY <1>1, <2>1 DEF SubTypes
  <2>4. Charged'
    <3>1. \A e \in sent : e.sub \in Subs
      BY <1>1 DEF EventsSent
    <3>2. QED
      BY <2>1, <2>3, <3>1 DEF BillingInv, Charged
  <2>5. QED
    BY <2>1, <2>2, <2>3, <2>4 DEF Grows
<1>3. CASE ~LiveSub(s)
  BY <1>1, <1>3 DEF EndSub, Grows, BillingInv, Charged
<1>4. QED
  BY <1>2, <1>3

LEMMA CancelSubscriptionGrows ==
    ASSUME BillingInv, NEW s \in Subs, CancelSubscription(s), applied' = applied
    PROVE  Grows /\ Charged' /\ rzp' \in [Subs -> SubTypes] /\ sent' \subseteq EventsSent
<1>1. CASE EndSub(s)
  BY <1>1, EndSubGrows
<1>2. CASE UNCHANGED <<rzp, sent>>
  BY <1>2 DEF BillingInv, TypeOK, Charged, Grows, SubTypes
<1>3. QED
  BY <1>1, <1>2 DEF CancelSubscription

\* The calls of a request to Razorpay.
LEMMA CallStep ==
    ASSUME BillingInv, NEW q \in Requests,
           \/ CreateSubscription(q) \/ CancelPrevious(q) \/ CancelAtCycleEnd(q)
           \/ \E s \in Subs : CancelAddon(q, s)
    PROVE  BillingInv'
<1> DEFINE old == req[q]
<1>1. /\ old \in ReqTypes /\ Sound(old) /\ Idle \in ReqTypes
      /\ req \in [Requests -> ReqTypes] /\ rzp \in [Subs -> SubTypes] /\ sent \subseteq EventsSent
      /\ orphaned' \subseteq Subs
  BY IdleIsSound, OrphansAreSubs DEF RequestStep, BillingInv, TypeOK, ReqTypes, SubTypes
<1>2. Grows => Sound(Idle)'
  BY IdleIsSound, SoundStays
<1>3. ASSUME CreateSubscription(q) PROVE BillingInv'
  <2>1. /\ old.pc = "create" /\ old.item \in Items
        /\ UNCHANGED <<row, addons, recorded, sent, applied, asks>>
    BY <1>1, <1>3 DEF CreateSubscription, Sound
  <2>2. ASSUME NEW s \in Subs, rzp[s].st = "unused",
               rzp' = [rzp EXCEPT ![s].st = "created", ![s].item = old.item]
        PROVE  Grows /\ Charged' /\ rzp' \in [Subs -> SubTypes]
    <3>1. rzp' \in [Subs -> SubTypes]
      BY <1>1, <2>1, <2>2 DEF SubTypes
    <3>2. rzp[s].charges = 0
      BY <2>2 DEF BillingInv, Charged
    <3>3. \A t \in Subs : /\ rzp'[t].charges = rzp[t].charges
                          /\ t # s => rzp'[t] = rzp[t]
                          /\ rzp[t].charges \in Nat
      BY <1>1, <2>2, BillingAssumption DEF SubTypes
    <3>4. Grows
      <4>1. \A t \in Subs : rzp[t].charges > 0 => t # s
        BY <3>2
      <4>2. QED
        BY <2>1, <3>3, <4>1 DEF Grows
    <3>5. \A e \in sent : e.sub \in Subs
      BY <1>1 DEF EventsSent
    <3>6. rzp'[s].st # "unused"
      BY <1>1, <2>2
    <3>7. Charged'
      <4>1. \A e \in sent' : e.kind = "charged" => rzp'[e.sub].charges > 0
        BY <2>1, <3>3, <3>5 DEF BillingInv, Charged
      <4>2. ASSUME NEW t \in Subs, rzp'[t].st = "unused" PROVE rzp'[t].charges = 0
        <5>1. rzp[t].st = "unused"
          BY <3>3, <3>6, <4>2
        <5>2. QED
          BY <3>3, <5>1 DEF BillingInv, Charged
      <4>3. QED
        BY <4>1, <4>2 DEF Charged
    <3>8. QED
      BY <3>1, <3>4, <3>7
  <2>3. UNCHANGED rzp => Grows /\ Charged' /\ rzp' \in [Subs -> SubTypes]
    BY <1>1, <2>1 DEF BillingInv, Charged, Grows
  <2>4. CASE req' = [req EXCEPT ![q] = Idle]
    <3>1. Grows /\ Charged' /\ rzp' \in [Subs -> SubTypes]
      BY <1>3, <2>2, <2>3 DEF CreateSubscription
    <3>2. QED
      BY <1>1, <1>2, <2>1, <2>4, <3>1, RazorpayStep DEF SubTypes
  <2>5. ASSUME NEW s \in Subs, rzp[s].st = "unused",
               rzp' = [rzp EXCEPT ![s].st = "created", ![s].item = old.item],
               req' = [req EXCEPT ![q].sub = s,
                           ![q].pc = IF old.item \in Kinds THEN "insert" ELSE "point"]
        PROVE  BillingInv'
    <3>1. PICK r : r = [old EXCEPT !.pc = IF old.item \in Kinds THEN "insert" ELSE "point",
                                   !.sub = s]
      OBVIOUS
    <3>2. req' = [req EXCEPT ![q] = r]
      BY <1>1, <2>5, <3>1 DEF ReqTypes
    <3>3. /\ r \in ReqTypes /\ r.pc \in {"insert", "point"} /\ r.sub = s
          /\ r.pc = "insert" => r.item \in Kinds
          /\ r.saw = old.saw
      BY <1>1, <3>1 DEF ReqTypes, Pcs
    <3>4. Sound(r)
      BY <1>1, <3>3 DEF Sound
    <3>5. Grows /\ Charged' /\ rzp' \in [Subs -> SubTypes]
      BY <2>2, <2>5
    <3>6. Sound(r)'
      BY <3>4, <3>5, SoundStays
    <3>7. QED
      BY <1>1, <2>1, <3>2, <3>3, <3>5, <3>6, RazorpayStep DEF SubTypes
  <2>6. QED
    BY <1>3, <2>4, <2>5 DEF CreateSubscription, Ends
<1>4. ASSUME CancelPrevious(q) PROVE BillingInv'
  <2>1. old.sub \in Subs /\ req' = [req EXCEPT ![q] = Idle]
    BY <1>1, <1>4 DEF CancelPrevious, Sound, Ends
  <2>2. Grows /\ Charged' /\ rzp' \in [Subs -> SubTypes] /\ sent' \subseteq EventsSent
    BY <1>4, <2>1, CancelSubscriptionGrows DEF CancelPrevious
  <2>3. QED
    BY <1>1, <1>2, <1>4, <2>1, <2>2, RazorpayStep DEF CancelPrevious, SubTypes
<1>5. ASSUME CancelAtCycleEnd(q) PROVE BillingInv'
  <2> DEFINE s == old.saw.sub
  <2>1. old.pc = "cancel" /\ UNCHANGED <<row, addons, recorded, sent, applied, asks>>
    BY <1>5 DEF CancelAtCycleEnd
  <2>2. rzp' \in {rzp, [rzp EXCEPT ![s].atEnd = TRUE]}
    BY <1>5 DEF CancelAtCycleEnd
  <2>3. /\ rzp' \in [Subs -> SubTypes]
        /\ \A t \in Subs : /\ rzp'[t].charges = rzp[t].charges
                           /\ rzp'[t].item = rzp[t].item
                           /\ rzp'[t].st = rzp[t].st
    <3>1. CASE rzp' = rzp
      BY <1>1, <3>1
    <3>2. CASE rzp' = [rzp EXCEPT ![s].atEnd = TRUE]
      BY <1>1, <3>2 DEF SubTypes
    <3>3. QED
      BY <2>2, <3>1, <3>2
  <2>4. Grows
    BY <2>1, <2>3 DEF Grows
  <2>5. Charged'
    <3>1. \A e \in sent : e.sub \in Subs
      BY <1>1 DEF EventsSent
    <3>2. QED
      BY <2>1, <2>3, <3>1 DEF BillingInv, Charged
  <2>6. CASE req' = [req EXCEPT ![q] = Idle]
    BY <1>1, <1>2, <2>1, <2>3, <2>4, <2>5, <2>6, RazorpayStep DEF SubTypes
  <2>7. CASE req' = [req EXCEPT ![q].pc = "cancelWrite"]
    <3>1. PICK r : r = [old EXCEPT !.pc = "cancelWrite"]
      OBVIOUS
    <3>2. req' = [req EXCEPT ![q] = r]
      BY <1>1, <2>7, <3>1 DEF ReqTypes
    <3>3. r \in ReqTypes /\ r.pc = "cancelWrite" /\ r.saw = old.saw
      BY <1>1, <3>1 DEF ReqTypes, Pcs
    <3>4. Sound(r)
      BY <1>1, <3>3 DEF Sound
    <3>5. Sound(r)'
      BY <2>4, <3>4, SoundStays
    <3>6. QED
      BY <1>1, <2>1, <2>3, <2>4, <2>5, <3>2, <3>3, <3>5, RazorpayStep DEF SubTypes
  <2>8. QED
    BY <1>5, <2>6, <2>7 DEF CancelAtCycleEnd, Goto, Ends
<1>6. ASSUME NEW s \in Subs, CancelAddon(q, s) PROVE BillingInv'
  <2>1. Grows /\ Charged' /\ rzp' \in [Subs -> SubTypes] /\ sent' \subseteq EventsSent
    BY <1>6, CancelSubscriptionGrows DEF CancelAddon
  <2>2. PICK r : r = [old EXCEPT !.batch = old.batch \ {s}]
    OBVIOUS
  <2>3. req' = [req EXCEPT ![q] = r]
    BY <1>1, <1>6, <2>2 DEF CancelAddon, ReqTypes
  <2>4. /\ r \in ReqTypes /\ r.pc = old.pc /\ r.saw = old.saw /\ r.item = old.item
        /\ r.ev = old.ev /\ r.sub = old.sub
    BY <1>1, <2>2 DEF ReqTypes
  <2>5. Sound(r)
    BY <1>1, <2>4 DEF Sound
  <2>6. Sound(r)'
    BY <2>1, <2>5, SoundStays
  <2>7. QED
    BY <1>1, <1>6, <2>1, <2>3, <2>4, <2>6, RazorpayStep DEF CancelAddon, SubTypes
<1>7. QED
  BY <1>3, <1>4, <1>5, <1>6
\* Razorpay's own steps, and time.
LEMMA OutsideStep ==
    ASSUME BillingInv,
           \/ \E s \in Subs : Charge(s) \/ PeriodEnds(s) \/ Halts(s) \/ Completes(s)
           \/ TrialLapses
    PROVE  BillingInv'
<1>0. MaxCharges \in Nat
  BY BillingAssumption
<1>1. /\ rzp \in [Subs -> SubTypes] /\ sent \subseteq EventsSent
      /\ \A e \in sent : e.sub \in Subs
  BY DEF BillingInv, TypeOK, SubTypes, EventsSent
<1>2. ASSUME Grows, Charged', rzp' \in [Subs -> SubTypes], sent' \subseteq EventsSent,
             UNCHANGED <<row, addons, recorded, req, applied, asks, orphaned>>
      PROVE  BillingInv'
  <2>1. TypeOK'
    BY <1>2 DEF BillingInv, TypeOK, SubTypes, Grows
  <2>2. Covered(row.plan)'
    BY <1>2, CoveredStays DEF BillingInv
  <2>3. \A q \in Requests : Sound(req[q])'
    BY <1>2, CoveredStays DEF BillingInv, Sound, Grows
  <2>4. QED
    BY <1>2, <2>1, <2>2, <2>3 DEF BillingInv, RecordedWasApplied
<1>3. ASSUME NEW s \in Subs, Charge(s) PROVE BillingInv'
  <2>1. /\ UNCHANGED <<row, addons, recorded, req, applied, asks, orphaned>>
        /\ rzp' = [rzp EXCEPT ![s].st = "active", ![s].charges = rzp[s].charges + 1]
        /\ sent' = sent \cup {[kind |-> "charged", sub |-> s, n |-> rzp[s].charges + 1]}
        /\ rzp[s].charges < MaxCharges
    BY <1>3 DEF Charge
  <2>2. \A t \in Subs : rzp[t].charges \in Nat
    BY <1>0, <1>1 DEF SubTypes
  <2>3. rzp[s].charges + 1 \in 1..MaxCharges
    BY <1>0, <2>1, <2>2
  <2>4. rzp' \in [Subs -> SubTypes]
    BY <1>0, <1>1, <2>1, <2>3 DEF SubTypes
  <2>5. sent' \subseteq EventsSent
    BY <1>1, <2>1, <2>3 DEF EventsSent
  <2>6. /\ rzp'[s].charges = rzp[s].charges + 1
        /\ rzp'[s].item = rzp[s].item
        /\ rzp'[s].st = "active"
        /\ \A t \in Subs \ {s} : rzp'[t] = rzp[t]
    BY <1>1, <2>1 DEF SubTypes
  <2>7. Grows
    <3>1. ASSUME NEW t \in Subs, rzp[t].charges > 0
          PROVE  rzp'[t].charges > 0 /\ rzp'[t].item = rzp[t].item
      <4>1. CASE t = s
        BY <2>2, <2>6, <4>1
      <4>2. CASE t # s
        BY <2>6, <3>1, <4>2
      <4>3. QED
        BY <4>1, <4>2
    <3>2. QED
      BY <2>1, <3>1 DEF Grows
  <2>8. Charged'
    <3>1. ASSUME NEW e \in sent', e.kind = "charged" PROVE rzp'[e.sub].charges > 0
      <4>1. e \in sent => rzp[e.sub].charges > 0
        BY <3>1 DEF BillingInv, Charged
      <4>2. QED
        BY <1>1, <2>1, <2>2, <2>6, <4>1
    <3>2. ASSUME NEW t \in Subs, rzp'[t].st = "unused" PROVE rzp'[t].charges = 0
      BY <2>6, <3>2 DEF BillingInv, Charged
    <3>3. QED
      BY <3>1, <3>2 DEF Charged
  <2>9. QED
    BY <1>2, <2>1, <2>4, <2>5, <2>7, <2>8
<1>4. ASSUME NEW s \in Subs, PeriodEnds(s) \/ Halts(s) PROVE BillingInv'
  <2>1. EndSub(s) /\ UNCHANGED <<row, addons, recorded, req, applied, asks, orphaned>>
    BY <1>4 DEF PeriodEnds, Halts
  <2>2. Grows /\ Charged' /\ rzp' \in [Subs -> SubTypes] /\ sent' \subseteq EventsSent
    BY <2>1, EndSubGrows
  <2>3. QED
    BY <1>2, <2>1, <2>2
<1>5. ASSUME NEW s \in Subs, Completes(s) PROVE BillingInv'
  <2>1. /\ UNCHANGED <<row, addons, recorded, req, applied, asks, orphaned>>
        /\ rzp' = [rzp EXCEPT ![s].st = "ended"]
        /\ sent' = sent \cup {[kind |-> "completed", sub |-> s, n |-> 0]}
    BY <1>5 DEF Completes
  <2>2. rzp' \in [Subs -> SubTypes] /\ sent' \subseteq EventsSent
    BY <1>0, <1>1, <2>1 DEF SubTypes, EventsSent
  <2>3. \A t \in Subs : /\ rzp'[t].charges = rzp[t].charges
                        /\ rzp'[t].item = rzp[t].item
                        /\ rzp'[t].st = "unused" => rzp[t].st = "unused"
    BY <1>1, <2>1 DEF SubTypes
  <2>4. Grows /\ Charged'
    BY <1>1, <2>1, <2>3 DEF Grows, BillingInv, Charged
  <2>5. QED
    BY <1>2, <2>1, <2>2, <2>4
<1>6. ASSUME TrialLapses PROVE BillingInv'
  <2>1. UNCHANGED <<addons, recorded, req, rzp, sent, applied, asks, orphaned>> /\ row \in Rows
    BY <1>6 DEF TrialLapses, BillingInv, TypeOK
  <2>2. row' \in Rows /\ row'.plan = row.plan
    BY <1>6, <2>1 DEF TrialLapses, Rows
  <2>3. Grows
    BY <2>1 DEF Grows
  <2>4. TypeOK' /\ Charged'
    BY <2>1, <2>2 DEF BillingInv, TypeOK, Charged
  <2>5. \A q \in Requests : Sound(req[q])'
    BY <2>1, <2>3, CoveredStays DEF BillingInv, Sound
  <2>6. Covered(row.plan)'
    BY <2>1, <2>2, <2>3, CoveredStays DEF BillingInv, Covered, Paid
  <2>7. QED
    BY <2>1, <2>4, <2>5, <2>6 DEF BillingInv, RecordedWasApplied
<1>7. QED
  BY <1>3, <1>4, <1>5, <1>6

LEMMA BillingStep == BillingInv /\ [Next]_vars => BillingInv'
<1> SUFFICES ASSUME BillingInv, [Next]_vars PROVE BillingInv'
  OBVIOUS
<1>1. CASE UNCHANGED vars
  <2>1. UNCHANGED <<row, addons, recorded, req, rzp, sent, applied, asks, orphaned>>
    BY <1>1 DEF vars
  <2>2. QED
    BY <2>1 DEF BillingInv, TypeOK, Charged, Covered, Paid, RecordedWasApplied, Sound
<1>2. ASSUME NEW q \in Requests, RequestStep(q) PROVE BillingInv'
  BY <1>2, WriteStep, PlainStep, CallStep DEF RequestStep
<1>3. ASSUME NEW q \in Requests, Crash(q) PROVE BillingInv'
  BY <1>3, PlainStep
<1>4. ASSUME NEW q \in Requests,
             UserRequest(q) \/ ExpireSelect(q) \/ \E e \in sent : Webhook(q, e)
      PROVE  BillingInv'
  BY <1>4, UserStep
<1>5. ASSUME \/ \E s \in Subs : Charge(s) \/ PeriodEnds(s) \/ Halts(s) \/ Completes(s)
             \/ TrialLapses
      PROVE  BillingInv'
  BY <1>5, OutsideStep
<1>6. QED
  BY <1>1, <1>2, <1>3, <1>4, <1>5 DEF Next

LEMMA BillingHolds == Spec => []BillingInv
BY BillingStarts, BillingStep, PTL DEF Spec

\* Rows, requests, subscriptions and events keep their types, for any number of
\* requests, plans, add-on types and subscriptions.
THEOREM BillingTypeCorrect == Spec => []TypeOK
<1>1. BillingInv => TypeOK
  BY DEF BillingInv
<1>2. QED
  BY <1>1, BillingHolds, PTL

\* webhook: an event that is recorded, and so not delivered again, has been
\* applied, for any number of requests and wherever processes die.
THEOREM RecordedApplied == Spec => []RecordedWasApplied
<1>1. BillingInv => RecordedWasApplied
  BY DEF BillingInv
<1>2. QED
  BY <1>1, BillingHolds, PTL

\* subscribe, apply_downgrade, expire_trials and the webhook never lift a
\* merchant above recon to a plan above all he has paid for, for any number of
\* requests that interleave on rows they loaded earlier.
THEOREM PlansArePaid == Spec => []PlanWasPaid
<1>1. BillingInv => PlanWasPaid
  BY DEF BillingInv, Covered, PlanWasPaid
<1>2. QED
  BY <1>1, BillingHolds, PTL
-----------------------------------------------------------------------------
(***************************************************************************)
(* The add-ons.                                                            *)
(***************************************************************************)
LiveAddon(s) == LiveSub(s) /\ rzp[s].item \in Kinds

\* A request that deletes rows has cancelled, is still to cancel, or was known not
\* to cancel what they stand for; and what it goes for is there.
Answers(r) ==
    /\ r.pc = "downgrade" =>
          \A s \in AddonSubs : LiveAddon(s) => s \in r.batch \cup orphaned
    /\ r.pc = "remove" => (LiveAddon(r.sub) => r.sub \in r.batch \cup orphaned)
    /\ r.pc \in {"insert", "remove"} => rzp[r.sub].st # "unused"

AddonInv ==
    /\ OrphansExplained
    /\ \A s \in AddonSubs : rzp[s].st # "unused"
    /\ \A q \in Requests : Answers(req[q])

\* No subscription is made anew, or comes to life again, and an orphan stays one.
Keeps ==
    /\ orphaned \subseteq orphaned'
    /\ \A s \in Subs : rzp[s].st # "unused" =>
          rzp'[s].st # "unused" /\ (LiveAddon(s)' => LiveAddon(s))

LEMMA AddonStarts == Init => AddonInv
<1> SUFFICES ASSUME Init PROVE AddonInv
  OBVIOUS
<1>1. OrphansExplained
  BY DEF Init, OrphansExplained, LiveSub
<1>2. \A s \in AddonSubs : rzp[s].st # "unused"
  BY DEF Init, AddonSubs
<1>3. \A q \in Requests : Answers(req[q])
  BY DEF Init, Answers, Idle
<1>4. QED
  BY <1>1, <1>2, <1>3 DEF AddonInv

\* Of the others' rows and requests nothing changes but by an orphan.
LEMMA AnswersStay ==
    ASSUME BillingInv, AddonInv, Keeps, NEW p \in Requests, req'[p] = req[p],
           req[p].pc = "downgrade" =>
              \A s \in AddonSubs' \ AddonSubs : LiveAddon(s)' => s \in orphaned'
    PROVE  Answers(req[p])'
<1>1. AddonSubs \subseteq Subs /\ (req[p].pc \in {"insert", "remove"} => req[p].sub \in Subs)
  BY DEF BillingInv, TypeOK, AddonSubs, Sound
<1>2. Answers(req[p]) /\ \A s \in AddonSubs : rzp[s].st # "unused"
  BY DEF AddonInv
<1>3. ASSUME req[p].pc = "downgrade", NEW s \in AddonSubs', LiveAddon(s)'
      PROVE  s \in req[p].batch \cup orphaned'
  BY <1>1, <1>2, <1>3 DEF Answers, Keeps
<1>4. ASSUME req[p].pc = "remove", LiveAddon(req[p].sub)'
      PROVE  req[p].sub \in req[p].batch \cup orphaned'
  <2>1. PICK s \in Subs : s = req[p].sub
    BY <1>1, <1>4
  <2>2. req'[p].sub = s /\ req'[p].pc = "remove"
    BY <1>4, <2>1
  <2>3. LiveAddon(s)'
    BY <1>4, <2>1 DEF LiveAddon, LiveSub
  <2>4. QED
    BY <1>2, <1>4, <2>1, <2>3 DEF Answers, Keeps
<1>5. req[p].pc \in {"insert", "remove"} => rzp'[req[p].sub].st # "unused"
  BY <1>1, <1>2 DEF Answers, Keeps
<1>6. QED
  BY <1>3, <1>4, <1>5 DEF Answers, LiveAddon, LiveSub

\* What the step of a request has to leave behind.
LEMMA RequestMoves ==
    ASSUME BillingInv, AddonInv, Keeps, NEW q \in Requests, NEW r,
           req' = [req EXCEPT ![q] = r], Answers(r)',
           \A s \in AddonSubs' : rzp'[s].st # "unused",
           \A p \in Requests \ {q} :
              req[p].pc = "downgrade" =>
                 \A s \in AddonSubs' \ AddonSubs : LiveAddon(s)' => s \in orphaned',
           \A s \in Subs : LiveAddon(s)' =>
              \/ s \in AddonSubs' \cup orphaned'
              \/ r.pc = "insert" /\ r.sub = s
              \/ \E p \in Requests \ {q} : req[p].pc = "insert" /\ req[p].sub = s
    PROVE  AddonInv'
<1>1. req'[q] = r /\ \A p \in Requests \ {q} : req'[p] = req[p]
  BY DEF BillingInv, TypeOK
<1>2. ASSUME NEW p \in Requests PROVE Answers(req[p])'
  <2>1. CASE p = q
    BY <1>1, <2>1 DEF Answers
  <2>2. CASE p # q
    BY <1>1, <2>2, AnswersStay
  <2>3. QED
    BY <2>1, <2>2
<1>3. OrphansExplained'
  <2> SUFFICES ASSUME NEW s \in Subs, LiveAddon(s)'
               PROVE  (s \in AddonSubs \/ HasRequest(s) \/ s \in orphaned)'
    BY DEF OrphansExplained, LiveAddon
  <2>1. HasRequest(s)' <=> \E p \in Requests : req'[p].pc = "insert" /\ req'[p].sub = s
    BY DEF HasRequest
  <2>2. QED
    BY <1>1, <2>1
<1>4. QED
  BY <1>2, <1>3 DEF AddonInv

\* The step of a request that makes no add-on and inserts none.
LEMMA RequestRests ==
    ASSUME BillingInv, AddonInv, NEW q \in Requests, NEW r,
           req' = [req EXCEPT ![q] = r], Answers(r)', orphaned \subseteq orphaned',
           \A s \in Subs : /\ LiveAddon(s)' => LiveAddon(s)
                           /\ rzp[s].st # "unused" => rzp'[s].st # "unused",
           AddonSubs' \subseteq AddonSubs,
           \A s \in AddonSubs \ AddonSubs' : LiveAddon(s)' => s \in orphaned',
           req[q].pc = "insert" /\ LiveAddon(req[q].sub) => req[q].sub \in orphaned'
    PROVE  AddonInv'
<1>1. AddonSubs \subseteq Subs /\ \A s \in AddonSubs : rzp[s].st # "unused"
  BY DEF BillingInv, TypeOK, AddonSubs, AddonInv
<1>2. Keeps
  BY DEF Keeps
<1>3. ASSUME NEW s \in Subs, LiveAddon(s)'
      PROVE  \/ s \in AddonSubs' \cup orphaned'
             \/ \E p \in Requests \ {q} : req[p].pc = "insert" /\ req[p].sub = s
  <2>1. LiveAddon(s)
    BY <1>3
  <2>2. s \in AddonSubs \/ HasRequest(s) \/ s \in orphaned
    BY <2>1 DEF AddonInv, OrphansExplained, LiveAddon
  <2>3. CASE HasRequest(s)
    <3>1. PICK p \in Requests : req[p].pc = "insert" /\ req[p].sub = s
      BY <2>3 DEF HasRequest
    <3>2. p = q => s \in orphaned'
      BY <2>1, <3>1
    <3>3. QED
      BY <3>1, <3>2
  <2>4. QED
    BY <1>3, <2>2, <2>3
<1>4. QED
  BY <1>1, <1>2, <1>3, RequestMoves

\* A step that touches no request leaves it true when no add-on comes to life.
LEMMA ShrinkStep ==
    ASSUME BillingInv, AddonInv, UNCHANGED <<addons, req, orphaned>>,
           \A s \in Subs : /\ LiveAddon(s)' => LiveAddon(s)
                           /\ rzp[s].st # "unused" => rzp'[s].st # "unused"
    PROVE  AddonInv'
<1>1. AddonSubs \subseteq Subs /\ AddonSubs' = AddonSubs
  BY DEF BillingInv, TypeOK, AddonSubs
<1>2. Keeps
  BY DEF Keeps
<1>3. \A p \in Requests : Answers(req[p])'
  BY <1>1, <1>2, AnswersStay
<1>4. \A s \in AddonSubs' : rzp'[s].st # "unused"
  BY <1>1 DEF AddonInv
<1>5. OrphansExplained'
  BY <1>1 DEF AddonInv, OrphansExplained, LiveAddon, HasRequest
<1>6. QED
  BY <1>3, <1>4, <1>5 DEF AddonInv

LEMMA AddonUserStep ==
    ASSUME BillingInv, AddonInv, NEW q \in Requests,
           UserRequest(q) \/ ExpireSelect(q) \/ \E e \in sent : Webhook(q, e)
    PROVE  AddonInv'
<1>1. req[q].pc = "idle" /\ UNCHANGED <<row, addons, rzp, orphaned>>
  BY DEF UserRequest, ExpireSelect, Webhook, Subscribe, Cancel, Downgrade, AddAddon,
         RemoveAddon, StartTrial, Ask, Begin
<1>2. /\ AddonSubs' = AddonSubs /\ AddonSubs \subseteq Subs
      /\ \A s : LiveAddon(s)' <=> LiveAddon(s)
      /\ \A s \in AddonSubs : rzp[s].st # "unused"
  BY <1>1 DEF AddonSubs, LiveAddon, LiveSub, BillingInv, TypeOK, AddonInv
<1>3. ASSUME NEW r, req' = [req EXCEPT ![q] = r], Answers(r)' PROVE AddonInv'
  BY <1>1, <1>2, <1>3, RequestRests
<1>4. ASSUME NEW r, Begin(q, r), r.pc \notin {"insert", "downgrade", "remove"}, r \in ReqTypes
      PROVE  AddonInv'
  <2>1. PICK new : new = [r EXCEPT !.saw = row]
    OBVIOUS
  <2>2. new.pc = r.pc
    BY <1>4, <2>1 DEF ReqTypes
  <2>3. req' = [req EXCEPT ![q] = new] /\ Answers(new)'
    BY <1>4, <2>1, <2>2 DEF Begin, Answers
  <2>4. QED
    BY <1>3, <2>3
<1>5. ASSUME NEW target \in Plans, Downgrade(q, target) PROVE AddonInv'
  <2>1. PICK r : r = [[Idle EXCEPT !.pc = "downgrade", !.batch = AddonSubs, !.item = target]
                         EXCEPT !.saw = row]
    OBVIOUS
  <2>2. r.pc = "downgrade" /\ r.batch = AddonSubs
    BY <2>1 DEF Idle
  <2>3. Answers(r)'
    BY <1>2, <2>2 DEF Answers
  <2>4. req' = [req EXCEPT ![q] = r]
    BY <1>5, <2>1 DEF Downgrade, Ask, Begin
  <2>5. QED
    BY <1>3, <2>3, <2>4
<1>6. ASSUME NEW a \in addons, RemoveAddon(q, a) PROVE AddonInv'
  <2>1. PICK r : r = [[Idle EXCEPT !.pc = "remove", !.sub = a.sub, !.batch = {a.sub}]
                         EXCEPT !.saw = row]
    OBVIOUS
  <2>2. r.pc = "remove" /\ r.batch = {r.sub} /\ r.sub \in AddonSubs
    BY <2>1 DEF Idle, AddonSubs
  <2>3. Answers(r)'
    BY <1>1, <1>2, <2>2 DEF Answers
  <2>4. req' = [req EXCEPT ![q] = r]
    BY <1>6, <2>1 DEF RemoveAddon, Ask, Begin
  <2>5. QED
    BY <1>3, <2>3, <2>4
<1>7. ASSUME NEW plan \in Items, Ask(q, [Idle EXCEPT !.pc = "create", !.item = plan])
      PROVE  AddonInv'
  <2>1. PICK r : r = [Idle EXCEPT !.pc = "create", !.item = plan]
    OBVIOUS
  <2>2. r.pc = "create" /\ r \in ReqTypes
    BY <2>1, IdleIsSound DEF ReqTypes, Pcs
  <2>3. QED
    BY <1>4, <1>7, <2>1, <2>2 DEF Ask
<1>8. ASSUME NEW pc \in Pcs \ {"insert", "downgrade", "remove"}, Begin(q, [Idle EXCEPT !.pc = pc])
      PROVE  AddonInv'
  <2>1. PICK r : r = [Idle EXCEPT !.pc = pc]
    OBVIOUS
  <2>2. r.pc = pc /\ r \in ReqTypes
    BY <2>1, IdleIsSound DEF ReqTypes, Pcs
  <2>3. QED
    BY <1>4, <1>8, <2>1, <2>2
<1>9. ASSUME NEW e \in sent, Webhook(q, e) PROVE AddonInv'
  <2>1. PICK r : r = [Idle EXCEPT !.pc = "apply", !.ev = e]
    OBVIOUS
  <2>2. r.pc = "apply" /\ r \in ReqTypes
    BY <2>1, IdleIsSound DEF ReqTypes, Pcs, BillingInv, TypeOK
  <2>3. QED
    BY <1>4, <1>9, <2>1, <2>2 DEF Webhook
<1>10. CASE UserRequest(q)
  <2>1. CASE \E plan \in SelfServe : Subscribe(q, plan)
    BY <1>7, <2>1 DEF Subscribe, Items
  <2>2. CASE \E kind \in Kinds : AddAddon(q, kind)
    BY <1>7, <2>2 DEF AddAddon, Items
  <2>3. CASE Cancel(q) \/ StartTrial(q)
    BY <1>8, <2>3 DEF Cancel, StartTrial, Ask, Pcs
  <2>4. QED
    BY <1>5, <1>6, <1>10, <2>1, <2>2, <2>3 DEF UserRequest
<1>11. CASE ExpireSelect(q)
  BY <1>8, <1>11 DEF ExpireSelect, Pcs
<1>12. QED
  BY <1>9, <1>10, <1>11

\* The steps of a request that do not call Razorpay, and its death.
LEMMA AddonRowStep ==
    ASSUME BillingInv, AddonInv, NEW q \in Requests,
           \/ PointAtSub(q) \/ CancelWrite(q) \/ DowngradeCommit(q)
           \/ StartTrialWrite(q) \/ ExpireWrite(q) \/ ApplyActivation(q)
           \/ InsertAddon(q) \/ DeleteAddon(q) \/ RecordEvent(q)
           \/ ApplyCancellation(q) \/ ApplyOther(q) \/ Crash(q)
    PROVE  AddonInv'
<1> DEFINE old == req[q]
<1>1. rzp' = rzp
  BY DEF PointAtSub, CancelWrite, DowngradeCommit, StartTrialWrite, ExpireWrite, ApplyActivation,
         InsertAddon, DeleteAddon, RecordEvent, ApplyCancellation, ApplyOther, Crash
<1>2. /\ AddonSubs \subseteq Subs /\ \A s : LiveAddon(s)' <=> LiveAddon(s)
      /\ \A s \in AddonSubs : rzp[s].st # "unused"
      /\ Answers(old) /\ Sound(old)
  BY <1>1 DEF AddonSubs, LiveAddon, LiveSub, BillingInv, TypeOK, AddonInv
<1>3. ASSUME Ends(q) \/ Record(q) \/ Superseded(q)
      PROVE  \E r : req' = [req EXCEPT ![q] = r] /\ Answers(r)' /\ r.pc # "insert"
  <2>1. /\ Idle.pc = "idle" /\ Recording(old.ev).pc = "record"
        /\ Cancelling(old.saw.sub).pc = "cancelOld"
    BY DEF Idle, Recording, Cancelling
  <2>2. PICK r : /\ req' = [req EXCEPT ![q] = r]
                 /\ r.pc \notin {"insert", "downgrade", "remove"}
    BY <1>3, <2>1 DEF Ends, Record, Superseded, Recording, Cancelling
  <2>3. Answers(r)'
    BY <2>2 DEF Answers
  <2>4. QED
    BY <2>2, <2>3
<1>4. ASSUME Ends(q) \/ Record(q) \/ Superseded(q), orphaned \subseteq orphaned',
             AddonSubs' \subseteq AddonSubs,
             \A s \in AddonSubs \ AddonSubs' : LiveAddon(s) => s \in orphaned',
             old.pc = "insert" /\ LiveAddon(old.sub) => old.sub \in orphaned'
      PROVE  AddonInv'
  <2>1. PICK r : req' = [req EXCEPT ![q] = r] /\ Answers(r)' /\ r.pc # "insert"
    BY <1>3, <1>4
  <2>2. QED
    BY <1>1, <1>2, <1>4, <2>1, RequestRests
<1>5. CASE PointAtSub(q) \/ CancelWrite(q) \/ StartTrialWrite(q) \/ ExpireWrite(q)
           \/ ApplyActivation(q) \/ RecordEvent(q) \/ ApplyOther(q)
  <2>1. /\ Ends(q) \/ Record(q) \/ Superseded(q)
        /\ old.pc # "insert" /\ UNCHANGED <<addons, orphaned>>
    BY <1>5 DEF PointAtSub, CancelWrite, StartTrialWrite, ExpireWrite, ApplyActivation,
                RecordEvent, ApplyOther
  <2>2. AddonSubs' = AddonSubs
    BY <2>1 DEF AddonSubs
  <2>3. QED
    BY <1>4, <2>1, <2>2
<1>6. CASE DowngradeCommit(q)
  <2>1. /\ old.pc = "downgrade" /\ old.batch = {} /\ (Ends(q) \/ Record(q))
        /\ addons' = {} /\ orphaned' = orphaned
    BY <1>6 DEF DowngradeCommit
  <2>2. AddonSubs' = {} /\ \A s \in AddonSubs : LiveAddon(s) => s \in orphaned
    BY <1>2, <2>1 DEF Answers, AddonSubs
  <2>3. QED
    BY <1>4, <2>1, <2>2
<1>7. CASE DeleteAddon(q)
  <2>1. /\ old.pc = "remove" /\ old.batch = {} /\ Ends(q)
        /\ addons' = {a \in addons : a.sub # old.sub} /\ orphaned' = orphaned
    BY <1>7 DEF DeleteAddon
  <2>2. AddonSubs' = AddonSubs \ {old.sub}
    BY <2>1 DEF AddonSubs
  <2>3. LiveAddon(old.sub) => old.sub \in orphaned
    BY <1>2, <2>1 DEF Answers
  <2>4. QED
    BY <1>4, <2>1, <2>2, <2>3
<1>8. CASE Crash(q)
  <2>1. Ends(q) /\ addons' = addons
    BY <1>8 DEF Crash
  <2>2. AddonSubs' = AddonSubs
    BY <2>1 DEF AddonSubs
  <2>3. /\ orphaned \subseteq orphaned'
        /\ old.pc = "insert" /\ LiveAddon(old.sub) => old.sub \in orphaned'
    BY <1>1, <1>8 DEF Crash, Orphan, LiveAddon
  <2>4. QED
    BY <1>4, <2>1, <2>2, <2>3
<1>9. CASE InsertAddon(q)
  <2>1. /\ old.pc = "insert" /\ Ends(q)
        /\ addons' = addons \cup {[kind |-> old.item, sub |-> old.sub]}
    BY <1>9 DEF InsertAddon
  <2>2. AddonSubs' = AddonSubs \cup {old.sub}
    <3> DEFINE new == [kind |-> old.item, sub |-> old.sub]
    <3>1. new.sub = old.sub /\ addons' = addons \cup {new}
      BY <2>1
    <3> HIDE DEF new
    <3>2. QED
      BY <3>1 DEF AddonSubs
  <2>3. PICK r : req' = [req EXCEPT ![q] = r] /\ Answers(r)' /\ r.pc # "insert"
    BY <1>3, <2>1
  <2>4. PICK new \in Subs : new = old.sub /\ rzp[new].st # "unused"
    BY <1>2, <2>1 DEF Answers, Sound
  <2>5. /\ orphaned \subseteq orphaned'
        /\ \A p \in Requests : req[p].pc = "downgrade" =>
              (LiveAddon(new)' => new \in orphaned')
    BY <1>1, <1>9, <2>4 DEF InsertAddon, Orphan, LiveAddon
  <2>6. Keeps
    BY <1>1, <1>2, <2>5 DEF Keeps
  <2>7. ASSUME NEW s \in Subs, LiveAddon(s)'
        PROVE  \/ s \in AddonSubs' \cup orphaned'
               \/ \E p \in Requests \ {q} : req[p].pc = "insert" /\ req[p].sub = s
    <3>1. s \in AddonSubs \/ HasRequest(s) \/ s \in orphaned
      BY <1>2, <2>7 DEF AddonInv, OrphansExplained, LiveAddon
    <3>2. QED
      BY <2>2, <2>4, <2>5, <3>1 DEF HasRequest
  <2>8. /\ \A s \in AddonSubs' : rzp'[s].st # "unused"
        /\ \A s \in AddonSubs' \ AddonSubs : s = new
    BY <1>1, <1>2, <2>2, <2>4
  <2>9. \A p \in Requests \ {q} : req[p].pc = "downgrade" =>
           \A s \in AddonSubs' \ AddonSubs : LiveAddon(s)' => s \in orphaned'
    BY <2>5, <2>8 DEF LiveAddon, LiveSub
  <2>10. QED
    BY <2>3, <2>6, <2>7, <2>8, <2>9, RequestMoves
<1>10. CASE ApplyCancellation(q)
  <2>1. old.pc = "apply" /\ UNCHANGED <<addons, orphaned>>
    BY <1>10 DEF ApplyCancellation
  <2>2. AddonSubs' = AddonSubs
    BY <2>1 DEF AddonSubs
  <2>3. CASE Record(q)
    BY <1>4, <2>1, <2>2, <2>3
  <2>4. CASE req' = [req EXCEPT ![q].pc = "downgrade", ![q].batch = AddonSubs]
    <3>1. PICK r : r = [old EXCEPT !.pc = "downgrade", !.batch = AddonSubs]
      OBVIOUS
    <3>2. old \in ReqTypes /\ req \in [Requests -> ReqTypes]
      BY DEF BillingInv, TypeOK, ReqTypes
    <3>3. r.pc = "downgrade" /\ r.batch = AddonSubs /\ req' = [req EXCEPT ![q] = r]
      BY <2>4, <3>1, <3>2 DEF ReqTypes
    <3>4. Answers(r)'
      BY <2>2, <3>3 DEF Answers
    <3>5. QED
      BY <1>1, <1>2, <2>1, <2>2, <3>3, <3>4, RequestRests
  <2>5. QED
    BY <1>10, <2>3, <2>4 DEF ApplyCancellation
<1>11. QED
  BY <1>5, <1>6, <1>7, <1>8, <1>9, <1>10

\* Calls to Razorpay: a subscription comes to life in the request that will insert
\* its row, or as an orphan, and what leaves the batch is dead or an orphan.
LEMMA AddonCallStep ==
    ASSUME BillingInv, AddonInv, NEW q \in Requests,
           \/ CreateSubscription(q) \/ CancelPrevious(q) \/ CancelAtCycleEnd(q)
           \/ \E s \in Subs : CancelAddon(q, s)
    PROVE  AddonInv'
<1> DEFINE old == req[q]
<1>1. /\ rzp \in [Subs -> SubTypes] /\ req \in [Requests -> ReqTypes] /\ old \in ReqTypes
      /\ AddonSubs \subseteq Subs /\ Sound(old) /\ Answers(old)
      /\ \A s \in AddonSubs : rzp[s].st # "unused"
  BY DEF BillingInv, TypeOK, SubTypes, ReqTypes, AddonSubs, AddonInv
<1>2. addons' = addons /\ AddonSubs' = AddonSubs
  BY DEF CreateSubscription, CancelPrevious, CancelAtCycleEnd, CancelAddon, AddonSubs
<1>3. Answers(Idle)' /\ Idle.pc = "idle"
  BY DEF Idle, Answers
<1>4. ASSUME NEW s \in Subs, CancelSubscription(s)
      PROVE  /\ orphaned \subseteq orphaned'
             /\ LiveAddon(s)' => s \in orphaned'
             /\ \A t \in Subs : /\ LiveAddon(t)' => LiveAddon(t)
                                /\ rzp[t].st # "unused" => rzp'[t].st # "unused"
  <2>1. CASE EndSub(s) /\ UNCHANGED orphaned
    BY <1>1, <2>1 DEF EndSub, LiveAddon, LiveSub, SubTypes
  <2>2. CASE Orphan(s) /\ UNCHANGED <<rzp, sent>>
    BY <2>2 DEF Orphan, LiveAddon, LiveSub
  <2>3. QED
    BY <1>4, <2>1, <2>2 DEF CancelSubscription
<1>5. CASE CancelPrevious(q)
  <2>1. /\ old.pc = "cancelOld" /\ old.sub \in Subs /\ CancelSubscription(old.sub)
        /\ req' = [req EXCEPT ![q] = Idle]
    BY <1>1, <1>5 DEF CancelPrevious, Sound, Ends
  <2>2. /\ orphaned \subseteq orphaned'
        /\ \A t \in Subs : /\ LiveAddon(t)' => LiveAddon(t)
                           /\ rzp[t].st # "unused" => rzp'[t].st # "unused"
    BY <1>4, <2>1
  <2>3. QED
    BY <1>2, <1>3, <2>1, <2>2, RequestRests
<1>6. CASE CancelAtCycleEnd(q)
  <2>1. old.pc = "cancel" /\ orphaned' = orphaned
    BY <1>6 DEF CancelAtCycleEnd
  <2>2. \A t \in Subs : /\ LiveAddon(t)' => LiveAddon(t)
                        /\ rzp[t].st # "unused" => rzp'[t].st # "unused"
    <3>1. rzp' \in {rzp, [rzp EXCEPT ![old.saw.sub].atEnd = TRUE]}
      BY <1>6 DEF CancelAtCycleEnd
    <3>2. QED
      BY <1>1, <3>1 DEF LiveAddon, LiveSub, SubTypes
  <2>3. PICK r : req' = [req EXCEPT ![q] = r] /\ r.pc \in {"idle", "cancelWrite"}
    <3>1. CASE Ends(q)
      BY <1>3, <3>1 DEF Ends
    <3>2. CASE Goto(q, "cancelWrite")
      <4>1. PICK r : r = [old EXCEPT !.pc = "cancelWrite"]
        OBVIOUS
      <4>2. r.pc = "cancelWrite" /\ req' = [req EXCEPT ![q] = r]
        BY <1>1, <3>2, <4>1 DEF Goto, ReqTypes
      <4>3. QED
        BY <4>2
    <3>3. QED
      BY <1>6, <3>1, <3>2 DEF CancelAtCycleEnd
  <2>4. Answers(r)'
    BY <2>3 DEF Answers
  <2>5. QED
    BY <1>2, <2>1, <2>2, <2>3, <2>4, RequestRests
<1>7. ASSUME NEW s \in Subs, CancelAddon(q, s) PROVE AddonInv'
  <2>1. old.pc \in {"downgrade", "remove"} /\ CancelSubscription(s)
    BY <1>7 DEF CancelAddon
  <2>2. /\ orphaned \subseteq orphaned' /\ (LiveAddon(s)' => s \in orphaned')
        /\ \A t \in Subs : /\ LiveAddon(t)' => LiveAddon(t)
                           /\ rzp[t].st # "unused" => rzp'[t].st # "unused"
    BY <1>4, <2>1
  <2>3. PICK r : r = [old EXCEPT !.batch = old.batch \ {s}]
    OBVIOUS
  <2>4. /\ req' = [req EXCEPT ![q] = r] /\ r.pc = old.pc /\ r.sub = old.sub
        /\ r.batch = old.batch \ {s}
    BY <1>1, <1>7, <2>3 DEF CancelAddon, ReqTypes
  <2>5. r.pc = "remove" => r.sub \in Subs /\ rzp'[r.sub].st # "unused"
    BY <1>1, <2>2, <2>4 DEF Sound, Answers
  <2>6. ASSUME r.pc = "downgrade", NEW t \in AddonSubs', LiveAddon(t)'
        PROVE  t \in r.batch \cup orphaned'
    BY <1>1, <1>2, <2>2, <2>4, <2>6 DEF Answers
  <2>7. ASSUME r.pc = "remove", LiveAddon(r.sub)' PROVE r.sub \in r.batch \cup orphaned'
    BY <1>1, <2>2, <2>4, <2>5, <2>7 DEF Answers
  <2>8. Answers(r)'
    BY <2>1, <2>4, <2>5, <2>6, <2>7 DEF Answers
  <2>9. QED
    BY <1>2, <2>1, <2>2, <2>4, <2>8, RequestRests
<1>8. CASE CreateSubscription(q)
  <2>1. old.pc = "create"
    BY <1>8 DEF CreateSubscription
  <2>2. CASE UNCHANGED <<rzp, orphaned>> /\ Ends(q)
    <3>1. \A t \in Subs : /\ LiveAddon(t)' => LiveAddon(t)
                          /\ rzp[t].st # "unused" => rzp'[t].st # "unused"
      BY <2>2 DEF LiveAddon, LiveSub
    <3>2. QED
      BY <1>2, <1>3, <2>1, <2>2, <3>1, RequestRests DEF Ends
  <2>3. ASSUME NEW s \in Subs, rzp[s].st = "unused",
               rzp' = [rzp EXCEPT ![s].st = "created", ![s].item = old.item],
               NEW r, req' = [req EXCEPT ![q] = r], Answers(r)', orphaned \subseteq orphaned',
               old.item \in Kinds => (r.pc = "insert" /\ r.sub = s) \/ s \in orphaned'
        PROVE  AddonInv'
    <3>1. /\ \A t \in Subs \ {s} : rzp'[t] = rzp[t] /\ (LiveAddon(t)' <=> LiveAddon(t))
          /\ rzp'[s].st = "created" /\ (LiveAddon(s)' => old.item \in Kinds)
      BY <1>1, <2>3 DEF LiveAddon, LiveSub, SubTypes
    <3>2. Keeps
      BY <2>3, <3>1 DEF Keeps
    <3>3. \A t \in AddonSubs' : rzp'[t].st # "unused"
      BY <1>1, <1>2, <3>1
    <3>4. ASSUME NEW t \in Subs, LiveAddon(t)'
          PROVE  \/ t \in AddonSubs' \cup orphaned'
                 \/ r.pc = "insert" /\ r.sub = t
                 \/ \E p \in Requests \ {q} : req[p].pc = "insert" /\ req[p].sub = t
      <4>1. CASE t = s
        BY <2>3, <3>1, <3>4, <4>1
      <4>2. CASE t # s
        <5>1. t \in AddonSubs \/ HasRequest(t) \/ t \in orphaned
          BY <3>1, <3>4, <4>2 DEF AddonInv, OrphansExplained, LiveAddon
        <5>2. QED
          BY <1>2, <2>1, <2>3, <5>1 DEF HasRequest
      <4>3. QED
        BY <4>1, <4>2
    <3>5. QED
      BY <1>2, <2>3, <3>2, <3>3, <3>4, RequestMoves
  <2>4. ASSUME NEW s \in Subs, rzp[s].st = "unused",
               rzp' = [rzp EXCEPT ![s].st = "created", ![s].item = old.item],
               req' = [req EXCEPT ![q].sub = s,
                           ![q].pc = IF old.item \in Kinds THEN "insert" ELSE "point"],
               UNCHANGED orphaned
        PROVE  AddonInv'
    <3>1. PICK r : r = [old EXCEPT !.sub = s,
                                   !.pc = IF old.item \in Kinds THEN "insert" ELSE "point"]
      OBVIOUS
    <3>2. /\ req' = [req EXCEPT ![q] = r] /\ r.sub = s
          /\ r.pc = IF old.item \in Kinds THEN "insert" ELSE "point"
      BY <1>1, <2>4, <3>1 DEF ReqTypes
    <3>3. rzp'[s].st # "unused"
      BY <1>1, <2>4 DEF SubTypes
    <3>4. Answers(r)'
      BY <3>2, <3>3 DEF Answers
    <3>5. QED
      BY <2>3, <2>4, <3>2, <3>4
  <2>5. ASSUME NEW s \in Subs, rzp[s].st = "unused",
               rzp' = [rzp EXCEPT ![s].st = "created", ![s].item = old.item],
               Ends(q), Orphan(s)
        PROVE  AddonInv'
    <3>1. rzp'[s].item = old.item
      BY <1>1, <2>5 DEF SubTypes
    <3>2. orphaned \subseteq orphaned' /\ (old.item \in Kinds => s \in orphaned')
      BY <2>5, <3>1 DEF Orphan
    <3>3. QED
      BY <1>3, <2>3, <2>5, <3>2 DEF Ends
  <2>6. QED
    BY <1>8, <2>2, <2>4, <2>5 DEF CreateSubscription
<1>9. QED
  BY <1>5, <1>6, <1>7, <1>8

LEMMA AddonStep == BillingInv /\ AddonInv /\ [Next]_vars => AddonInv'
<1> SUFFICES ASSUME BillingInv, AddonInv, [Next]_vars PROVE AddonInv'
  OBVIOUS
<1>1. rzp \in [Subs -> SubTypes]
  BY DEF BillingInv, TypeOK, SubTypes
<1>2. CASE UNCHANGED vars
  BY <1>2, ShrinkStep DEF vars, LiveAddon, LiveSub
<1>3. ASSUME NEW q \in Requests, RequestStep(q) \/ Crash(q) PROVE AddonInv'
  BY <1>3, AddonRowStep, AddonCallStep DEF RequestStep
<1>4. ASSUME NEW q \in Requests,
             UserRequest(q) \/ ExpireSelect(q) \/ \E e \in sent : Webhook(q, e)
      PROVE  AddonInv'
  BY <1>4, AddonUserStep
<1>5. ASSUME NEW s \in Subs, Charge(s) \/ PeriodEnds(s) \/ Halts(s) \/ Completes(s)
      PROVE  AddonInv'
  <2>1. \A t \in Subs : /\ LiveAddon(t)' => LiveAddon(t)
                        /\ rzp[t].st # "unused" => rzp'[t].st # "unused"
    BY <1>1, <1>5 DEF Charge, PeriodEnds, Halts, Completes, EndSub, LiveAddon, LiveSub, SubTypes
  <2>2. UNCHANGED <<addons, req, orphaned>>
    BY <1>5 DEF Charge, PeriodEnds, Halts, Completes
  <2>3. QED
    BY <2>1, <2>2, ShrinkStep
<1>6. CASE TrialLapses
  BY <1>6, ShrinkStep DEF TrialLapses, LiveAddon, LiveSub
<1>7. QED
  BY <1>2, <1>3, <1>4, <1>5, <1>6 DEF Next

\* add_addon, remove_addon and apply_downgrade: whatever calls fail, processes die
\* and requests overlap, an add-on without a row has gone one of the four ways in
\* which an orphan is made, however many plans, add-on types, requests, renewals and
\* cancellations there were.
THEOREM AddonsAccountedFor == Spec => []OrphansExplained
<1>1. AddonInv => OrphansExplained
  BY DEF AddonInv
<1>2. QED
  BY <1>1, AddonStarts, AddonStep, BillingHolds, PTL DEF Spec
=============================================================================
