-------------------------- MODULE SchedulingProofs --------------------------
(***************************************************************************)
(* Proofs about the dispatcher and the requests of the competitors' router *)
(* for any URLs, trackings, pods, requests and limits: a due URL is        *)
(* dispatched once, and the limits of the plan hold.                       *)
(***************************************************************************)
EXTENDS Scheduling, FiniteSetTheorems, TLAPS

PodTypes == [pc : {"idle", "heal", "claim", "dispatch"}, batch : SUBSET Urls,
             writes : [Urls -> {"none", "null", "later"}]]
ReqTypes == [pc : ReqPcs, t : Trackings \cup {"none"}, saw : SchedStates \cup {"none"},
             new : {"none", "null", "later"}]

\* What a request is about to write is a schedule, and never makes a URL due.
Prepared(r) ==
    /\ r.pc # "idle" => r.t \in Trackings
    /\ r.pc \in {"create", "write", "delete"} => r.new \in {"null", "later"}

TypeInv == TypeOK /\ \A q \in Requests : Prepared(req[q])

\* A pod works on rows it has locked: those of its batch and those it has written.
Touches(p, u) == u \in pod[p].batch \/ pod[p].writes[u] # "none"

\* Pod p has enqueued u in a transaction that is still open.
Sending(p, u) == pod[p].pc = "dispatch" /\ pod[p].writes[u] = "later"

PodOK(p, u) ==
    /\ Touches(p, u) => rowLock[u] = p /\ pod[p].pc \in {"heal", "dispatch"}
    /\ Touches(p, u) /\ pod[p].pc = "dispatch" => sched[u] = "due"
    /\ u \in pod[p].batch => pod[p].writes[u] = "none"

\* A URL that is due, and that no open transaction has enqueued, has only been
\* enqueued by transactions that rolled back.
UrlOK(u) ==
    /\ enqueued[u] <= lost[u] + 1
    /\ sched[u] = "due" /\ (\A p \in Pods : ~Sending(p, u)) => enqueued[u] <= lost[u]

DispatchInv ==
    /\ \A p \in Pods, u \in Urls : PodOK(p, u)
    /\ \A u \in Urls : UrlOK(u)

\* A request that adds holds the advisory lock of its merchant, and from its check
\* on there is room for one more tracking of the merchant and of the product.
Adding(q) == req[q].pc \in {"check", "reject", "resolve", "create", "write"}

HasRoom(q) ==
    /\ Cardinality(EnabledOf(OwnerOf[req[q].t])) < MerchantLimit
    /\ Cardinality(EnabledFor(ProductOf[req[q].t])) < ProductLimit

Admitted(q) ==
    /\ Adding(q) => advisory[OwnerOf[req[q].t]] = q
    /\ req[q].pc \in {"resolve", "create", "write"} => HasRoom(q)

LimitInv ==
    /\ \A m \in Merchants : IsFiniteSet(EnabledOf(m))
    /\ \A r \in Products : IsFiniteSet(EnabledFor(r))
    /\ LimitsHold
    /\ \A q \in Requests : Admitted(q)
-----------------------------------------------------------------------------
(***************************************************************************)
(* Types.                                                                  *)
(***************************************************************************)
LEMMA IdleTypes == PodIdle \in PodTypes /\ ReqIdle \in ReqTypes /\ Prepared(ReqIdle)
BY DEF PodIdle, ReqIdle, PodTypes, ReqTypes, ReqPcs, SchedStates, Prepared

LEMMA TypeStarts == Init => TypeInv
<1> SUFFICES ASSUME Init PROVE TypeInv
  OBVIOUS
<1>1. pod \in [Pods -> PodTypes] /\ req \in [Requests -> ReqTypes]
  BY IdleTypes DEF Init
<1>2. \A q \in Requests : Prepared(req[q]) /\ req[q].pc = "idle"
  BY IdleTypes DEF Init, ReqIdle
<1>3. QED
  BY <1>1, <1>2 DEF Init, TypeInv, TypeOK, PodTypes, ReqTypes, SchedStates

\* A step of one pod.
LEMMA PodTypeStep ==
    ASSUME TypeInv, NEW p \in Pods, TickStep(p) \/ PodCrash(p)
    PROVE  TypeInv'
<1>1. /\ pod \in [Pods -> PodTypes] /\ req \in [Requests -> ReqTypes]
      /\ sched \in [Urls -> SchedStates] /\ enqueued \in [Urls -> Nat] /\ lost \in [Urls -> Nat]
      /\ rowLock \in [Urls -> Pods \cup Requests \cup {Nobody}]
      /\ counts \in [{"adds", "deletes", "crashes"} -> Nat]
  BY DEF TypeInv, TypeOK, PodTypes, ReqTypes
<1>2. UNCHANGED <<blocked, track, advisory, req>>
  BY DEF TickStep, HealSelect, HealRefresh, HealCommit, ClaimDueUrls, DispatchUrl,
         DispatchCommit, PodCrash, database, locks, history
<1>3. \A t : Refreshed(t) \in {"null", "later"}
  BY DEF Refreshed
<1>4. rowLock' \in [Urls -> Pods \cup Requests \cup {Nobody}]
  BY <1>1 DEF TickStep, HealSelect, HealRefresh, HealCommit, ClaimDueUrls, DispatchUrl,
         DispatchCommit, PodCrash, locks, Lock, Unlocked
<1>5. sched' \in [Urls -> SchedStates]
  <2>1. Committed(p) \in [Urls -> SchedStates]
    BY <1>1 DEF Committed, PodTypes, SchedStates
  <2>2. QED
    BY <1>1, <2>1 DEF TickStep, HealSelect, HealRefresh, HealCommit, ClaimDueUrls,
         DispatchUrl, DispatchCommit, PodCrash, database
<1>6. /\ enqueued' \in [Urls -> Nat] /\ lost' \in [Urls -> Nat]
      /\ counts' \in [{"adds", "deletes", "crashes"} -> Nat]
  <2>1. ASSUME NEW u \in Urls, DispatchUrl(p, u)
        PROVE  enqueued' \in [Urls -> Nat]
    BY <1>1, <2>1 DEF DispatchUrl
  <2>2. CASE PodCrash(p)
    BY <1>1, <2>2 DEF PodCrash, Count
  <2>3. QED
    BY <1>1, <2>1, <2>2 DEF TickStep, HealSelect, HealRefresh, HealCommit, ClaimDueUrls,
         DispatchUrl, DispatchCommit, history
<1>7. pod' \in [Pods -> PodTypes]
  <2>1. ASSUME HealSelect(p) PROVE pod' \in [Pods -> PodTypes]
    <3>1. [pod[p] EXCEPT !.pc = "heal", !.batch = Unscheduled] \in PodTypes
      BY <1>1 DEF PodTypes, Unscheduled
    <3>2. QED
      BY <1>1, <2>1, <3>1 DEF HealSelect, PodTypes
  <2>2. ASSUME NEW S \in SUBSET Due,
               pod' = [pod EXCEPT ![p].pc = "dispatch", ![p].batch = S]
        PROVE  pod' \in [Pods -> PodTypes]
    <3>1. S \in SUBSET Urls
      BY DEF Due
    <3>2. [pod[p] EXCEPT !.pc = "dispatch", !.batch = S] \in PodTypes
      BY <1>1, <3>1 DEF PodTypes
    <3>3. QED
      BY <1>1, <2>2, <3>2 DEF PodTypes
  <2>3. ASSUME NEW u \in Urls, HealRefresh(p, u) \/ DispatchUrl(p, u)
        PROVE  pod' \in [Pods -> PodTypes]
    <3>1. PICK v \in {"none", "null", "later"} :
             pod' = [pod EXCEPT ![p].batch = @ \ {u}, ![p].writes[u] = v]
      BY <1>3, <2>3 DEF HealRefresh, DispatchUrl
    <3>2. /\ pod[p] \in PodTypes /\ pod[p].batch \ {u} \in SUBSET Urls
          /\ [pod[p].writes EXCEPT ![u] = v] \in [Urls -> {"none", "null", "later"}]
      BY <1>1 DEF PodTypes
    <3>3. pod' = [pod EXCEPT ![p] = [pod[p] EXCEPT !.batch = pod[p].batch \ {u},
                                                  !.writes = [pod[p].writes EXCEPT ![u] = v]]]
      BY <1>1, <3>1, Zenon
    <3>5. [pod[p] EXCEPT !.batch = pod[p].batch \ {u},
                         !.writes = [pod[p].writes EXCEPT ![u] = v]] \in PodTypes
      BY <3>2 DEF PodTypes
    <3>4. QED
      BY <1>1, <3>3, <3>5
  <2>4. CASE HealCommit(p)
    <3>1. [PodIdle EXCEPT !.pc = "claim"] \in PodTypes
      BY IdleTypes DEF PodTypes
    <3>2. QED
      BY <1>1, <2>4, <3>1 DEF HealCommit
  <2>5. CASE DispatchCommit(p) \/ PodCrash(p)
    BY <1>1, <2>5, IdleTypes DEF DispatchCommit, PodCrash
  <2>6. QED
    BY <2>1, <2>2, <2>3, <2>4, <2>5 DEF TickStep, ClaimDueUrls
<1>8. QED
  BY <1>2, <1>4, <1>5, <1>6, <1>7 DEF TypeInv, TypeOK, PodTypes, Prepared
\* A request moves on.
LEMMA ReqTypeStep ==
    ASSUME TypeInv, NEW q \in Requests,
           \/ \E t \in Trackings : AddLock(q, t) \/ DeleteRead(q, t)
           \/ RequestStep(q) \/ ReqCrash(q)
    PROVE  TypeInv'
<1> DEFINE old == req[q]
<1>1. /\ req \in [Requests -> ReqTypes] /\ old \in ReqTypes /\ Prepared(old)
      /\ sched \in [Urls -> SchedStates] /\ UrlOf \in [Trackings -> Urls]
      /\ track \in [Trackings -> {"absent", "enabled", "disabled"}]
      /\ rowLock \in [Urls -> Pods \cup Requests \cup {Nobody}]
      /\ advisory \in [Merchants -> Requests \cup {Nobody}]
      /\ counts \in [{"adds", "deletes", "crashes"} -> Nat]
  BY SchedulingAssumption DEF TypeInv, TypeOK, ReqTypes
<1>2. ASSUME UNCHANGED <<blocked, pod, enqueued, lost>>,
             sched' \in [Urls -> SchedStates],
             track' \in [Trackings -> {"absent", "enabled", "disabled"}],
             rowLock' \in [Urls -> Pods \cup Requests \cup {Nobody}],
             advisory' \in [Merchants -> Requests \cup {Nobody}],
             counts' \in [{"adds", "deletes", "crashes"} -> Nat],
             NEW r \in ReqTypes, Prepared(r), req' = [req EXCEPT ![q] = r]
      PROVE  TypeInv'
  <2>1. \A p \in Requests : Prepared(req'[p])
    BY <1>1, <1>2 DEF TypeInv
  <2>2. req' \in [Requests -> ReqTypes]
    BY <1>1, <1>2
  <2>3. TypeOK'
    BY <1>2, <2>1, <2>2 DEF TypeInv, TypeOK, ReqTypes, Prepared
  <2>4. QED
    BY <2>1, <2>3 DEF TypeInv, Prepared
<1>3. ASSUME Count("adds") \/ Count("deletes") \/ Count("crashes")
      PROVE  counts' \in [{"adds", "deletes", "crashes"} -> Nat]
  BY <1>1, <1>3 DEF Count
<1>4. /\ Unlocked(q) \in [Urls -> Pods \cup Requests \cup {Nobody}]
      /\ [m \in Merchants |-> IF advisory[m] = q THEN Nobody ELSE advisory[m]]
            \in [Merchants -> Requests \cup {Nobody}]
  BY <1>1 DEF Unlocked
<1>5. ReqIdle \in ReqTypes /\ Prepared(ReqIdle)
  BY IdleTypes
<1>6. ASSUME NEW t \in Trackings, AddLock(q, t) PROVE TypeInv'
  <2> DEFINE r == [ReqIdle EXCEPT !.pc = "check", !.t = t]
  <2>1. r \in ReqTypes /\ Prepared(r)
    BY <1>5 DEF ReqTypes, ReqPcs, Prepared
  <2>2. /\ UNCHANGED <<blocked, pod, enqueued, lost, sched, track, rowLock>> /\ Count("adds")
        /\ req' = [req EXCEPT ![q] = r]
    BY <1>6 DEF AddLock, database
  <2>3. advisory' \in [Merchants -> Requests \cup {Nobody}]
    BY <1>1, <1>6 DEF AddLock
  <2>4. QED
    BY <1>1, <1>2, <1>3, <2>1, <2>2, <2>3
<1>7. ASSUME NEW t \in Trackings, DeleteRead(q, t) PROVE TypeInv'
  <2> DEFINE r == [pc |-> "delete", t |-> t, saw |-> sched[UrlOf[t]],
                   new |-> Refreshed(EnabledTrackings(UrlOf[t]) \ {t})]
  <2>1. r \in ReqTypes /\ Prepared(r)
    BY <1>1 DEF ReqTypes, ReqPcs, Prepared, Refreshed
  <2>2. /\ UNCHANGED <<blocked, pod, enqueued, lost, sched, track, rowLock, advisory>>
        /\ Count("deletes") /\ req' = [req EXCEPT ![q] = r]
    BY <1>7 DEF DeleteRead, database, locks
  <2>3. QED
    BY <1>1, <1>2, <1>3, <2>1, <2>2
<1>8. ASSUME NEW pc \in {"resolve", "reject"}, req' = [req EXCEPT ![q].pc = pc], AddCheck(q)
      PROVE  TypeInv'
  <2>1. PICK r : r = [old EXCEPT !.pc = pc]
    OBVIOUS
  <2>2. r \in ReqTypes /\ Prepared(r) /\ req' = [req EXCEPT ![q] = r]
    BY <1>1, <1>8, <2>1 DEF AddCheck, ReqTypes, ReqPcs, Prepared
  <2>3. QED
    BY <1>1, <1>2, <1>8, <2>2 DEF AddCheck, database, locks, history
<1>9. ASSUME AddResolve(q) PROVE TypeInv'
  <2> DEFINE u == UrlOf[old.t]
             pc == IF sched[u] = "absent" THEN "create" ELSE "write"
  <2>1. PICK r : r = [old EXCEPT !.pc = pc, !.saw = sched[u], !.new = "later"]
    OBVIOUS
  <2>2. u \in Urls /\ old.t \in Trackings
    BY <1>1, <1>9 DEF AddResolve, Prepared
  <2>3. r \in ReqTypes /\ Prepared(r)
    BY <1>1, <2>1, <2>2 DEF ReqTypes, ReqPcs, Prepared
  <2>4. req' = [req EXCEPT ![q] = r]
    BY <1>1, <1>9, <2>1 DEF AddResolve, ReqTypes
  <2>5. QED
    BY <1>1, <1>2, <1>9, <2>3, <2>4 DEF AddResolve, database, locks, history
<1>10. ASSUME ReqEnds(q), UNCHANGED <<database, pod, enqueued, lost>>,
              counts' \in [{"adds", "deletes", "crashes"} -> Nat]
       PROVE  TypeInv'
  BY <1>1, <1>2, <1>4, <1>5, <1>10 DEF ReqEnds, database
<1>11. ASSUME AddCreate(q) PROVE TypeInv'
  <2>1. CASE ReqEnds(q)
    BY <1>1, <1>10, <1>11, <2>1 DEF AddCreate, history
  <2>2. CASE /\ rowLock' = [rowLock EXCEPT ![UrlOf[old.t]] = q]
             /\ req' = [req EXCEPT ![q].pc = "write"] /\ UNCHANGED advisory
    <3>1. PICK r : r = [old EXCEPT !.pc = "write"]
      OBVIOUS
    <3>2. r \in ReqTypes /\ Prepared(r) /\ req' = [req EXCEPT ![q] = r]
      BY <1>1, <1>11, <2>2, <3>1 DEF AddCreate, ReqTypes, ReqPcs, Prepared
    <3>3. rowLock' \in [Urls -> Pods \cup Requests \cup {Nobody}]
      BY <1>1, <2>2
    <3>4. QED
      BY <1>1, <1>2, <1>11, <2>2, <3>2, <3>3 DEF AddCreate, database, history
  <2>3. QED
    BY <1>11, <2>1, <2>2 DEF AddCreate
<1>12. ASSUME NEW u \in Urls, NEW state \in {"enabled", "disabled"}, ReqCommit(q, u, state),
              old.pc \in {"write", "delete"}
       PROVE  TypeInv'
  <2>1. old.new \in SchedStates /\ old.t \in Trackings
    BY <1>1, <1>12 DEF Prepared, SchedStates
  <2>2. sched' \in [Urls -> SchedStates]
    BY <1>1, <1>12, <2>1 DEF ReqCommit
  <2>3. track' \in [Trackings -> {"absent", "enabled", "disabled"}]
    BY <1>1, <1>12, <2>1 DEF ReqCommit
  <2>4. QED
    BY <1>1, <1>2, <1>4, <1>5, <1>12, <2>2, <2>3 DEF ReqCommit, ReqEnds, history
<1>13. ASSUME RequestStep(q) PROVE TypeInv'
  <2>1. CASE AddCheck(q)
    BY <1>8, <2>1 DEF AddCheck
  <2>2. CASE AddReject(q)
    BY <1>1, <1>10, <2>2 DEF AddReject, history
  <2>3. CASE AddCommit(q) \/ DeleteCommit(q)
    <3>1. old.t \in Trackings /\ UrlOf[old.t] \in Urls
      BY <1>1, <2>3 DEF AddCommit, DeleteCommit, Prepared
    <3>2. QED
      BY <1>12, <2>3, <3>1 DEF AddCommit, DeleteCommit
  <2>4. QED
    BY <1>9, <1>11, <1>13, <2>1, <2>2, <2>3 DEF RequestStep
<1>14. ASSUME ReqCrash(q) PROVE TypeInv'
  BY <1>3, <1>10, <1>14 DEF ReqCrash
<1>15. QED
  BY <1>6, <1>7, <1>13, <1>14

LEMMA TypeStep == TypeInv /\ [Next]_vars => TypeInv'
<1> SUFFICES ASSUME TypeInv, [Next]_vars PROVE TypeInv'
  OBVIOUS
<1>1. CASE UNCHANGED vars
  BY <1>1 DEF vars, database, locks, history, TypeInv, TypeOK, Prepared
<1>2. ASSUME NEW u \in Urls, DomainBlocked(u) \/ BecomesDue(u) PROVE TypeInv'
  <2>1. \A q \in Requests : Prepared(req'[q])
    BY <1>2 DEF DomainBlocked, BecomesDue, TypeInv
  <2>2. CASE DomainBlocked(u)
    BY <2>1, <2>2 DEF DomainBlocked, locks, history, TypeInv, TypeOK, Prepared
  <2>3. CASE BecomesDue(u)
    <3>1. sched' \in [Urls -> SchedStates]
      BY <2>3 DEF BecomesDue, TypeInv, TypeOK, SchedStates
    <3>2. enqueued' \in [Urls -> Nat] /\ lost' \in [Urls -> Nat]
      BY <2>3 DEF BecomesDue, TypeInv, TypeOK
    <3>3. QED
      BY <2>1, <2>3, <3>1, <3>2 DEF BecomesDue, locks, TypeInv, TypeOK, Prepared
  <2>4. QED
    BY <1>2, <2>2, <2>3
<1>3. QED
  BY <1>1, <1>2, PodTypeStep, ReqTypeStep DEF Next

-----------------------------------------------------------------------------
(***************************************************************************)
(* A due URL is dispatched once.                                           *)
(***************************************************************************)
LEMMA DispatchStarts == Init => DispatchInv
BY DEF Init, DispatchInv, PodOK, UrlOK, Touches, PodIdle

\* Two pods never touch the same row.
LEMMA OneToucher ==
    ASSUME DispatchInv, NEW p \in Pods, NEW r \in Pods, NEW u \in Urls,
           Touches(p, u), Touches(r, u)
    PROVE  p = r
BY DEF DispatchInv, PodOK

\* Steps that no pod makes: rows that pods have locked stay as they are, and no
\* URL becomes due that has been enqueued.
LEMMA OthersStep ==
    ASSUME TypeInv, DispatchInv, UNCHANGED pod,
           \A u \in Urls :
              /\ rowLock[u] \in Pods => rowLock'[u] = rowLock[u] /\ sched'[u] = sched[u]
              /\ \/ /\ enqueued'[u] = enqueued[u] /\ lost'[u] = lost[u]
                    /\ sched'[u] = "due" => sched[u] = "due"
                 \/ /\ sched[u] = "later"
                    /\ enqueued'[u] = 0 /\ lost'[u] = 0
    PROVE  DispatchInv'
<1>1. ASSUME NEW p \in Pods, NEW u \in Urls PROVE PodOK(p, u)'
  BY DEF DispatchInv, PodOK, Touches
<1>2. ASSUME NEW u \in Urls PROVE UrlOK(u)'
  BY DEF DispatchInv, UrlOK, Sending
<1>3. QED
  BY <1>1, <1>2 DEF DispatchInv
\* A pod that opens a transaction locks rows that nobody holds.
LEMMA OpenStep ==
    ASSUME TypeInv, DispatchInv, NEW p \in Pods, HealSelect(p) \/ ClaimDueUrls(p)
    PROVE  DispatchInv'
<1>1. UNCHANGED <<sched, enqueued, lost>> /\ pod[p].pc \in {"idle", "claim"}
  BY DEF HealSelect, ClaimDueUrls, database, history
<1>2. PICK S \in SUBSET Urls, pc \in {"heal", "dispatch"} :
         /\ \A u \in S : rowLock[u] = Nobody /\ (pc = "dispatch" => sched[u] = "due")
         /\ Lock(p, S)
         /\ pod' = [pod EXCEPT ![p].pc = pc, ![p].batch = S]
  <2>1. CASE HealSelect(p)
    BY <2>1 DEF HealSelect, Unscheduled
  <2>2. CASE ClaimDueUrls(p)
    BY <2>2 DEF ClaimDueUrls, Due
  <2>3. QED
    BY <2>1, <2>2
<1>3. /\ \A r \in Pods \ {p} : pod'[r] = pod[r]
      /\ pod'[p].pc = pc /\ pod'[p].batch = S /\ pod'[p].writes = pod[p].writes
  BY <1>2 DEF TypeInv, TypeOK
<1>4. ASSUME NEW u \in Urls PROVE ~Touches(p, u) /\ pod[p].writes[u] = "none"
  BY <1>1 DEF DispatchInv, PodOK, Touches
<1>5. ASSUME NEW r \in Pods, NEW u \in Urls PROVE PodOK(r, u)'
  <2>1. CASE r = p
    BY <1>1, <1>2, <1>3, <1>4, <2>1 DEF PodOK, Touches, Lock
  <2>2. CASE r # p
    <3>1. PodOK(r, u) /\ (Touches(r, u)' <=> Touches(r, u))
      BY <1>3, <2>2 DEF DispatchInv, Touches
    <3>2. Touches(r, u) => rowLock'[u] = r
      BY <1>2, <3>1, SchedulingAssumption DEF PodOK, Lock
    <3>3. QED
      BY <1>1, <1>3, <2>2, <3>1, <3>2 DEF PodOK, Touches
  <2>3. QED
    BY <2>1, <2>2
<1>6. ASSUME NEW u \in Urls PROVE UrlOK(u)'
  <2>1. \A r \in Pods : Sending(r, u) => Sending(r, u)'
    BY <1>1, <1>3 DEF Sending
  <2>2. \A r \in Pods : Sending(r, u)' => Sending(r, u)
    BY <1>3, <1>4 DEF Sending
  <2>3. QED
    BY <1>1, <2>1, <2>2 DEF DispatchInv, UrlOK
<1>7. QED
  BY <1>5, <1>6 DEF DispatchInv

\* It takes the rows of its batch one by one; a job is enqueued for a URL that is
\* still due, because its row is locked, and that nobody has just enqueued.
LEMMA TakeStep ==
    ASSUME TypeInv, DispatchInv, NEW p \in Pods, NEW u \in Urls,
           HealRefresh(p, u) \/ DispatchUrl(p, u)
    PROVE  DispatchInv'
<1> DEFINE w == Refreshed(EnabledTrackings(u))
<1>1. /\ UNCHANGED <<sched, rowLock, lost>> /\ u \in pod[p].batch
      /\ pod[p].pc \in {"heal", "dispatch"}
      /\ pod' = [pod EXCEPT ![p].batch = pod[p].batch \ {u}, ![p].writes[u] = w]
  BY DEF HealRefresh, DispatchUrl, database, locks, history
<1>2. w \in {"null", "later"}
  BY DEF Refreshed
<1>3. /\ \A r \in Pods \ {p} : pod'[r] = pod[r]
      /\ pod'[p].pc = pod[p].pc /\ pod'[p].batch = pod[p].batch \ {u}
      /\ pod'[p].writes = [pod[p].writes EXCEPT ![u] = w]
      /\ pod[p].writes \in [Urls -> {"none", "null", "later"}]
      /\ enqueued \in [Urls -> Nat] /\ lost \in [Urls -> Nat]
  BY <1>1 DEF TypeInv, TypeOK
<1>4. /\ \A v \in Urls \ {u} : pod'[p].writes[v] = pod[p].writes[v]
      /\ pod'[p].writes[u] = w /\ pod[p].writes[u] = "none"
  <2>1. PodOK(p, u)
    BY DEF DispatchInv
  <2>2. QED
    BY <1>1, <1>3, <2>1 DEF PodOK
<1>5. ASSUME NEW r \in Pods, NEW v \in Urls PROVE PodOK(r, v)'
  <2>1. PodOK(r, v) /\ PodOK(p, u)
    BY DEF DispatchInv
  <2>2. CASE r # p
    BY <1>1, <1>3, <2>1, <2>2 DEF PodOK, Touches
  <2>3. CASE r = p /\ v # u
    BY <1>1, <1>3, <1>4, <2>1, <2>3 DEF PodOK, Touches
  <2>4. CASE r = p /\ v = u
    BY <1>1, <1>3, <1>4, <2>1, <2>4 DEF PodOK, Touches
  <2>5. QED
    BY <2>2, <2>3, <2>4
<1>6. ASSUME NEW v \in Urls, v # u PROVE UrlOK(v)'
  <2>1. \A r \in Pods : Sending(r, v)' <=> Sending(r, v)
    BY <1>3, <1>4, <1>6 DEF Sending
  <2>2. enqueued'[v] = enqueued[v]
    BY <1>3, <1>6 DEF HealRefresh, DispatchUrl, history
  <2>3. QED
    BY <1>1, <2>1, <2>2 DEF DispatchInv, UrlOK
<1>7. UrlOK(u)'
  <2>1. \A r \in Pods : ~Sending(r, u)
    BY <1>1, <1>4, OneToucher DEF Sending, Touches
  <2>2. CASE HealRefresh(p, u)
    <3>1. \A r \in Pods : ~Sending(r, u)'
      BY <1>3, <2>1, <2>2 DEF HealRefresh, Sending
    <3>2. QED
      BY <1>1, <2>1, <2>2 DEF HealRefresh, history, DispatchInv, UrlOK
  <2>3. CASE DispatchUrl(p, u)
    <3>1. enqueued[u] <= lost[u]
      BY <1>1, <2>1, <2>3 DEF DispatchUrl, DispatchInv, PodOK, UrlOK, Touches
    <3>2. enqueued'[u] = enqueued[u] + (IF EnabledTrackings(u) = {} THEN 0 ELSE 1)
      BY <1>3, <2>3 DEF DispatchUrl
    <3>3. Sending(p, u)' <=> EnabledTrackings(u) # {}
      BY <1>1, <1>3, <1>4, <2>3 DEF DispatchUrl, Sending, Refreshed
    <3>4. QED
      BY <1>1, <1>3, <3>1, <3>2, <3>3 DEF UrlOK
  <2>4. QED
    BY <2>2, <2>3
<1>8. QED
  BY <1>5, <1>6, <1>7 DEF DispatchInv

\* A pod that commits or dies lets its rows go; what it had enqueued is paid for by
\* the new schedule, or counted as lost.
LEMMA CloseStep ==
    ASSUME TypeInv, DispatchInv, NEW p \in Pods,
           HealCommit(p) \/ DispatchCommit(p) \/ PodCrash(p)
    PROVE  DispatchInv'
<1>1. /\ rowLock' = Unlocked(p) /\ enqueued' = enqueued
      /\ pod[p].pc = "heal" => ~DispatchCommit(p)
  BY DEF HealCommit, DispatchCommit, PodCrash, history
<1>2. /\ \A r \in Pods \ {p} : pod'[r] = pod[r]
      /\ pod'[p].pc \in {"idle", "claim"} /\ pod'[p].batch = {}
      /\ pod'[p].writes = [u \in Urls |-> "none"]
  <2>1. \E r : /\ r = PodIdle \/ r = [PodIdle EXCEPT !.pc = "claim"]
              /\ pod' = [pod EXCEPT ![p] = r]
    BY DEF HealCommit, DispatchCommit, PodCrash
  <2>2. ASSUME NEW r, r = PodIdle \/ r = [PodIdle EXCEPT !.pc = "claim"]
        PROVE  /\ r.pc \in {"idle", "claim"} /\ r.batch = {}
               /\ r.writes = [u \in Urls |-> "none"]
    BY <2>2 DEF PodIdle
  <2>3. QED
    BY <2>1, <2>2 DEF TypeInv, TypeOK
<1>3. /\ pod[p].writes \in [Urls -> {"none", "null", "later"}]
      /\ enqueued \in [Urls -> Nat] /\ lost \in [Urls -> Nat]
  BY DEF TypeInv, TypeOK
<1>4. ASSUME NEW u \in Urls
      PROVE  /\ pod[p].writes[u] = "none" => sched'[u] = sched[u]
             /\ sched'[u] = "due" => sched[u] = "due"
             /\ rowLock'[u] = IF rowLock[u] = p THEN Nobody ELSE rowLock[u]
  BY <1>1, <1>3 DEF HealCommit, DispatchCommit, PodCrash, Committed, Unlocked, database
<1>5. ASSUME NEW r \in Pods, NEW u \in Urls PROVE PodOK(r, u)'
  <2>1. CASE r = p
    BY <1>2, <2>1 DEF PodOK, Touches
  <2>2. CASE r # p
    <3>1. Touches(r, u)' => Touches(r, u)
      BY <1>2, <2>2 DEF Touches
    <3>2. Touches(r, u) => pod[p].writes[u] = "none" /\ rowLock[u] = r
      BY <2>2 DEF DispatchInv, PodOK, Touches
    <3>3. QED
      BY <1>2, <1>4, <2>2, <3>1, <3>2 DEF DispatchInv, PodOK
  <2>3. QED
    BY <2>1, <2>2
<1>6. ASSUME NEW u \in Urls PROVE UrlOK(u)'
  <2>1. \A r \in Pods : Sending(r, u)' <=> r # p /\ Sending(r, u)
    BY <1>2 DEF Sending
  <2>2. UrlOK(u)
    BY DEF DispatchInv
  <2>3. CASE ~Sending(p, u)
    <3>1. lost'[u] = lost[u]
      BY <1>3, <2>3 DEF HealCommit, DispatchCommit, PodCrash, Sending, history
    <3>2. QED
      BY <1>1, <1>4, <2>1, <2>2, <2>3, <3>1 DEF UrlOK
  <2>4. CASE Sending(p, u) /\ PodCrash(p)
    <3>1. lost'[u] = lost[u] + 1
      BY <1>3, <2>4 DEF PodCrash, Sending
    <3>2. QED
      BY <1>1, <1>3, <2>2, <3>1 DEF UrlOK
  <2>5. CASE Sending(p, u) /\ ~PodCrash(p)
    <3>1. sched'[u] = "later" /\ lost' = lost
      BY <2>5 DEF HealCommit, DispatchCommit, Sending, Committed, history
    <3>2. QED
      BY <1>1, <2>2, <3>1 DEF UrlOK
  <2>6. QED
    BY <2>3, <2>4, <2>5
<1>7. QED
  BY <1>5, <1>6 DEF DispatchInv

LEMMA DispatchStep == TypeInv /\ DispatchInv /\ [Next]_vars => DispatchInv'
<1> SUFFICES ASSUME TypeInv, DispatchInv, [Next]_vars PROVE DispatchInv'
  OBVIOUS
<1>1. CASE UNCHANGED vars
  BY <1>1, OthersStep DEF vars, database, locks, history
<1>2. ASSUME NEW p \in Pods, TickStep(p) \/ PodCrash(p) PROVE DispatchInv'
  BY <1>2, OpenStep, TakeStep, CloseStep DEF TickStep
<1>3. ASSUME NEW q \in Requests,
             \/ \E t \in Trackings : AddLock(q, t) \/ DeleteRead(q, t)
             \/ RequestStep(q) \/ ReqCrash(q)
      PROVE  DispatchInv'
  <2>1. /\ rowLock \in [Urls -> Pods \cup Requests \cup {Nobody}] /\ q \notin Pods
        /\ Nobody \notin Pods
    BY SchedulingAssumption DEF TypeInv, TypeOK
  <2>2. UNCHANGED <<pod, enqueued, lost>>
    BY <1>3 DEF AddLock, DeleteRead, RequestStep, ReqCrash, AddCheck, AddReject, AddResolve,
                AddCreate, AddCommit, DeleteCommit, ReqCommit, history
  <2>3. ASSUME NEW u \in Urls, rowLock[u] \in Pods PROVE rowLock'[u] = rowLock[u]
    BY <1>3, <2>1, <2>3 DEF AddLock, DeleteRead, RequestStep, ReqCrash, AddCheck, AddReject,
                AddResolve, AddCreate, AddCommit, DeleteCommit, ReqCommit, ReqEnds, Unlocked, locks
  <2>4. \/ sched' = sched
        \/ \E v \in Urls : /\ rowLock[v] \in {Nobody, q}
                           /\ req[q].pc \in {"write", "delete"}
                           /\ sched' = [sched EXCEPT ![v] = req[q].new]
    <3>1. CASE AddCommit(q) \/ DeleteCommit(q)
      <4>1. UrlOf[req[q].t] \in Urls
        BY <3>1, SchedulingAssumption DEF AddCommit, DeleteCommit, TypeInv, Prepared
      <4>2. QED
        BY <3>1, <4>1 DEF AddCommit, DeleteCommit, ReqCommit
    <3>2. CASE ~(AddCommit(q) \/ DeleteCommit(q))
      BY <1>3, <3>2 DEF AddLock, DeleteRead, RequestStep, ReqCrash, AddCheck, AddReject,
                AddResolve, AddCreate, database
    <3>3. QED
      BY <3>1, <3>2
  <2>5. ASSUME NEW u \in Urls
        PROVE  /\ rowLock[u] \in Pods => sched'[u] = sched[u]
               /\ sched'[u] = "due" => sched[u] = "due"
    <3>1. req[q].pc \in {"write", "delete"} => req[q].new \in {"null", "later"}
      BY DEF TypeInv, Prepared
    <3>2. QED
      BY <2>1, <2>4, <3>1 DEF TypeInv, TypeOK
  <2>6. QED
    BY <2>2, <2>3, <2>5, OthersStep
<1>4. ASSUME NEW u \in Urls, DomainBlocked(u) PROVE DispatchInv'
  BY <1>4, OthersStep DEF DomainBlocked, locks, history
<1>5. ASSUME NEW u \in Urls, BecomesDue(u) PROVE DispatchInv'
  <2>1. \A p \in Pods : Touches(p, u) => pod[p].pc = "heal"
    BY <1>5 DEF BecomesDue, DispatchInv, PodOK
  <2>2. /\ UNCHANGED <<rowLock, pod>> /\ sched' = [sched EXCEPT ![u] = "due"]
        /\ enqueued' = [enqueued EXCEPT ![u] = 0] /\ lost' = [lost EXCEPT ![u] = 0]
    BY <1>5 DEF BecomesDue, locks
  <2>3. /\ sched \in [Urls -> SchedStates] /\ enqueued \in [Urls -> Nat]
        /\ lost \in [Urls -> Nat]
    BY DEF TypeInv, TypeOK
  <2>4. ASSUME NEW p \in Pods, NEW v \in Urls PROVE PodOK(p, v)'
    BY <2>1, <2>2, <2>3 DEF DispatchInv, PodOK, Touches
  <2>5. ASSUME NEW v \in Urls PROVE UrlOK(v)'
    <3>1. CASE v = u
      BY <2>2, <2>3, <3>1 DEF UrlOK
    <3>2. CASE v # u
      BY <2>2, <2>3, <3>2 DEF DispatchInv, UrlOK, Sending
    <3>3. QED
      BY <3>1, <3>2
  <2>6. QED
    BY <2>4, <2>5 DEF DispatchInv
<1>6. QED
  BY <1>1, <1>2, <1>3, <1>4, <1>5 DEF Next

-----------------------------------------------------------------------------
(***************************************************************************)
(* The limits of the plan.                                                 *)
(***************************************************************************)
LEMMA LimitStarts == Init => LimitInv
<1> SUFFICES ASSUME Init PROVE LimitInv
  OBVIOUS
<1>1. /\ \A m : EnabledOf(m) = {}
      /\ \A r : EnabledFor(r) = {}
  BY DEF Init, EnabledOf, EnabledFor
<1>2. IsFiniteSet({}) /\ Cardinality({}) = 0 /\ MerchantLimit \in Nat /\ ProductLimit \in Nat
  BY FS_EmptySet, SchedulingAssumption
<1>3. \A q \in Requests : Admitted(q)
  BY DEF Init, ReqIdle, Admitted, Adding
<1>4. QED
  BY <1>1, <1>2, <1>3 DEF LimitInv, LimitsHold

\* A step that enables no tracking leaves at most as many.
LEMMA NoneEnabled ==
    ASSUME LimitInv,
           \A t \in Trackings : track'[t] = "enabled" => track[t] = "enabled"
    PROVE  /\ \A m \in Merchants :
                 /\ IsFiniteSet(EnabledOf(m)')
                 /\ Cardinality(EnabledOf(m)') \in Nat /\ Cardinality(EnabledOf(m)) \in Nat
                 /\ Cardinality(EnabledOf(m)') <= Cardinality(EnabledOf(m))
           /\ \A r \in Products :
                 /\ IsFiniteSet(EnabledFor(r)')
                 /\ Cardinality(EnabledFor(r)') \in Nat /\ Cardinality(EnabledFor(r)) \in Nat
                 /\ Cardinality(EnabledFor(r)') <= Cardinality(EnabledFor(r))
<1>1. ASSUME NEW m \in Merchants
      PROVE  /\ IsFiniteSet(EnabledOf(m)')
             /\ Cardinality(EnabledOf(m)') \in Nat /\ Cardinality(EnabledOf(m)) \in Nat
             /\ Cardinality(EnabledOf(m)') <= Cardinality(EnabledOf(m))
  <2>1. IsFiniteSet(EnabledOf(m)) /\ EnabledOf(m)' \in SUBSET EnabledOf(m)
    BY DEF LimitInv, EnabledOf
  <2>2. QED
    BY <2>1, FS_Subset, FS_CardinalityType
<1>2. ASSUME NEW r \in Products
      PROVE  /\ IsFiniteSet(EnabledFor(r)')
             /\ Cardinality(EnabledFor(r)') \in Nat /\ Cardinality(EnabledFor(r)) \in Nat
             /\ Cardinality(EnabledFor(r)') <= Cardinality(EnabledFor(r))
  <2>1. IsFiniteSet(EnabledFor(r)) /\ EnabledFor(r)' \in SUBSET EnabledFor(r)
    BY DEF LimitInv, EnabledFor
  <2>2. QED
    BY <2>1, FS_Subset, FS_CardinalityType
<1>3. QED
  BY <1>1, <1>2

\* A step that enables nothing leaves a request that is not adding, or that has
\* just taken the lock; or the request goes on adding with the lock it has.
Outside(q) ==
    \/ req'[q].pc \in {"idle", "delete"}
    \/ req'[q].pc = "check" /\ advisory'[OwnerOf[req'[q].t]] = q

GoesOn(q) ==
    /\ req'[q].t = req[q].t /\ req'[q].t \in Trackings
    /\ Adding(q)
    /\ advisory[OwnerOf[req[q].t]] = q => advisory'[OwnerOf[req[q].t]] = q
    /\ \/ req'[q].pc \in {"check", "reject"}
       \/ req[q].pc \in {"resolve", "create", "write"}
       \/ HasRoom(q)

\* Steps that enable nothing: each request keeps its lock and its room, or it is
\* one that has just taken the lock, found the room, or ended.
LEMMA QuietStep ==
    ASSUME TypeInv, LimitInv,
           \A t \in Trackings : track'[t] = "enabled" => track[t] = "enabled",
           \A q \in Requests : Outside(q) \/ GoesOn(q)
    PROVE  LimitInv'
<1>1. /\ MerchantLimit \in Nat /\ ProductLimit \in Nat
      /\ OwnerOf \in [Trackings -> Merchants] /\ ProductOf \in [Trackings -> Products]
  BY SchedulingAssumption
<1>2. LimitsHold'
  BY <1>1, NoneEnabled DEF LimitInv, LimitsHold
<1>3. ASSUME NEW q \in Requests PROVE Admitted(q)'
  <2>1. Admitted(q)
    BY DEF LimitInv
  <2>2. CASE Outside(q)
    BY <2>2 DEF Outside, Admitted, Adding
  <2>3. CASE GoesOn(q)
    <3>1. advisory'[OwnerOf[req'[q].t]] = q
      BY <2>1, <2>3 DEF GoesOn, Admitted
    <3>2. HasRoom(q) => HasRoom(q)'
      <4>1. OwnerOf[req[q].t] \in Merchants /\ ProductOf[req[q].t] \in Products
        BY <1>1, <2>3 DEF GoesOn
      <4>2. QED
        BY <1>1, <2>3, <4>1, NoneEnabled DEF GoesOn, HasRoom
    <3>3. req'[q].pc \in {"resolve", "create", "write"} => HasRoom(q)'
      BY <2>1, <2>3, <3>2 DEF GoesOn, Admitted
    <3>4. QED
      BY <3>1, <3>3 DEF GoesOn, Admitted
  <2>4. QED
    BY <2>2, <2>3
<1>4. QED
  BY <1>2, <1>3, NoneEnabled DEF LimitInv

\* A set grows by one at most when an element is added.
LEMMA AtMostOneMore ==
    ASSUME NEW S, NEW x, IsFiniteSet(S)
    PROVE  IsFiniteSet(S \cup {x}) /\ Cardinality(S \cup {x}) <= Cardinality(S) + 1
<1>1. /\ IsFiniteSet(S \cup {x})
      /\ \/ Cardinality(S \cup {x}) = Cardinality(S)
         \/ Cardinality(S \cup {x}) = Cardinality(S) + 1
  BY FS_AddElement, Zenon
<1>2. Cardinality(S) \in Nat
  BY FS_CardinalityType, Zenon
<1>3. QED
  BY <1>1, <1>2

\* The commit of an add enables one tracking: it has room, and no other request
\* that adds is of the same merchant.
LEMMA AddCommitStep ==
    ASSUME TypeInv, LimitInv, NEW q \in Requests, AddCommit(q)
    PROVE  LimitInv'
<1> DEFINE t == req[q].t
<1>1. /\ MerchantLimit \in Nat /\ ProductLimit \in Nat
      /\ OwnerOf \in [Trackings -> Merchants] /\ ProductOf \in [Trackings -> Products]
      /\ \A a, b \in Trackings : ProductOf[a] = ProductOf[b] => OwnerOf[a] = OwnerOf[b]
      /\ req[q].pc = "write" /\ t \in Trackings /\ Admitted(q)
  BY SchedulingAssumption DEF AddCommit, LimitInv, TypeInv, Prepared
<1>2. /\ track' = [track EXCEPT ![t] = "enabled"] /\ req' = [req EXCEPT ![q] = ReqIdle]
      /\ advisory' = [m \in Merchants |-> IF advisory[m] = q THEN Nobody ELSE advisory[m]]
      /\ track \in [Trackings -> {"absent", "enabled", "disabled"}]
      /\ req \in [Requests -> ReqTypes]
  BY DEF AddCommit, ReqCommit, ReqEnds, TypeInv, TypeOK, ReqTypes
<1>3. /\ \A m \in Merchants : EnabledOf(m)' = IF m = OwnerOf[t] THEN EnabledOf(m) \cup {t}
                                               ELSE EnabledOf(m)
      /\ \A r \in Products : EnabledFor(r)' = IF r = ProductOf[t] THEN EnabledFor(r) \cup {t}
                                               ELSE EnabledFor(r)
  BY <1>1, <1>2 DEF EnabledOf, EnabledFor
<1>4. advisory[OwnerOf[t]] = q /\ HasRoom(q)
  BY <1>1 DEF Admitted, Adding
<1>5. ASSUME NEW m \in Merchants
      PROVE  IsFiniteSet(EnabledOf(m)') /\ Cardinality(EnabledOf(m)') <= MerchantLimit
  <2>1. IsFiniteSet(EnabledOf(m)) /\ Cardinality(EnabledOf(m)) <= MerchantLimit
    BY DEF LimitInv, LimitsHold
  <2>2. CASE m # OwnerOf[t]
    BY <1>3, <2>1, <2>2
  <2>5. Cardinality(EnabledOf(m)) \in Nat
    BY <2>1, FS_CardinalityType
  <2>3. CASE m = OwnerOf[t]
    <3>1. Cardinality(EnabledOf(m)) < MerchantLimit
      BY <1>4, <2>3 DEF HasRoom
    <3>2. /\ IsFiniteSet(EnabledOf(m) \cup {t})
          /\ Cardinality(EnabledOf(m) \cup {t}) <= Cardinality(EnabledOf(m)) + 1
      BY <2>1, AtMostOneMore, Zenon
    <3>3. Cardinality(EnabledOf(m) \cup {t}) \in Nat
      BY <3>2, FS_CardinalityType
    <3>4. EnabledOf(m)' = EnabledOf(m) \cup {t}
      BY <1>3, <2>3
    <3>5. QED
      BY <1>1, <2>5, <3>1, <3>2, <3>3, <3>4
  <2>4. QED
    BY <2>2, <2>3
<1>6. ASSUME NEW r \in Products
      PROVE  IsFiniteSet(EnabledFor(r)') /\ Cardinality(EnabledFor(r)') <= ProductLimit
  <2>1. IsFiniteSet(EnabledFor(r)) /\ Cardinality(EnabledFor(r)) <= ProductLimit
    BY DEF LimitInv, LimitsHold
  <2>5. Cardinality(EnabledFor(r)) \in Nat
    BY <2>1, FS_CardinalityType
  <2>2. CASE r # ProductOf[t]
    BY <1>3, <2>1, <2>2
  <2>3. CASE r = ProductOf[t]
    <3>1. Cardinality(EnabledFor(r)) < ProductLimit
      BY <1>4, <2>3 DEF HasRoom
    <3>2. /\ IsFiniteSet(EnabledFor(r) \cup {t})
          /\ Cardinality(EnabledFor(r) \cup {t}) <= Cardinality(EnabledFor(r)) + 1
      BY <2>1, AtMostOneMore, Zenon
    <3>3. Cardinality(EnabledFor(r) \cup {t}) \in Nat
      BY <3>2, FS_CardinalityType
    <3>4. EnabledFor(r)' = EnabledFor(r) \cup {t}
      BY <1>3, <2>3
    <3>5. QED
      BY <1>1, <2>5, <3>1, <3>2, <3>3, <3>4
  <2>4. QED
    BY <2>2, <2>3
<1>7. ASSUME NEW o \in Requests PROVE Admitted(o)'
  <2>1. CASE o = q
    BY <1>2, <2>1 DEF Admitted, Adding, ReqIdle
  <2>2. CASE o # q /\ ~Adding(o)
    BY <1>2, <2>2 DEF Admitted, Adding
  <2>3. CASE o # q /\ Adding(o)
    <3>1. /\ req'[o] = req[o] /\ Admitted(o) /\ req[o].t \in Trackings
      BY <1>2, <2>3 DEF LimitInv, TypeInv, Prepared, Adding
    <3>2. /\ OwnerOf[req[o].t] # OwnerOf[t] /\ OwnerOf[req[o].t] \in Merchants
          /\ ProductOf[req[o].t] # ProductOf[t] /\ ProductOf[req[o].t] \in Products
      BY <1>1, <1>4, <2>3, <3>1 DEF Admitted
    <3>3. advisory'[OwnerOf[req[o].t]] = o
      BY <1>2, <2>3, <3>1, <3>2 DEF Admitted
    <3>4. HasRoom(o) => HasRoom(o)'
      BY <1>3, <3>1, <3>2 DEF HasRoom
    <3>5. QED
      BY <3>1, <3>3, <3>4 DEF Admitted
  <2>4. QED
    BY <2>1, <2>2, <2>3
<1>8. QED
  BY <1>5, <1>6, <1>7 DEF LimitInv, LimitsHold

LEMMA LimitStep == TypeInv /\ LimitInv /\ [Next]_vars => LimitInv'
<1> SUFFICES ASSUME TypeInv, LimitInv, [Next]_vars PROVE LimitInv'
  OBVIOUS
<1> DEFINE Kept(o) == /\ req'[o] = req[o]
                      /\ Adding(o) /\ advisory[OwnerOf[req[o].t]] = o
                            => advisory'[OwnerOf[req[o].t]] = o
<1>1. ASSUME NEW o \in Requests, Kept(o)
      PROVE  Outside(o) \/ GoesOn(o)
  BY <1>1 DEF Outside, GoesOn, TypeInv, TypeOK, ReqPcs, Prepared, Adding
<1>2. ASSUME UNCHANGED <<track, advisory, req>> PROVE LimitInv'
  BY <1>1, <1>2, QuietStep
<1>3. CASE UNCHANGED vars
  BY <1>2, <1>3 DEF vars, database, locks
<1>4. ASSUME NEW p \in Pods, TickStep(p) \/ PodCrash(p) PROVE LimitInv'
  <2>1. UNCHANGED <<track, advisory, req>>
    BY <1>4 DEF TickStep, HealSelect, HealRefresh, HealCommit, ClaimDueUrls, DispatchUrl,
         DispatchCommit, PodCrash, database, locks
  <2>2. QED
    BY <1>2, <2>1
<1>5. ASSUME NEW u \in Urls, DomainBlocked(u) \/ BecomesDue(u) PROVE LimitInv'
  BY <1>2, <1>5 DEF DomainBlocked, BecomesDue, locks
<1>6. ASSUME NEW q \in Requests,
             \/ \E t \in Trackings : AddLock(q, t) \/ DeleteRead(q, t)
             \/ RequestStep(q) \/ ReqCrash(q)
      PROVE  LimitInv'
  <2>1. /\ req \in [Requests -> ReqTypes] /\ q # Nobody
        /\ advisory \in [Merchants -> Requests \cup {Nobody}]
        /\ OwnerOf \in [Trackings -> Merchants]
        /\ Prepared(req[q]) /\ \A o \in Requests : Prepared(req[o])
        /\ track \in [Trackings -> {"absent", "enabled", "disabled"}]
    BY SchedulingAssumption DEF TypeInv, TypeOK, ReqTypes
  <2>2. CASE AddCommit(q)
    BY <2>2, AddCommitStep
  <2>3. CASE ~AddCommit(q)
    <3>1. \A t \in Trackings : track'[t] = "enabled" => track[t] = "enabled"
      <4>1. CASE DeleteCommit(q)
        BY <2>1, <4>1 DEF DeleteCommit, ReqCommit
      <4>2. CASE ~DeleteCommit(q)
        BY <1>6, <2>3, <4>2 DEF AddLock, DeleteRead, RequestStep, ReqCrash, AddCheck,
             AddReject, AddResolve, AddCreate, database
      <4>3. QED
        BY <4>1, <4>2
    <3>2. ASSUME NEW o \in Requests, o # q PROVE Kept(o)
      <4>1. req'[o] = req[o]
        BY <1>6, <2>1, <2>3, <3>2 DEF AddLock, DeleteRead, RequestStep, ReqCrash, AddCheck,
             AddReject, AddResolve, AddCreate, DeleteCommit, ReqCommit, ReqEnds
      <4>2. ASSUME NEW m \in Merchants, advisory[m] = o PROVE advisory'[m] = o
        <5>1. o # Nobody
          BY SchedulingAssumption
        <5>2. QED
          BY <1>6, <2>1, <2>3, <3>2, <4>2, <5>1 DEF AddLock, DeleteRead, RequestStep, ReqCrash,
             AddCheck, AddReject, AddResolve, AddCreate, DeleteCommit, ReqCommit, ReqEnds, locks
      <4>3. Adding(o) => OwnerOf[req[o].t] \in Merchants
        BY <2>1 DEF Prepared, Adding
      <4>4. QED
        BY <4>1, <4>2, <4>3
    <3>3. ASSUME ReqEnds(q) PROVE req'[q].pc = "idle"
      BY <2>1, <3>3 DEF ReqEnds, ReqIdle
    <3>4. Outside(q) \/ GoesOn(q)
      <4>1. ASSUME NEW t \in Trackings, AddLock(q, t)
            PROVE  req'[q].pc = "check" /\ advisory'[OwnerOf[req'[q].t]] = q
        BY <2>1, <4>1 DEF AddLock, ReqIdle
      <4>2. ASSUME NEW t \in Trackings, DeleteRead(q, t) PROVE req'[q].pc = "delete"
        BY <2>1, <4>2 DEF DeleteRead
      <4>3. CASE AddCheck(q)
        BY <2>1, <4>3 DEF AddCheck, Outside, GoesOn, locks, Adding, Prepared, HasRoom, ReqTypes
      <4>4. CASE AddResolve(q)
        BY <2>1, <4>4 DEF AddResolve, Outside, GoesOn, locks, Adding, Prepared, ReqTypes
      <4>5. CASE AddCreate(q)
        BY <2>1, <3>3, <4>5 DEF AddCreate, Outside, GoesOn, Adding, Prepared, ReqTypes
      <4>6. CASE AddReject(q) \/ DeleteCommit(q) \/ ReqCrash(q)
        BY <3>3, <4>6 DEF AddReject, DeleteCommit, ReqCommit, ReqCrash, Outside, GoesOn
      <4>7. QED
        BY <1>6, <2>3, <4>1, <4>2, <4>3, <4>4, <4>5, <4>6 DEF RequestStep, Outside, GoesOn
    <3>5. ASSUME NEW o \in Requests
          PROVE  Outside(o) \/ GoesOn(o)
      <4>1. CASE o = q
        BY <3>4, <4>1
      <4>2. CASE o # q
        BY <1>1, <3>2, <4>2
      <4>3. QED
        BY <4>1, <4>2
    <3>6. QED
      BY <3>1, <3>5, QuietStep
  <2>4. QED
    BY <2>2, <2>3
<1>7. QED
  BY <1>3, <1>4, <1>5, <1>6 DEF Next

LEMMA TypeHolds == Spec => []TypeInv
BY TypeStarts, TypeStep, PTL DEF Spec

\* Schedules, locks, pods and requests keep their types, for any instance.
THEOREM SchedulingTypeCorrect == Spec => []TypeOK
<1>1. TypeInv => TypeOK
  BY DEF TypeInv
<1>2. QED
  BY <1>1, TypeHolds, PTL

\* claim_due_urls and dispatch_due: however many pods tick side by side, and
\* whatever requests move the schedules, a second job for the same due time
\* means that a transaction rolled back after its enqueue.
THEOREM DueDispatchedOnce == Spec => []DispatchedOnce
<1>1. TypeInv /\ DispatchInv /\ [Next]_vars => DispatchInv'
  BY DispatchStep
<1>2. DispatchInv => DispatchedOnce
  BY DEF DispatchInv, UrlOK, DispatchedOnce
<1>3. QED
  BY <1>1, <1>2, DispatchStarts, TypeHolds, PTL DEF Spec

\* The limits of the plan (402): however adds of one merchant overlap with each
\* other, with deletes and with crashes, no merchant has more enabled trackings
\* than its plan allows, and no product more than per_product_limit.
THEOREM PlanLimitsHold == Spec => []LimitsHold
<1>1. TypeInv /\ LimitInv /\ [Next]_vars => LimitInv'
  BY LimitStep
<1>2. LimitInv => LimitsHold
  BY DEF LimitInv
<1>3. QED
  BY <1>1, <1>2, LimitStarts, TypeHolds, PTL DEF Spec
=============================================================================
