---------------------------- MODULE CycleBarrier ----------------------------
(***************************************************************************)
(* The per-merchant cycle barrier of services/cycle_coordinator.py over    *)
(* the Redis keys of services/cycle_store.py, at the granularity of one    *)
(* Redis command per step.  Keys of different merchants never meet, so the *)
(* module keeps one merchant and several cycle ids.                        *)
(*                                                                         *)
(* Dispatchers are dispatcher pods inside open_cycle, Recorders are API    *)
(* threads inside record_scrape (_record_cycles runs in asyncio.to_thread),*)
(* and close_expired is one sweeper.  Nothing in the repository calls      *)
(* close_expired yet: a behaviour without a SweepRead is production as it  *)
(* is, the others are production with the sweep wired into the tick.  One  *)
(* unit of `now' is one period of the dispatcher loop.                     *)
(***************************************************************************)
EXTENDS Integers

CONSTANTS
    Cycles,       \* the cycle ids considered, a set of naturals
    Dispatchers,  \* dispatcher pods
    Recorders,    \* API threads that may be inside record_scrape
    Interval,     \* interval_ms of the merchant's plan, in dispatcher periods
    Grace,        \* grace_ms, in dispatcher periods
    MaxLag,       \* how long after a tick read `now' its INCRBY may run
    MaxCall,      \* how many periods a record_scrape call may span
    Extra,        \* landings beyond one per dispatched scrape (duplicates)
    MaxTime,      \* bound on the clock
    MaxOpen       \* bound on open_cycle calls per cycle

ASSUME TimeAssumption ==
    /\ Cycles \subseteq Nat
    /\ Interval \in Nat \ {0}
    /\ Grace \in Nat
    /\ MaxLag \in 0..Grace
    /\ MaxCall \in Nat
    /\ MaxTime \in Nat
    /\ MaxOpen \in Nat
    /\ Extra \in Nat

VARIABLES
    now,       \* the clock
    store,     \* the three counters of each cycle; 0 is an absent key
    expiry,    \* when each key vanishes, NoTTL if it never will
    disp,      \* where each dispatcher is in open_cycle
    rec,       \* where each recorder is in record_scrape
    sweep,     \* where the sweeper is in close_expired
    opened,    \* history: open_cycle calls of each cycle that completed
    landed,    \* history: record_scrape calls of each cycle that started
    fires,     \* history: calls of the injected enqueue for each cycle
    lastFire,  \* history: when the last of them happened, long ago once swept
    crashed    \* history: the calls on each cycle that a process died in

vars == <<now, store, expiry, disp, rec, sweep,
          opened, landed, fires, lastFire, crashed>>
history == <<opened, landed, fires, lastFire, crashed>>

NoTTL  == -1
Fields == {"expected", "done", "fired"}

Ttl == Interval + Grace

\* The end of a cycle's interval plus the grace, as close_expired computes it.
Deadline(c) == (c + 1) * Interval + Grace

DispIdle == [pc |-> "idle", cyc |-> 0]
RecIdle  == [pc |-> "idle", cyc |-> 0, mine |-> 0, since |-> 0]
-----------------------------------------------------------------------------
(***************************************************************************)
(* The Redis commands of RedisCycleStore.                                  *)
(***************************************************************************)
\* INCRBY keeps the TTL of an existing key and creates a new one without any.
IncrBy(c, f, n) == store' = [store EXCEPT ![c][f] = @ + n]

\* PEXPIRE does nothing to an absent key.
PExpire(c, f) ==
    expiry' = [expiry EXCEPT ![c][f] = IF store[c][f] > 0 THEN now + Ttl ELSE @]

\* SET key 1 NX PX ttl on an absent `fired' key, followed by the injected
\* enqueue, which appends to a list of the calling thread.
SetFiredAndEnqueue(c) ==
    /\ store' = [store EXCEPT ![c].fired = 1]
    /\ expiry' = [expiry EXCEPT ![c].fired = now + Ttl]
    /\ fires' = [fires EXCEPT ![c] = @ + 1]
    /\ lastFire' = [lastFire EXCEPT ![c] = now]

\* Whether Redis has dropped a key by time t.
Expired(c, f, t) == expiry[c][f] # NoTTL /\ expiry[c][f] <= t
-----------------------------------------------------------------------------
Init ==
    /\ now = 0
    /\ store = [c \in Cycles |-> [f \in Fields |-> 0]]
    /\ expiry = [c \in Cycles |-> [f \in Fields |-> NoTTL]]
    /\ disp = [d \in Dispatchers |-> DispIdle]
    /\ rec = [p \in Recorders |-> RecIdle]
    /\ sweep = DispIdle
    /\ opened = [c \in Cycles |-> 0]
    /\ landed = [c \in Cycles |-> 0]
    /\ fires = [c \in Cycles |-> 0]
    /\ lastFire = [c \in Cycles |-> 0]
    /\ crashed = [c \in Cycles |-> {}]

(***************************************************************************)
(* open_cycle.  The tick reads `now' once and opens the cycles of a whole  *)
(* batch with it, so the id may be up to MaxLag behind the clock.          *)
(***************************************************************************)
OpenIncr(d, c) ==
    /\ disp[d].pc = "idle"
    /\ \E t \in 0..now : now - t <= MaxLag /\ t \div Interval = c
    /\ store[c].expected < MaxOpen
    /\ IncrBy(c, "expected", 1)
    /\ disp' = [disp EXCEPT ![d] = [pc |-> "stamp", cyc |-> c]]
    /\ UNCHANGED <<now, expiry, rec, sweep, history>>

\* The PEXPIRE, after which the scrape job of this slot is enqueued.
OpenStamp(d) ==
    /\ disp[d].pc = "stamp"
    /\ PExpire(disp[d].cyc, "expected")
    /\ opened' = [opened EXCEPT ![disp[d].cyc] = @ + 1]
    /\ disp' = [disp EXCEPT ![d] = DispIdle]
    /\ UNCHANGED <<now, store, rec, sweep, landed, fires, lastFire, crashed>>

(***************************************************************************)
(* record_scrape: INCR and PEXPIRE of done, GET of expected, SET NX.       *)
(* Any job that carries the cycle may land, late, and up to Extra times    *)
(* more often than scrapes were dispatched.                                *)
(***************************************************************************)
RecordIncr(p, c) ==
    /\ rec[p].pc = "idle"
    /\ opened[c] > 0 /\ landed[c] < opened[c] + Extra
    /\ IncrBy(c, "done", 1)
    /\ landed' = [landed EXCEPT ![c] = @ + 1]
    /\ rec' = [rec EXCEPT ![p] = [pc |-> "stamp", cyc |-> c,
                                   mine |-> store[c].done + 1, since |-> now]]
    /\ UNCHANGED <<now, expiry, disp, sweep, opened, fires, lastFire, crashed>>

\* Fault: PEXPIRE is called with the key of the other counter.
RecordStampExpected(p) ==
    /\ rec[p].pc = "stamp"
    /\ PExpire(rec[p].cyc, "expected")
    /\ rec' = [rec EXCEPT ![p].pc = "read"]
    /\ UNCHANGED <<now, store, disp, sweep, history>>

RecordStamp(p) ==
    /\ rec[p].pc = "stamp"
    /\ PExpire(rec[p].cyc, "done")
    /\ rec' = [rec EXCEPT ![p].pc = "read"]
    /\ UNCHANGED <<now, store, disp, sweep, history>>

\* Fault: done > expected instead of done >= expected.
RecordReadOffByOne(p) ==
    /\ rec[p].pc = "read"
    /\ LET e == store[rec[p].cyc].expected
       IN  rec' = [rec EXCEPT ![p] = IF e > 0 /\ rec[p].mine > e
                                     THEN [@ EXCEPT !.pc = "set"]
                                     ELSE RecIdle]
    /\ UNCHANGED <<now, store, expiry, disp, sweep, history>>

\* GET expected; the count it is compared with is the value INCR returned.
RecordRead(p) ==
    /\ rec[p].pc = "read"
    /\ LET e == store[rec[p].cyc].expected
       IN  rec' = [rec EXCEPT ![p] = IF e > 0 /\ rec[p].mine >= e
                                     THEN [@ EXCEPT !.pc = "set"]
                                     ELSE RecIdle]
    /\ UNCHANGED <<now, store, expiry, disp, sweep, history>>

\* Fault: SET without NX.
RecordSetWithoutNX(p) ==
    /\ rec[p].pc = "set"
    /\ SetFiredAndEnqueue(rec[p].cyc)
    /\ rec' = [rec EXCEPT ![p] = RecIdle]
    /\ UNCHANGED <<now, disp, sweep, opened, landed, crashed>>

RecordSet(p) ==
    /\ rec[p].pc = "set"
    /\ \/ /\ store[rec[p].cyc].fired = 0
          /\ SetFiredAndEnqueue(rec[p].cyc)
       \/ /\ store[rec[p].cyc].fired > 0
          /\ UNCHANGED <<store, expiry, fires, lastFire>>
    /\ rec' = [rec EXCEPT ![p] = RecIdle]
    /\ UNCHANGED <<now, disp, sweep, opened, landed, crashed>>

(***************************************************************************)
(* close_expired: get_counts, then SET NX if scrapes are missing, then DEL.*)
(***************************************************************************)
\* Fault: the sweep does not wait for the grace.
SweepableAtInterval(c) == store[c].expected > 0 /\ now > (c + 1) * Interval

Sweepable(c) == store[c].expected > 0 /\ now > Deadline(c)

SweepRead(c) ==
    /\ sweep.pc = "idle"
    /\ Sweepable(c)
    /\ sweep' = [pc |-> IF store[c].done < store[c].expected THEN "set" ELSE "del",
                 cyc |-> c]
    /\ UNCHANGED <<now, store, expiry, disp, rec, history>>

SweepSet ==
    /\ sweep.pc = "set"
    /\ \/ /\ store[sweep.cyc].fired = 0
          /\ SetFiredAndEnqueue(sweep.cyc)
       \/ /\ store[sweep.cyc].fired > 0
          /\ UNCHANGED <<store, expiry, fires, lastFire>>
    /\ sweep' = [sweep EXCEPT !.pc = "del"]
    /\ UNCHANGED <<now, disp, rec, opened, landed, crashed>>

SweepDel ==
    /\ sweep.pc = "del"
    /\ store' = [store EXCEPT ![sweep.cyc] = [f \in Fields |-> 0]]
    /\ expiry' = [expiry EXCEPT ![sweep.cyc] = [f \in Fields |-> NoTTL]]
    /\ lastFire' = [lastFire EXCEPT ![sweep.cyc] = -Ttl]
    /\ sweep' = DispIdle
    /\ UNCHANGED <<now, disp, rec, opened, landed, fires, crashed>>

(***************************************************************************)
(* The environment: processes die between two commands, and time passes.   *)
(***************************************************************************)
DispatcherCrash(d) ==
    /\ disp[d].pc # "idle"
    /\ disp' = [disp EXCEPT ![d] = DispIdle]
    /\ crashed' = [crashed EXCEPT ![disp[d].cyc] = @ \cup {"open"}]
    /\ UNCHANGED <<now, store, expiry, rec, sweep, opened, landed, fires, lastFire>>

RecorderCrash(p) ==
    /\ rec[p].pc # "idle"
    /\ rec' = [rec EXCEPT ![p] = RecIdle]
    /\ crashed' = [crashed EXCEPT ![rec[p].cyc] = @ \cup {"record"}]
    /\ UNCHANGED <<now, store, expiry, disp, sweep, opened, landed, fires, lastFire>>

\* A call of record_scrape spans at most MaxCall periods; the sweep may take
\* any time.
Tick ==
    /\ now < MaxTime
    /\ \A p \in Recorders : rec[p].pc # "idle" => now - rec[p].since < MaxCall
    /\ now' = now + 1
    /\ store' = [c \in Cycles |-> [f \in Fields |->
                    IF Expired(c, f, now + 1) THEN 0 ELSE store[c][f]]]
    /\ expiry' = [c \in Cycles |-> [f \in Fields |->
                    IF Expired(c, f, now + 1) THEN NoTTL ELSE expiry[c][f]]]
    /\ UNCHANGED <<disp, rec, sweep, history>>

Next ==
    \/ \E d \in Dispatchers :
          \/ \E c \in Cycles : OpenIncr(d, c)
          \/ OpenStamp(d)
          \/ DispatcherCrash(d)
    \/ \E p \in Recorders :
          \/ \E c \in Cycles : RecordIncr(p, c)
          \/ RecordStamp(p)
          \/ RecordRead(p)
          \/ RecordSet(p)
          \/ RecorderCrash(p)
    \/ \E c \in Cycles : SweepRead(c)
    \/ SweepSet
    \/ SweepDel
    \/ Tick

Spec == Init /\ [][Next]_vars
-----------------------------------------------------------------------------
(***************************************************************************)
(* Properties.                                                             *)
(***************************************************************************)
Counter == [Fields -> Nat]
PcRec   == {"idle", "stamp", "read", "set"}

\* Types of the clock, the Redis keys and the positions of the processes.
TypeOK ==
    /\ now \in Nat
    /\ store \in [Cycles -> Counter]
    /\ expiry \in [Cycles -> [Fields -> Int]]
    /\ disp \in [Dispatchers -> [pc : {"idle", "stamp"}, cyc : Nat]]
    /\ \A d \in Dispatchers : disp[d].pc # "idle" => disp[d].cyc \in Cycles
    /\ rec \in [Recorders -> [pc : PcRec, cyc : Nat, mine : Nat, since : Nat]]
    /\ \A p \in Recorders : rec[p].pc # "idle" => rec[p].cyc \in Cycles
    /\ sweep \in [pc : {"idle", "set", "del"}, cyc : Nat]
    /\ sweep.pc # "idle" => sweep.cyc \in Cycles
    /\ opened \in [Cycles -> Nat]
    /\ landed \in [Cycles -> Nat]
    /\ fires \in [Cycles -> Nat]
    /\ lastFire \in [Cycles -> Int]
    /\ crashed \in [Cycles -> SUBSET {"open", "record"}]

\* A cycle whose done counter has reached its expected counter.
Complete(c) == store[c].expected > 0 /\ store[c].done >= store[c].expected

\* record_scrape never loses the race to fire: however the INCR, GET and
\* SET NX commands of concurrent landings interleave with each other, with
\* cycles being extended and with keys expiring, a complete cycle has fired
\* or a thread that is certain to fire it is still inside record_scrape.
NoLostFire ==
    \A c \in Cycles :
        Complete(c) /\ "record" \notin crashed[c] =>
            \/ fires[c] > 0
            \/ \E p \in Recorders : /\ rec[p].pc # "idle"
                                    /\ rec[p].cyc = c
                                    /\ rec[p].mine = store[c].done

\* The one-shot `fired' flag of record_scrape: a cycle is never fired a
\* second time within interval + grace of the previous fire, unless the sweep
\* has deleted its keys in between.
FiresSpaced ==
    [][\A c \in Cycles :
          fires'[c] # fires[c] => fires[c] = 0 \/ now >= lastFire[c] + Ttl]_vars

\* The barrier as FiringSchedule sees it.
Quiet == [c \in Cycles |-> IF fires[c] = 0 THEN 0 ELSE lastFire[c] + Ttl]
Schedule == INSTANCE FiringSchedule WITH clock <- now, quiet <- Quiet

\* The barrier implements the schedule of fires that the signal engine is
\* promised: no cycle fires before a scrape has landed unless its deadline has
\* passed, and none fires again while its fired key stands, however the
\* commands of the pods, the threads and the sweep interleave.
ImplementsSchedule == Schedule!Spec

(***************************************************************************)
(* The inductive invariant behind NoLostFire and FiresSpaced.              *)
(***************************************************************************)
\* A cycle that some dispatcher has opened, or is opening.
Opening(c) == opened[c] > 0 \/ \E d \in Dispatchers : disp[d] = [pc |-> "stamp", cyc |-> c]

\* Until its deadline a cycle keeps its expected counter, so an open_cycle
\* that extends it never starts the counter afresh under old done counts:
\* the TTL of interval + grace outlives the interval and the dispatcher's lag.
ExpectedSurvives ==
    \A c \in Cycles :
        /\ Opening(c) /\ now < Deadline(c) => store[c].expected > 0
        /\ store[c].expected > 0 =>
              expiry[c].expected = NoTTL \/ expiry[c].expected >= Deadline(c)
        /\ store[c].expected = 0 => expiry[c].expected = NoTTL

\* What each step of the barrier preserves and what makes NoLostFire inductive:
\* an open cycle keeps its expected counter until its deadline, only dispatched
\* scrapes land, the sweep is past the deadline, and a set flag has fired.
BarrierInv ==
    /\ ExpectedSurvives
    /\ \A c \in Cycles : store[c].done > 0 => opened[c] > 0
    /\ \A d \in Dispatchers : disp[d].pc = "stamp" => disp[d].cyc * Interval <= now
    /\ sweep.pc # "idle" => now > Deadline(sweep.cyc)
    /\ \A c \in Cycles : store[c].fired > 0 => fires[c] > 0
    /\ NoLostFire

\* Until the sweep deletes it, the fired key stands for interval + grace.
SpacedInv ==
    \A c \in Cycles :
        fires[c] > 0 /\ now < lastFire[c] + Ttl =>
            store[c].fired > 0 /\ expiry[c].fired = lastFire[c] + Ttl

\* cycle_store.py:5-7, "no dangling counter is ever left behind": a counter
\* without a TTL has a writer that is about to stamp it, whatever keys expire
\* or are swept between the writer's INCRBY and PEXPIRE, unless a process died
\* between the two.
NoDanglingCounter ==
    \A c \in Cycles :
        /\ store[c].expected > 0 /\ expiry[c].expected = NoTTL =>
              \/ "open" \in crashed[c]
              \/ \E d \in Dispatchers : disp[d] = [pc |-> "stamp", cyc |-> c]
        /\ store[c].done > 0 /\ expiry[c].done = NoTTL =>
              \/ "record" \in crashed[c]
              \/ \E p \in Recorders : rec[p].pc = "stamp" /\ rec[p].cyc = c
=============================================================================
