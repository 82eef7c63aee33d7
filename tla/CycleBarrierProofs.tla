------------------------- MODULE CycleBarrierProofs -------------------------
(***************************************************************************)
(* Proofs about CycleBarrier, for every number of dispatchers, recorders   *)
(* and cycles and every interval, grace and lag.                           *)
(***************************************************************************)
EXTENDS CycleBarrier, TLAPS

\* A cycle id covers exactly the times of its interval, and a dispatcher whose
\* `now' lags by no more than the grace opens it before its deadline.
LEMMA OpenBeforeDeadline ==
    ASSUME NEW n \in Nat, NEW c \in Cycles,
           \E t \in 0..n : n - t <= MaxLag /\ t \div Interval = c
    PROVE  c * Interval <= n /\ n < Deadline(c)
<1>1. PICK t \in 0..n : n - t <= MaxLag /\ t \div Interval = c
  OBVIOUS
<1>2. c \in Nat /\ Interval \in Nat \ {0} /\ MaxLag \in Int /\ MaxLag <= Grace /\ Grace \in Nat
  BY TimeAssumption
<1>3. t \in Nat /\ t <= n
  BY <1>1
<1>4. c * Interval <= t /\ t < (c + 1) * Interval
  BY <1>1, <1>2, <1>3
<1>5. (c + 1) * Interval \in Int /\ c * Interval \in Int
  BY <1>2
<1> HIDE DEF Deadline
<1>6. Deadline(c) = (c + 1) * Interval + Grace
  BY DEF Deadline
<1> QED
  BY <1>1, <1>2, <1>3, <1>4, <1>5, <1>6

\* Firing a cycle keeps the types of the variables it changes.
LEMMA FireTypes ==
    ASSUME TypeOK, NEW c \in Cycles, SetFiredAndEnqueue(c)
    PROVE  /\ store' \in [Cycles -> Counter]
           /\ expiry' \in [Cycles -> [Fields -> Int]]
           /\ fires' \in [Cycles -> Nat]
           /\ lastFire' \in [Cycles -> Int]
<1> USE TimeAssumption DEF TypeOK, SetFiredAndEnqueue
<1>1. store' \in [Cycles -> Counter]
  BY DEF Counter, Fields
<1>2. expiry' \in [Cycles -> [Fields -> Int]]
  BY DEF Fields, Ttl
<1> QED
  BY <1>1, <1>2

\* PEXPIRE keeps the type of the expiry times.
LEMMA PExpireTypes ==
    ASSUME TypeOK, NEW c \in Cycles, NEW f \in Fields, PExpire(c, f)
    PROVE  expiry' \in [Cycles -> [Fields -> Int]]
<1>1. now + Ttl \in Int
  BY TimeAssumption DEF TypeOK, Ttl
<1> QED
  BY <1>1 DEF TypeOK, PExpire

\* Every step of the barrier keeps the types of its state.
LEMMA TypeStep == TypeOK /\ [Next]_vars => TypeOK'
<1> SUFFICES ASSUME TypeOK, [Next]_vars PROVE TypeOK'
  OBVIOUS
<1> USE TimeAssumption DEF TypeOK, Counter, Fields, PcRec, NoTTL, DispIdle, RecIdle
<1>1. ASSUME NEW d \in Dispatchers, NEW c \in Cycles, OpenIncr(d, c) PROVE TypeOK'
  BY <1>1 DEF OpenIncr, IncrBy, history
<1>2. ASSUME NEW d \in Dispatchers, OpenStamp(d) PROVE TypeOK'
  BY <1>2 DEF OpenStamp, PExpire, Ttl
<1>3. ASSUME NEW d \in Dispatchers, DispatcherCrash(d) PROVE TypeOK'
  BY <1>3 DEF DispatcherCrash, history
<1>4. ASSUME NEW p \in Recorders, NEW c \in Cycles, RecordIncr(p, c) PROVE TypeOK'
  BY <1>4 DEF RecordIncr, IncrBy
<1>5. ASSUME NEW p \in Recorders, RecordStamp(p) PROVE TypeOK'
  <2>1. rec[p].cyc \in Cycles
    BY <1>5 DEF RecordStamp
  <2>2. expiry' \in [Cycles -> [Fields -> Int]]
    BY <1>5, <2>1, PExpireTypes DEF RecordStamp
  <2>3. /\ rec' \in [Recorders -> [pc : PcRec, cyc : Nat, mine : Nat, since : Nat]]
        /\ \A q \in Recorders : rec'[q].pc # "idle" => rec'[q].cyc \in Cycles
    <3> DEFINE r == [rec[p] EXCEPT !.pc = "read"]
    <3>1. r \in [pc : PcRec, cyc : Nat, mine : Nat, since : Nat] /\ r.cyc \in Cycles
      BY <2>1
    <3>2. rec' = [rec EXCEPT ![p] = r]
      BY <1>5 DEF RecordStamp
    <3> HIDE DEF r
    <3> QED
      BY <3>1, <3>2
  <2> QED
    BY <1>5, <2>2, <2>3 DEF RecordStamp, history
<1>6. ASSUME NEW p \in Recorders, RecordRead(p) PROVE TypeOK'
  BY <1>6 DEF RecordRead, history
<1>7. ASSUME NEW p \in Recorders, RecordSet(p) PROVE TypeOK'
  <2>1. rec[p].cyc \in Cycles
    BY <1>7 DEF RecordSet
  <2>2. /\ store' \in [Cycles -> Counter]
        /\ expiry' \in [Cycles -> [Fields -> Int]]
        /\ fires' \in [Cycles -> Nat]
        /\ lastFire' \in [Cycles -> Int]
    <3>1. CASE SetFiredAndEnqueue(rec[p].cyc)
      BY <2>1, <3>1, FireTypes
    <3>2. CASE UNCHANGED <<store, expiry, fires, lastFire>>
      BY <3>2
    <3> QED
      BY <1>7, <3>1, <3>2 DEF RecordSet
  <2>3. /\ rec' \in [Recorders -> [pc : PcRec, cyc : Nat, mine : Nat, since : Nat]]
        /\ \A q \in Recorders : rec'[q].pc # "idle" => rec'[q].cyc \in Cycles
    BY <1>7 DEF RecordSet
  <2> QED
    BY <1>7, <2>2, <2>3 DEF RecordSet
<1>8. ASSUME NEW p \in Recorders, RecorderCrash(p) PROVE TypeOK'
  BY <1>8 DEF RecorderCrash
<1>9. ASSUME NEW c \in Cycles, SweepRead(c) PROVE TypeOK'
  BY <1>9 DEF SweepRead, Sweepable, history
<1>10. CASE SweepSet
  <2>1. sweep.cyc \in Cycles
    BY <1>10 DEF SweepSet
  <2>2. /\ store' \in [Cycles -> Counter]
        /\ expiry' \in [Cycles -> [Fields -> Int]]
        /\ fires' \in [Cycles -> Nat]
        /\ lastFire' \in [Cycles -> Int]
    <3>1. CASE SetFiredAndEnqueue(sweep.cyc)
      BY <2>1, <3>1, FireTypes
    <3>2. CASE UNCHANGED <<store, expiry, fires, lastFire>>
      BY <3>2
    <3> QED
      BY <1>10, <3>1, <3>2 DEF SweepSet
  <2> QED
    BY <1>10, <2>1, <2>2 DEF SweepSet
<1>11. CASE SweepDel
  <2>1. lastFire' \in [Cycles -> Int]
    BY <1>11, TimeAssumption DEF SweepDel, Ttl
  <2> QED
    BY <1>11, <2>1 DEF SweepDel
<1>12. CASE Tick
  BY <1>12 DEF Tick, history
<1>13. CASE UNCHANGED vars
  BY <1>13 DEF vars
<1> QED
  BY <1>1, <1>2, <1>3, <1>4, <1>5, <1>6, <1>7, <1>8, <1>9, <1>10, <1>11, <1>12, <1>13
  DEF Next

\* The clock, the Redis keys and the process positions keep their types.
THEOREM TypeCorrect == Spec => []TypeOK
<1>1. Init => TypeOK
  BY TimeAssumption DEF Init, TypeOK, Counter, Fields, PcRec, NoTTL, DispIdle, RecIdle
<1> QED
  BY <1>1, TypeStep, PTL DEF Spec
-----------------------------------------------------------------------------
\* An open_cycle never turns an incomplete cycle into a complete one: the
\* expected counter it increments is either alive or was never set before.
LEMMA OpenKeepsIncomplete ==
    ASSUME TypeOK, BarrierInv, NEW d \in Dispatchers, NEW b \in Cycles, OpenIncr(d, b),
           NEW c \in Cycles, Complete(c)'
    PROVE  Complete(c)
<1>1. /\ now \in Nat
      /\ store[b].expected \in Nat /\ store[b].done \in Nat
      /\ store[c].expected \in Nat /\ store[c].done \in Nat
  BY DEF TypeOK, Counter, Fields
<1>2. b * Interval <= now /\ now < Deadline(b)
  BY <1>1, OpenBeforeDeadline DEF OpenIncr
<1>3. store[b].expected = 0 => store[b].done = 0
  <2>1. store[b].expected = 0 => opened[b] = 0
    <3>1. opened[b] \in Nat
      BY DEF TypeOK
    <3>2. opened[b] > 0 /\ now < Deadline(b) => store[b].expected > 0
      BY DEF BarrierInv, ExpectedSurvives, Opening
    <3> HIDE DEF Deadline
    <3> QED
      BY <1>1, <1>2, <3>1, <3>2
  <2> QED
    BY <1>1, <2>1 DEF BarrierInv
<1>4. /\ store'[c].done = store[c].done
      /\ c # b => store'[c].expected = store[c].expected
      /\ c = b => store'[c].expected = store[c].expected + 1
  BY DEF OpenIncr, IncrBy, TypeOK, Counter, Fields
<1> QED
  BY <1>1, <1>3, <1>4 DEF Complete

\* Redis dropping keys never completes a cycle, and leaves the done counter
\* of a cycle that is complete afterwards as it was.
LEMMA TickKeepsIncomplete ==
    ASSUME TypeOK, Tick, NEW c \in Cycles, Complete(c)'
    PROVE  Complete(c) /\ store'[c].done = store[c].done
<1>1. /\ store'[c].expected = 0 \/ store'[c].expected = store[c].expected
      /\ store'[c].done = 0 \/ store'[c].done = store[c].done
  BY DEF Tick, Fields
<1>2. store[c].expected \in Nat /\ store[c].done \in Nat
  BY DEF TypeOK, Counter, Fields
<1> QED
  BY <1>1, <1>2 DEF Complete

\* One step of the barrier re-establishes NoLostFire.
LEMMA NoLostFireStep == TypeOK /\ BarrierInv /\ [Next]_vars => NoLostFire'
<1> SUFFICES ASSUME TypeOK, BarrierInv, [Next]_vars
             PROVE  NoLostFire'
  OBVIOUS
<1>a. fires' \in [Cycles -> Nat]
  BY TypeStep DEF TypeOK
<1> SUFFICES ASSUME NEW c \in Cycles, Complete(c)', "record" \notin crashed'[c], fires'[c] <= 0
             PROVE  \E q \in Recorders : /\ rec'[q].pc # "idle"
                                         /\ rec'[q].cyc = c
                                         /\ rec'[q].mine = store'[c].done
  BY <1>a DEF NoLostFire
<1>0. Complete(c) /\ "record" \notin crashed[c] /\ fires[c] <= 0 =>
        \E q \in Recorders : /\ rec[q].pc # "idle"
                             /\ rec[q].cyc = c
                             /\ rec[q].mine = store[c].done
  BY DEF BarrierInv, NoLostFire, TypeOK
<1>1. ASSUME NEW d \in Dispatchers, NEW b \in Cycles, OpenIncr(d, b)
      PROVE  \E q \in Recorders : /\ rec'[q].pc # "idle"
                                  /\ rec'[q].cyc = c
                                  /\ rec'[q].mine = store'[c].done
  <2>1. Complete(c)
    BY <1>1, OpenKeepsIncomplete
  <2>2. store'[c].done = store[c].done
    BY <1>1 DEF OpenIncr, IncrBy, TypeOK, Counter, Fields
  <2> QED
    BY <1>0, <1>1, <2>1, <2>2 DEF OpenIncr, history
<1>2. ASSUME NEW d \in Dispatchers, OpenStamp(d) \/ DispatcherCrash(d)
      PROVE  \E q \in Recorders : /\ rec'[q].pc # "idle"
                                  /\ rec'[q].cyc = c
                                  /\ rec'[q].mine = store'[c].done
  <2>1. store' = store /\ rec' = rec /\ fires' = fires
    BY <1>2 DEF OpenStamp, DispatcherCrash
  <2>2. "record" \notin crashed[c]
    BY <1>2 DEF OpenStamp, DispatcherCrash, TypeOK
  <2> QED
    BY <1>0, <2>1, <2>2 DEF Complete
<1>3. ASSUME NEW p \in Recorders, NEW b \in Cycles, RecordIncr(p, b)
      PROVE  \E q \in Recorders : /\ rec'[q].pc # "idle"
                                  /\ rec'[q].cyc = c
                                  /\ rec'[q].mine = store'[c].done
  <2>1. /\ rec' = [rec EXCEPT ![p] = [pc |-> "stamp", cyc |-> b,
                                     mine |-> store[b].done + 1, since |-> now]]
        /\ rec[p].pc = "idle"
        /\ crashed' = crashed /\ fires' = fires
    BY <1>3 DEF RecordIncr
  <2>2. CASE b = c
    <3>1. store'[c].done = store[c].done + 1
      BY <1>3, <2>2 DEF RecordIncr, IncrBy, TypeOK, Counter, Fields
    <3>2. rec'[p].pc # "idle" /\ rec'[p].cyc = c /\ rec'[p].mine = store'[c].done
      BY <2>1, <2>2, <3>1 DEF TypeOK
    <3> QED
      BY <3>2
  <2>3. CASE b # c
    <3>1. store'[c] = store[c]
      BY <1>3, <2>3 DEF RecordIncr, IncrBy, TypeOK
    <3>2. PICK q \in Recorders : /\ rec[q].pc # "idle"
                                 /\ rec[q].cyc = c
                                 /\ rec[q].mine = store[c].done
      BY <1>0, <2>1, <3>1 DEF Complete
    <3>3. rec'[q] = rec[q]
      BY <2>1, <3>2 DEF TypeOK
    <3> QED
      BY <3>1, <3>2, <3>3
  <2> QED
    BY <2>2, <2>3
<1>4. ASSUME NEW p \in Recorders, RecordStamp(p) \/ RecordRead(p)
      PROVE  \E q \in Recorders : /\ rec'[q].pc # "idle"
                                  /\ rec'[q].cyc = c
                                  /\ rec'[q].mine = store'[c].done
  <2>1. store' = store /\ fires' = fires /\ crashed' = crashed
    BY <1>4 DEF RecordStamp, RecordRead, history
  <2>2. Complete(c)
    BY <2>1 DEF Complete
  <2>3. PICK q \in Recorders : /\ rec[q].pc # "idle"
                               /\ rec[q].cyc = c
                               /\ rec[q].mine = store[c].done
    BY <1>0, <2>1, <2>2
  <2>4. rec'[q].pc # "idle" /\ rec'[q].cyc = rec[q].cyc /\ rec'[q].mine = rec[q].mine
    <3>1. CASE q # p
      <4>1. \E r : rec' = [rec EXCEPT ![p] = r]
        BY <1>4 DEF RecordStamp, RecordRead
      <4> QED
        BY <2>3, <3>1, <4>1 DEF TypeOK
    <3>2. CASE q = p /\ RecordStamp(p)
      BY <3>2 DEF RecordStamp, TypeOK
    <3>3. CASE q = p /\ RecordRead(p)
      <4>1. store[rec[p].cyc].expected > 0 /\ rec[p].mine >= store[rec[p].cyc].expected
        BY <2>2, <2>3, <3>3 DEF Complete
      <4>2. rec' = [rec EXCEPT ![p] = [rec[p] EXCEPT !.pc = "set"]]
        BY <3>3, <4>1 DEF RecordRead
      <4> QED
        BY <3>3, <4>2 DEF TypeOK
    <3> QED
      BY <1>4, <3>1, <3>2, <3>3
  <2> QED
    BY <2>1, <2>3, <2>4
<1>5. ASSUME NEW p \in Recorders, RecordSet(p)
      PROVE  \E q \in Recorders : /\ rec'[q].pc # "idle"
                                  /\ rec'[q].cyc = c
                                  /\ rec'[q].mine = store'[c].done
  <2>0. rec[p].cyc \in Cycles
    BY <1>5 DEF RecordSet, TypeOK
  <2>1. rec[p].cyc # c
    <3>1. CASE store[rec[p].cyc].fired = 0
      BY <1>5, <3>1 DEF RecordSet, SetFiredAndEnqueue, TypeOK
    <3>2. CASE store[rec[p].cyc].fired > 0
      BY <1>5, <2>0, <3>2 DEF RecordSet, BarrierInv, TypeOK
    <3> QED
      BY <1>5, <3>1, <3>2 DEF RecordSet
  <2>2. store'[c] = store[c] /\ fires'[c] = fires[c] /\ crashed' = crashed
    BY <1>5, <2>1 DEF RecordSet, SetFiredAndEnqueue, TypeOK
  <2>3. PICK q \in Recorders : /\ rec[q].pc # "idle"
                               /\ rec[q].cyc = c
                               /\ rec[q].mine = store[c].done
    BY <1>0, <2>2 DEF Complete
  <2>4. rec'[q] = rec[q]
    BY <1>5, <2>1, <2>3 DEF RecordSet, TypeOK
  <2> QED
    BY <2>2, <2>3, <2>4
<1>6. ASSUME NEW p \in Recorders, RecorderCrash(p)
      PROVE  \E q \in Recorders : /\ rec'[q].pc # "idle"
                                  /\ rec'[q].cyc = c
                                  /\ rec'[q].mine = store'[c].done
  <2>1. rec[p].cyc # c /\ crashed'[c] = crashed[c]
    BY <1>6 DEF RecorderCrash, TypeOK
  <2>2. store' = store /\ fires' = fires
    BY <1>6 DEF RecorderCrash
  <2>3. PICK q \in Recorders : /\ rec[q].pc # "idle"
                               /\ rec[q].cyc = c
                               /\ rec[q].mine = store[c].done
    BY <1>0, <2>1, <2>2 DEF Complete
  <2>4. rec'[q] = rec[q]
    BY <1>6, <2>1, <2>3 DEF RecorderCrash, TypeOK
  <2> QED
    BY <2>2, <2>3, <2>4
<1>7. ASSUME NEW b \in Cycles, SweepRead(b)
      PROVE  \E q \in Recorders : /\ rec'[q].pc # "idle"
                                  /\ rec'[q].cyc = c
                                  /\ rec'[q].mine = store'[c].done
  BY <1>0, <1>7 DEF SweepRead, Complete, history
<1>8. ASSUME SweepSet
      PROVE  \E q \in Recorders : /\ rec'[q].pc # "idle"
                                  /\ rec'[q].cyc = c
                                  /\ rec'[q].mine = store'[c].done
  <2>0. sweep.cyc \in Cycles
    BY <1>8 DEF SweepSet, TypeOK
  <2>1. sweep.cyc # c
    <3>1. CASE store[sweep.cyc].fired = 0
      BY <1>8, <3>1 DEF SweepSet, SetFiredAndEnqueue, TypeOK
    <3>2. CASE store[sweep.cyc].fired > 0
      BY <1>8, <2>0, <3>2 DEF SweepSet, BarrierInv, TypeOK
    <3> QED
      BY <1>8, <3>1, <3>2 DEF SweepSet
  <2>2. store'[c] = store[c] /\ fires'[c] = fires[c] /\ crashed' = crashed /\ rec' = rec
    BY <1>8, <2>1 DEF SweepSet, SetFiredAndEnqueue, TypeOK
  <2> QED
    BY <1>0, <2>2 DEF Complete
<1>9. ASSUME SweepDel
      PROVE  \E q \in Recorders : /\ rec'[q].pc # "idle"
                                  /\ rec'[q].cyc = c
                                  /\ rec'[q].mine = store'[c].done
  <2>1. sweep.cyc # c
    BY <1>9 DEF SweepDel, Complete, TypeOK, Fields
  <2>2. store'[c] = store[c] /\ fires' = fires /\ crashed' = crashed /\ rec' = rec
    BY <1>9, <2>1 DEF SweepDel, TypeOK, history
  <2> QED
    BY <1>0, <2>2 DEF Complete
<1>10. ASSUME Tick
       PROVE  \E q \in Recorders : /\ rec'[q].pc # "idle"
                                   /\ rec'[q].cyc = c
                                   /\ rec'[q].mine = store'[c].done
  <2>1. Complete(c) /\ store'[c].done = store[c].done
    BY <1>10, TickKeepsIncomplete
  <2> QED
    BY <1>0, <1>10, <2>1 DEF Tick, history
<1>11. ASSUME UNCHANGED vars
       PROVE  \E q \in Recorders : /\ rec'[q].pc # "idle"
                                   /\ rec'[q].cyc = c
                                   /\ rec'[q].mine = store'[c].done
  BY <1>0, <1>11 DEF vars, Complete
<1> QED
  BY <1>1, <1>2, <1>3, <1>4, <1>5, <1>6, <1>7, <1>8, <1>9, <1>10, <1>11 DEF Next

\* The five simpler parts of the invariant.
SideInv ==
    /\ \A c \in Cycles : store[c].done > 0 => opened[c] > 0
    /\ \A d \in Dispatchers : disp[d].pc = "stamp" => disp[d].cyc * Interval <= now
    /\ sweep.pc # "idle" => now > Deadline(sweep.cyc)
    /\ \A c \in Cycles : store[c].fired > 0 => fires[c] > 0

\* One step of the barrier re-establishes the simpler parts of the invariant.
LEMMA SideStep == TypeOK /\ BarrierInv /\ [Next]_vars => SideInv'
<1> SUFFICES ASSUME TypeOK, BarrierInv, [Next]_vars PROVE SideInv'
  OBVIOUS
<1>0. SideInv /\ now \in Nat
  BY DEF SideInv, BarrierInv, TypeOK
<1>a. \A c \in Cycles : c * Interval \in Int /\ Deadline(c) \in Int
  BY TimeAssumption DEF Deadline
<1> HIDE DEF Deadline
<1> USE DEF TypeOK, Counter, Fields
<1>1. ASSUME NEW d \in Dispatchers, NEW b \in Cycles, OpenIncr(d, b) PROVE SideInv'
  <2>1. b * Interval <= now
    BY <1>0, <1>1, OpenBeforeDeadline DEF OpenIncr
  <2>2. \A c \in Cycles : store'[c].done = store[c].done /\ store'[c].fired = store[c].fired
    BY <1>1 DEF OpenIncr, IncrBy
  <2>3. \A e \in Dispatchers : disp'[e].pc = "stamp" => disp'[e].cyc * Interval <= now
    BY <1>0, <1>1, <2>1 DEF OpenIncr, SideInv
  <2> QED
    BY <1>0, <1>1, <2>2, <2>3 DEF OpenIncr, SideInv, history
<1>2. ASSUME NEW d \in Dispatchers, OpenStamp(d) PROVE SideInv'
  BY <1>0, <1>2 DEF OpenStamp, SideInv, DispIdle
<1>3. ASSUME NEW d \in Dispatchers, DispatcherCrash(d) PROVE SideInv'
  BY <1>0, <1>3 DEF DispatcherCrash, SideInv, DispIdle, history
<1>4. ASSUME NEW p \in Recorders, NEW b \in Cycles, RecordIncr(p, b) PROVE SideInv'
  <2>1. \A c \in Cycles : /\ store'[c].fired = store[c].fired
                          /\ c # b => store'[c].done = store[c].done
    BY <1>4 DEF RecordIncr, IncrBy
  <2> QED
    BY <1>0, <1>4, <2>1 DEF RecordIncr, SideInv
<1>5. ASSUME NEW p \in Recorders, RecordStamp(p) \/ RecordRead(p) \/ RecorderCrash(p)
      PROVE SideInv'
  BY <1>0, <1>5 DEF RecordStamp, RecordRead, RecorderCrash, SideInv, history
<1>6. ASSUME NEW b \in Cycles, SetFiredAndEnqueue(b)
      PROVE  /\ \A c \in Cycles : store'[c].done = store[c].done
             /\ \A c \in Cycles : store'[c].fired > 0 => fires'[c] > 0
  BY <1>0, <1>6 DEF SetFiredAndEnqueue, SideInv
<1>7. ASSUME NEW p \in Recorders, RecordSet(p) PROVE SideInv'
  <2>1. rec[p].cyc \in Cycles
    BY <1>7 DEF RecordSet
  <2>2. CASE SetFiredAndEnqueue(rec[p].cyc)
    BY <1>0, <1>6, <1>7, <2>1, <2>2 DEF RecordSet, SideInv
  <2>3. CASE UNCHANGED <<store, expiry, fires, lastFire>>
    BY <1>0, <1>7, <2>3 DEF RecordSet, SideInv
  <2> QED
    BY <1>7, <2>2, <2>3 DEF RecordSet
<1>8. ASSUME NEW b \in Cycles, SweepRead(b) PROVE SideInv'
  BY <1>0, <1>8 DEF SweepRead, Sweepable, SideInv, history
<1>9. CASE SweepSet
  <2>1. sweep.cyc \in Cycles
    BY <1>9 DEF SweepSet
  <2>2. CASE SetFiredAndEnqueue(sweep.cyc)
    BY <1>0, <1>6, <1>9, <2>1, <2>2 DEF SweepSet, SideInv
  <2>3. CASE UNCHANGED <<store, expiry, fires, lastFire>>
    BY <1>0, <1>9, <2>3 DEF SweepSet, SideInv
  <2> QED
    BY <1>9, <2>2, <2>3 DEF SweepSet
<1>10. CASE SweepDel
  <2>1. \A c \in Cycles : /\ store'[c].done = 0 \/ store'[c].done = store[c].done
                          /\ store'[c].fired = 0 \/ store'[c].fired = store[c].fired
    BY <1>10 DEF SweepDel
  <2>2. sweep'.pc = "idle" /\ UNCHANGED <<now, disp, opened, fires>>
    BY <1>10 DEF SweepDel, DispIdle, history
  <2> QED
    <3>1. \A c \in Cycles : /\ store'[c].done > 0 => opened'[c] > 0
                            /\ store'[c].fired > 0 => fires'[c] > 0
      BY <1>0, <2>1, <2>2 DEF SideInv
    <3>2. \A d \in Dispatchers : disp'[d].pc = "stamp" => disp'[d].cyc * Interval <= now'
      BY <1>0, <2>2 DEF SideInv
    <3> QED
      BY <2>2, <3>1, <3>2 DEF SideInv
<1>11. CASE Tick
  <2>1. \A c \in Cycles : /\ store'[c].done = 0 \/ store'[c].done = store[c].done
                          /\ store'[c].fired = 0 \/ store'[c].fired = store[c].fired
    BY <1>11 DEF Tick
  <2>2. now' = now + 1 /\ UNCHANGED <<disp, sweep, opened, fires>>
    BY <1>11 DEF Tick, history
  <2>3. \A d \in Dispatchers : disp'[d].pc = "stamp" => disp'[d].cyc * Interval <= now'
    BY <1>0, <1>a, <2>2 DEF SideInv
  <2>4. sweep'.pc # "idle" => now' > Deadline(sweep'.cyc)
    BY <1>0, <1>a, <2>2 DEF SideInv
  <2> QED
    <3>1. \A c \in Cycles : /\ store'[c].done > 0 => opened'[c] > 0
                            /\ store'[c].fired > 0 => fires'[c] > 0
      BY <1>0, <2>1, <2>2 DEF SideInv
    <3> QED
      BY <2>3, <2>4, <3>1 DEF SideInv, Deadline
<1>12. CASE UNCHANGED vars
  BY <1>0, <1>12 DEF vars, SideInv
<1> QED
  BY <1>1, <1>2, <1>3, <1>4, <1>5, <1>7, <1>8, <1>9, <1>10, <1>11, <1>12 DEF Next

\* The expected counter of an opened cycle survives to its deadline.
LEMMA SurvivesStep == TypeOK /\ BarrierInv /\ [Next]_vars => ExpectedSurvives'
<1> SUFFICES ASSUME TypeOK, BarrierInv, [Next]_vars, NEW c \in Cycles
             PROVE  /\ Opening(c)' /\ now' < Deadline(c) => store'[c].expected > 0
                    /\ store'[c].expected > 0 =>
                          expiry'[c].expected = NoTTL \/ expiry'[c].expected >= Deadline(c)
                    /\ store'[c].expected = 0 => expiry'[c].expected = NoTTL
  BY DEF ExpectedSurvives, Deadline, NoTTL
<1> DEFINE Goal == /\ Opening(c)' /\ now' < Deadline(c) => store'[c].expected > 0
                   /\ store'[c].expected > 0 =>
                         expiry'[c].expected = NoTTL \/ expiry'[c].expected >= Deadline(c)
                   /\ store'[c].expected = 0 => expiry'[c].expected = NoTTL
<1>0. /\ Opening(c) /\ now < Deadline(c) => store[c].expected > 0
      /\ store[c].expected > 0 =>
            expiry[c].expected = NoTTL \/ expiry[c].expected >= Deadline(c)
      /\ store[c].expected = 0 => expiry[c].expected = NoTTL
  BY DEF BarrierInv, ExpectedSurvives
<1>a. /\ now \in Nat /\ store[c].expected \in Nat /\ expiry[c].expected \in Int
      /\ Deadline(c) \in Int
  BY TimeAssumption DEF TypeOK, Counter, Fields, Deadline
<1> HIDE DEF Deadline
<1>b. ASSUME UNCHANGED <<now, disp, opened>>, store'[c].expected = store[c].expected,
             expiry'[c].expected = expiry[c].expected
      PROVE  Goal
  BY <1>0, <1>b DEF Opening
<1>c. ASSUME NEW b, SetFiredAndEnqueue(b)
      PROVE  store'[c].expected = store[c].expected /\ expiry'[c].expected = expiry[c].expected
  <2>1. store'[c].expected = store[c].expected
    BY <1>c DEF SetFiredAndEnqueue, TypeOK, Counter, Fields
  <2>2. expiry'[c].expected = expiry[c].expected
    BY <1>c DEF SetFiredAndEnqueue, TypeOK, Fields
  <2> QED
    BY <2>1, <2>2
<1>1. ASSUME NEW d \in Dispatchers, NEW b \in Cycles, OpenIncr(d, b) PROVE Goal
  <2>1. expiry' = expiry /\ now' = now /\ opened' = opened
        /\ disp' = [disp EXCEPT ![d] = [pc |-> "stamp", cyc |-> b]]
    BY <1>1 DEF OpenIncr, history
  <2>2. CASE b = c
    <3>1. store'[c].expected > 0
      BY <1>1, <1>a, <2>2 DEF OpenIncr, IncrBy, TypeOK, Counter, Fields
    <3> QED
      BY <1>0, <1>a, <2>1, <3>1
  <2>3. CASE b # c
    <3>1. store'[c].expected = store[c].expected
      BY <1>1, <2>3 DEF OpenIncr, IncrBy, TypeOK
    <3>2. Opening(c)' => Opening(c)
      BY <2>1, <2>3 DEF Opening, TypeOK
    <3> QED
      BY <1>0, <2>1, <3>1, <3>2
  <2> QED
    BY <2>2, <2>3
<1>2. ASSUME NEW d \in Dispatchers, OpenStamp(d) PROVE Goal
  <2> DEFINE b == disp[d].cyc
  <2>1. b \in Cycles /\ disp[d].pc = "stamp"
    BY <1>2 DEF OpenStamp, TypeOK
  <2>2. /\ store' = store /\ now' = now
        /\ opened' = [opened EXCEPT ![b] = @ + 1]
        /\ disp' = [disp EXCEPT ![d] = DispIdle]
        /\ expiry' = [expiry EXCEPT ![b]["expected"] =
                         IF store[b]["expected"] > 0 THEN now + Ttl ELSE @]
    BY <1>2 DEF OpenStamp, PExpire
  <2>3. disp[d] = [pc |-> "stamp", cyc |-> b]
    BY <2>1 DEF TypeOK
  <2> HIDE DEF b
  <2>4. CASE b = c
    <3>1. Opening(c)
      BY <2>3, <2>4 DEF Opening
    <3>2. expiry'[c].expected = IF store[c].expected > 0 THEN now + Ttl ELSE expiry[c].expected
      BY <2>2, <2>4 DEF TypeOK, Fields
    <3>3. now + Ttl >= Deadline(c)
      <4>1. c * Interval <= now
        BY <2>1, <2>3, <2>4 DEF BarrierInv
      <4>2. (c + 1) * Interval = c * Interval + Interval /\ c * Interval \in Int
        BY TimeAssumption
      <4> QED
        BY <1>a, <4>1, <4>2, TimeAssumption DEF Deadline, Ttl
    <3> QED
      BY <1>0, <1>a, <2>2, <3>1, <3>2, <3>3
  <2>5. CASE b # c
    <3>1. Opening(c)' => Opening(c)
      BY <2>1, <2>2, <2>5 DEF Opening, DispIdle, TypeOK
    <3>2. expiry'[c] = expiry[c]
      BY <2>2, <2>5 DEF TypeOK
    <3> QED
      BY <1>0, <2>2, <3>1, <3>2
  <2> QED
    BY <2>4, <2>5
<1>3. ASSUME NEW d \in Dispatchers, DispatcherCrash(d) PROVE Goal
  <2>1. Opening(c)' => Opening(c)
    BY <1>3 DEF DispatcherCrash, Opening, DispIdle, TypeOK, history
  <2> QED
    BY <1>0, <1>3, <2>1 DEF DispatcherCrash
<1>4. ASSUME NEW p \in Recorders, NEW b \in Cycles, RecordIncr(p, b) PROVE Goal
  BY <1>4, <1>b DEF RecordIncr, IncrBy, TypeOK, Counter, Fields
<1>5. ASSUME NEW p \in Recorders, RecordStamp(p) PROVE Goal
  <2>1. expiry'[c].expected = expiry[c].expected
    BY <1>5 DEF RecordStamp, PExpire, TypeOK, Fields
  <2> QED
    BY <1>5, <1>b, <2>1 DEF RecordStamp, history
<1>6. ASSUME NEW p \in Recorders, RecordRead(p) \/ RecorderCrash(p) PROVE Goal
  BY <1>6, <1>b DEF RecordRead, RecorderCrash, history
<1>7. ASSUME NEW p \in Recorders, RecordSet(p) PROVE Goal
  <2>1. UNCHANGED <<now, disp, opened>>
    BY <1>7 DEF RecordSet
  <2>2. CASE SetFiredAndEnqueue(rec[p].cyc)
    BY <1>b, <1>c, <2>1, <2>2
  <2>3. CASE UNCHANGED <<store, expiry>>
    BY <1>b, <2>1, <2>3
  <2> QED
    BY <1>7, <2>2, <2>3 DEF RecordSet
<1>8. ASSUME NEW b \in Cycles, SweepRead(b) PROVE Goal
  BY <1>8, <1>b DEF SweepRead, history
<1>9. CASE SweepSet
  <2>1. UNCHANGED <<now, disp, opened>>
    BY <1>9 DEF SweepSet
  <2>2. CASE SetFiredAndEnqueue(sweep.cyc)
    BY <1>b, <1>c, <2>1, <2>2
  <2>3. CASE UNCHANGED <<store, expiry>>
    BY <1>b, <2>1, <2>3
  <2> QED
    BY <1>9, <2>2, <2>3 DEF SweepSet
<1>10. CASE SweepDel
  <2>1. CASE sweep.cyc = c
    <3>1. now > Deadline(c)
      BY <1>10, <2>1 DEF SweepDel, BarrierInv
    <3>2. now' = now /\ store'[c].expected = 0 /\ expiry'[c].expected = NoTTL
      BY <1>10, <2>1 DEF SweepDel, TypeOK, Fields
    <3> QED
      BY <1>a, <3>1, <3>2
  <2>2. CASE sweep.cyc # c
    BY <1>10, <1>b, <2>2 DEF SweepDel, TypeOK, history
  <2> QED
    BY <2>1, <2>2
<1>11. CASE Tick
  <2>1. /\ now' = now + 1
        /\ Opening(c)' <=> Opening(c)
    BY <1>11 DEF Tick, Opening, history
  <2>2. /\ store'[c].expected = IF Expired(c, "expected", now + 1)
                                THEN 0 ELSE store[c].expected
        /\ expiry'[c].expected = IF Expired(c, "expected", now + 1)
                                 THEN NoTTL ELSE expiry[c].expected
    BY <1>11 DEF Tick, Fields
  <2> QED
    BY <1>0, <1>a, <2>1, <2>2 DEF Expired
<1>12. CASE UNCHANGED vars
  BY <1>12, <1>b DEF vars
<1> QED
  BY <1>1, <1>2, <1>3, <1>4, <1>5, <1>6, <1>7, <1>8, <1>9, <1>10, <1>11, <1>12 DEF Next

\* The barrier's inductive invariant holds in every reachable state.
LEMMA BarrierInvariant == Spec => []BarrierInv
<1>1. Init => BarrierInv
  <2> SUFFICES ASSUME Init PROVE BarrierInv
    OBVIOUS
  <2>1. \A c \in Cycles : /\ store[c].expected = 0 /\ store[c].done = 0 /\ store[c].fired = 0
                          /\ expiry[c].expected = NoTTL /\ opened[c] = 0
    BY DEF Init, Fields
  <2>2. /\ \A d \in Dispatchers : disp[d].pc = "idle"
        /\ sweep.pc = "idle"
    BY DEF Init, DispIdle
  <2> QED
    BY <2>1, <2>2 DEF BarrierInv, ExpectedSurvives, NoLostFire, Complete, Opening
<1>2. TypeOK /\ BarrierInv /\ [Next]_vars => BarrierInv'
  BY NoLostFireStep, SideStep, SurvivesStep DEF BarrierInv, SideInv
<1> QED
  BY <1>1, <1>2, TypeCorrect, PTL DEF Spec

\* record_scrape never loses a fire: however its Redis commands interleave with
\* other landings, with open_cycle, with the sweep and with expiring keys, a
\* complete cycle has fired or is about to be fired by a thread inside the call.
THEOREM NeverLosesAFire == Spec => []NoLostFire
<1>1. BarrierInv => NoLostFire
  BY DEF BarrierInv
<1> QED
  BY <1>1, BarrierInvariant, PTL
-----------------------------------------------------------------------------
\* The fired key lives for interval + grace after every fire, or until the
\* sweep deletes it.
LEMMA SpacedStep ==
    ASSUME TypeOK, BarrierInv, SpacedInv, [Next]_vars
    PROVE  SpacedInv'
<1>0. now \in Nat /\ Ttl \in Int
  BY TimeAssumption DEF TypeOK, Ttl
<1> SUFFICES ASSUME NEW c \in Cycles, fires'[c] > 0, now' < lastFire'[c] + Ttl
             PROVE  store'[c].fired > 0 /\ expiry'[c].fired = lastFire'[c] + Ttl
  BY DEF SpacedInv, Ttl
<1> HIDE DEF Ttl
<1>a. /\ fires[c] > 0 /\ now < lastFire[c] + Ttl =>
            store[c].fired > 0 /\ expiry[c].fired = lastFire[c] + Ttl
      /\ fires[c] \in Nat /\ lastFire[c] \in Int
  BY DEF SpacedInv, TypeOK
<1>b. ASSUME UNCHANGED <<now, fires, lastFire>>, store'[c].fired = store[c].fired,
             expiry'[c].fired = expiry[c].fired
      PROVE  store'[c].fired > 0 /\ expiry'[c].fired = lastFire'[c] + Ttl
  BY <1>a, <1>b
<1>1. ASSUME NEW d \in Dispatchers, NEW b \in Cycles, OpenIncr(d, b)
      PROVE  store'[c].fired > 0 /\ expiry'[c].fired = lastFire'[c] + Ttl
  BY <1>1, <1>b DEF OpenIncr, IncrBy, TypeOK, Counter, Fields, history
<1>2. ASSUME NEW d \in Dispatchers, OpenStamp(d)
      PROVE  store'[c].fired > 0 /\ expiry'[c].fired = lastFire'[c] + Ttl
  BY <1>2, <1>b DEF OpenStamp, PExpire, TypeOK, Fields
<1>3. ASSUME NEW d \in Dispatchers, DispatcherCrash(d)
      PROVE  store'[c].fired > 0 /\ expiry'[c].fired = lastFire'[c] + Ttl
  BY <1>3, <1>b DEF DispatcherCrash, history
<1>4. ASSUME NEW p \in Recorders, NEW b \in Cycles, RecordIncr(p, b)
      PROVE  store'[c].fired > 0 /\ expiry'[c].fired = lastFire'[c] + Ttl
  BY <1>4, <1>b DEF RecordIncr, IncrBy, TypeOK, Counter, Fields
<1>5. ASSUME NEW p \in Recorders, RecordStamp(p)
      PROVE  store'[c].fired > 0 /\ expiry'[c].fired = lastFire'[c] + Ttl
  <2>1. expiry'[c].fired = expiry[c].fired
    BY <1>5 DEF RecordStamp, PExpire, TypeOK, Fields
  <2> QED
    BY <1>5, <1>b, <2>1 DEF RecordStamp, history
<1>6. ASSUME NEW p \in Recorders, RecordRead(p) \/ RecorderCrash(p)
      PROVE  store'[c].fired > 0 /\ expiry'[c].fired = lastFire'[c] + Ttl
  BY <1>6, <1>b DEF RecordRead, RecorderCrash, history
<1>7. ASSUME NEW p \in Recorders, RecordSet(p)
      PROVE  store'[c].fired > 0 /\ expiry'[c].fired = lastFire'[c] + Ttl
  <2>1. now' = now /\ rec[p].cyc \in Cycles
    BY <1>7 DEF RecordSet, TypeOK
  <2>2. CASE SetFiredAndEnqueue(rec[p].cyc)
    <3>1. CASE rec[p].cyc = c
      BY <2>1, <2>2, <3>1 DEF SetFiredAndEnqueue, TypeOK, Counter, Fields
    <3>2. CASE rec[p].cyc # c
      BY <1>a, <2>1, <2>2, <3>2 DEF SetFiredAndEnqueue, TypeOK
    <3> QED
      BY <3>1, <3>2
  <2>3. CASE UNCHANGED <<store, expiry, fires, lastFire>>
    BY <1>b, <2>1, <2>3
  <2> QED
    BY <1>7, <2>2, <2>3 DEF RecordSet
<1>8. ASSUME NEW b \in Cycles, SweepRead(b)
      PROVE  store'[c].fired > 0 /\ expiry'[c].fired = lastFire'[c] + Ttl
  BY <1>8, <1>b DEF SweepRead, history
<1>11. ASSUME SweepSet
       PROVE  store'[c].fired > 0 /\ expiry'[c].fired = lastFire'[c] + Ttl
  <2>1. now' = now /\ sweep.cyc \in Cycles
    BY <1>11 DEF SweepSet, TypeOK
  <2>2. CASE SetFiredAndEnqueue(sweep.cyc)
    <3>1. CASE sweep.cyc = c
      BY <2>1, <2>2, <3>1 DEF SetFiredAndEnqueue, TypeOK, Counter, Fields
    <3>2. CASE sweep.cyc # c
      BY <1>a, <2>1, <2>2, <3>2 DEF SetFiredAndEnqueue, TypeOK
    <3> QED
      BY <3>1, <3>2
  <2>3. CASE UNCHANGED <<store, expiry, fires, lastFire>>
    BY <1>b, <2>1, <2>3
  <2> QED
    BY <1>11, <2>2, <2>3 DEF SweepSet
<1>12. ASSUME SweepDel
       PROVE  store'[c].fired > 0 /\ expiry'[c].fired = lastFire'[c] + Ttl
  <2>1. sweep.cyc # c
    BY <1>0, <1>12 DEF SweepDel, TypeOK
  <2>2. /\ now' = now /\ fires'[c] = fires[c] /\ lastFire'[c] = lastFire[c]
        /\ store'[c] = store[c] /\ expiry'[c] = expiry[c]
    BY <1>12, <2>1 DEF SweepDel, TypeOK
  <2> QED
    BY <1>a, <2>2
<1>9. CASE Tick
  <2>1. now' = now + 1 /\ fires' = fires /\ lastFire' = lastFire
    BY <1>9 DEF Tick, history
  <2>2. /\ store'[c].fired = IF Expired(c, "fired", now + 1) THEN 0 ELSE store[c].fired
        /\ expiry'[c].fired = IF Expired(c, "fired", now + 1) THEN NoTTL ELSE expiry[c].fired
    BY <1>9 DEF Tick, Fields
  <2>3. store[c].fired > 0 /\ expiry[c].fired = lastFire[c] + Ttl
    BY <1>0, <1>a, <2>1
  <2> QED
    BY <1>0, <1>a, <2>1, <2>2, <2>3 DEF Expired
<1>10. CASE UNCHANGED vars
  BY <1>10, <1>b DEF vars
<1> QED
  BY <1>1, <1>2, <1>3, <1>4, <1>5, <1>6, <1>7, <1>8, <1>9, <1>10, <1>11,
     <1>12 DEF Next

\* A step that fires a cycle finds its fired key absent.
LEMMA FireNeedsNoFlag ==
    ASSUME TypeOK, [Next]_vars, NEW c \in Cycles, fires'[c] # fires[c]
    PROVE  store[c].fired = 0
<1>1. ASSUME NEW b \in Cycles, SetFiredAndEnqueue(b), store[b].fired = 0
      PROVE  store[c].fired = 0
  BY <1>1 DEF SetFiredAndEnqueue, TypeOK
<1>2. ASSUME NEW p \in Recorders, RecordSet(p)
      PROVE  store[c].fired = 0
  <2>1. rec[p].cyc \in Cycles
    BY <1>2 DEF RecordSet, TypeOK
  <2> QED
    BY <1>1, <1>2, <2>1 DEF RecordSet
<1>3. ASSUME SweepSet
      PROVE  store[c].fired = 0
  <2>1. sweep.cyc \in Cycles
    BY <1>3 DEF SweepSet, TypeOK
  <2> QED
    BY <1>1, <1>3, <2>1 DEF SweepSet
<1>4. (\E p \in Recorders : RecordSet(p)) \/ SweepSet
  BY DEF Next, vars, history, OpenIncr, OpenStamp, DispatcherCrash, RecordIncr, RecordStamp,
         RecordRead, RecorderCrash, SweepRead, SweepDel, Tick
<1> QED
  BY <1>2, <1>3, <1>4

\* Two fires of the same cycle are never closer together than interval + grace,
\* unless the sweep has deleted the cycle's keys in between (which production,
\* where nothing calls close_expired, never does).
THEOREM FiresAreSpaced == Spec => FiresSpaced
<1>1. Init => SpacedInv
  BY DEF Init, SpacedInv
<1>2. TypeOK /\ BarrierInv /\ SpacedInv /\ [Next]_vars => SpacedInv'
  BY SpacedStep
<1>3. TypeOK /\ SpacedInv /\ [Next]_vars =>
        [\A c \in Cycles :
            fires'[c] # fires[c] => fires[c] = 0 \/ now >= lastFire[c] + Ttl]_vars
  <2> SUFFICES ASSUME TypeOK, SpacedInv, [Next]_vars, NEW c \in Cycles,
                      fires'[c] # fires[c], fires[c] # 0
               PROVE  now >= lastFire[c] + Ttl
    OBVIOUS
  <2>1. store[c].fired = 0
    BY FireNeedsNoFlag
  <2>2. fires[c] \in Nat /\ now \in Nat /\ lastFire[c] \in Int /\ Ttl \in Int
    BY TimeAssumption DEF TypeOK, Ttl
  <2> QED
    BY <2>1, <2>2 DEF SpacedInv
<1> QED
  BY <1>1, <1>2, <1>3, TypeCorrect, BarrierInvariant, PTL DEF Spec, FiresSpaced
-----------------------------------------------------------------------------
\* An expected counter without a TTL, after any step, still has a dispatcher
\* that is about to stamp it, or one that died on it.
LEMMA ExpectedDangles ==
    ASSUME TypeOK, NoDanglingCounter, [Next]_vars, NEW c \in Cycles,
           store'[c].expected > 0, expiry'[c].expected = NoTTL
    PROVE  \/ "open" \in crashed'[c]
           \/ \E d \in Dispatchers : disp'[d] = [pc |-> "stamp", cyc |-> c]
<1> DEFINE Goal == \/ "open" \in crashed'[c]
                   \/ \E d \in Dispatchers : disp'[d] = [pc |-> "stamp", cyc |-> c]
<1> SUFFICES Goal
  OBVIOUS
<1>0. /\ store[c].expected > 0 /\ expiry[c].expected = NoTTL =>
            \/ "open" \in crashed[c]
            \/ \E d \in Dispatchers : disp[d] = [pc |-> "stamp", cyc |-> c]
      /\ now \in Nat /\ Ttl \in Nat
  BY TimeAssumption DEF NoDanglingCounter, TypeOK, Ttl
<1>a. ASSUME store'[c].expected = store[c].expected, expiry'[c].expected = expiry[c].expected,
             disp' = disp, crashed[c] \subseteq crashed'[c]
      PROVE  Goal
  BY <1>0, <1>a
<1>1. ASSUME NEW d \in Dispatchers, NEW b \in Cycles, OpenIncr(d, b) PROVE Goal
  <2>1. CASE b = c
    BY <1>1, <2>1 DEF OpenIncr, TypeOK
  <2>2. CASE b # c
    <3>1. /\ store'[c] = store[c] /\ expiry' = expiry /\ crashed' = crashed
          /\ disp[d].pc = "idle"
          /\ \A e \in Dispatchers : e # d => disp'[e] = disp[e]
      BY <1>1, <2>2 DEF OpenIncr, IncrBy, TypeOK, history
    <3> QED
      BY <1>0, <3>1
  <2> QED
    BY <2>1, <2>2
<1>2. ASSUME NEW d \in Dispatchers, OpenStamp(d) PROVE Goal
  <2>1. /\ store' = store /\ crashed' = crashed
        /\ disp[d].cyc \in Cycles
        /\ \A e \in Dispatchers : e # d => disp'[e] = disp[e]
    BY <1>2 DEF OpenStamp, TypeOK
  <2>2. CASE disp[d].cyc = c
    <3>1. expiry'[c].expected = now + Ttl
      BY <1>2, <2>1, <2>2 DEF OpenStamp, PExpire, TypeOK, Fields
    <3> QED
      BY <1>0, <3>1 DEF NoTTL
  <2>3. CASE disp[d].cyc # c
    <3>1. expiry'[c] = expiry[c]
      BY <1>2, <2>3 DEF OpenStamp, PExpire, TypeOK
    <3> QED
      BY <1>0, <2>1, <2>3, <3>1
  <2> QED
    BY <2>2, <2>3
<1>3. ASSUME NEW d \in Dispatchers, DispatcherCrash(d) PROVE Goal
  <2>1. /\ store' = store /\ expiry' = expiry
        /\ crashed[c] \subseteq crashed'[c]
        /\ disp[d].cyc = c => "open" \in crashed'[c]
        /\ \A e \in Dispatchers : e # d => disp'[e] = disp[e]
    BY <1>3 DEF DispatcherCrash, TypeOK
  <2> QED
    BY <1>0, <2>1
<1>4. ASSUME NEW p \in Recorders, NEW b \in Cycles, RecordIncr(p, b) PROVE Goal
  <2>1. store'[c].expected = store[c].expected
    BY <1>4 DEF RecordIncr, IncrBy, TypeOK, Counter, Fields
  <2> QED
    BY <1>4, <1>a, <2>1 DEF RecordIncr
<1>5. ASSUME NEW p \in Recorders, RecordStamp(p) PROVE Goal
  <2>1. expiry'[c].expected = expiry[c].expected
    BY <1>5 DEF RecordStamp, PExpire, TypeOK, Fields
  <2> QED
    BY <1>5, <1>a, <2>1 DEF RecordStamp, history
<1>6. ASSUME NEW p \in Recorders, RecordRead(p) PROVE Goal
  BY <1>6, <1>a DEF RecordRead, history
<1>14. ASSUME NEW p \in Recorders, RecorderCrash(p) PROVE Goal
  <2>1. crashed[c] \subseteq crashed'[c]
    BY <1>14 DEF RecorderCrash, TypeOK
  <2> QED
    BY <1>14, <1>a, <2>1 DEF RecorderCrash
<1>7. ASSUME NEW b \in Cycles, SetFiredAndEnqueue(b)
      PROVE  store'[c].expected = store[c].expected /\ expiry'[c].expected = expiry[c].expected
  BY <1>7 DEF SetFiredAndEnqueue, TypeOK, Counter, Fields
<1>8. ASSUME NEW p \in Recorders, RecordSet(p) PROVE Goal
  <2>1. rec[p].cyc \in Cycles
    BY <1>8 DEF RecordSet, TypeOK
  <2>2. store'[c].expected = store[c].expected /\ expiry'[c].expected = expiry[c].expected
    BY <1>7, <1>8, <2>1 DEF RecordSet
  <2> QED
    BY <1>8, <1>a, <2>2 DEF RecordSet
<1>9. ASSUME NEW b \in Cycles, SweepRead(b) PROVE Goal
  BY <1>9, <1>a DEF SweepRead, history
<1>10. CASE SweepSet
  <2>1. sweep.cyc \in Cycles
    BY <1>10 DEF SweepSet, TypeOK
  <2>2. store'[c].expected = store[c].expected /\ expiry'[c].expected = expiry[c].expected
    BY <1>7, <1>10, <2>1 DEF SweepSet
  <2> QED
    BY <1>10, <1>a, <2>2 DEF SweepSet
<1>11. CASE SweepDel
  <2>1. sweep.cyc # c
    BY <1>11 DEF SweepDel, TypeOK, Fields
  <2>2. store'[c] = store[c] /\ expiry'[c] = expiry[c]
    BY <1>11, <2>1 DEF SweepDel, TypeOK
  <2> QED
    BY <1>11, <1>a, <2>2 DEF SweepDel
<1>12. CASE Tick
  <2>1. /\ store'[c].expected = IF Expired(c, "expected", now + 1)
                                THEN 0 ELSE store[c].expected
        /\ expiry'[c].expected = IF Expired(c, "expected", now + 1)
                                 THEN NoTTL ELSE expiry[c].expected
    BY <1>12 DEF Tick, Fields
  <2> QED
    BY <1>12, <1>a, <2>1 DEF Tick, history
<1>13. CASE UNCHANGED vars
  <2>1. UNCHANGED <<store, expiry, disp, crashed>>
    BY <1>13 DEF vars
  <2> QED
    BY <1>a, <2>1
<1> QED
  BY <1>1, <1>2, <1>3, <1>4, <1>5, <1>6, <1>8, <1>9, <1>10, <1>11, <1>12, <1>13,
     <1>14 DEF Next

\* The same for a done counter and the threads inside record_scrape.
LEMMA DoneDangles ==
    ASSUME TypeOK, NoDanglingCounter, [Next]_vars, NEW c \in Cycles,
           store'[c].done > 0, expiry'[c].done = NoTTL
    PROVE  \/ "record" \in crashed'[c]
           \/ \E p \in Recorders : rec'[p].pc = "stamp" /\ rec'[p].cyc = c
<1> DEFINE Goal == \/ "record" \in crashed'[c]
                   \/ \E p \in Recorders : rec'[p].pc = "stamp" /\ rec'[p].cyc = c
<1> SUFFICES Goal
  OBVIOUS
<1>0. /\ store[c].done > 0 /\ expiry[c].done = NoTTL =>
            \/ "record" \in crashed[c]
            \/ \E p \in Recorders : rec[p].pc = "stamp" /\ rec[p].cyc = c
  BY DEF NoDanglingCounter
<1>b. now \in Nat /\ Ttl \in Nat
  BY TimeAssumption DEF TypeOK, Ttl
\* A step that leaves this counter alone and moves at most a thread that is not
\* about to stamp it.
<1>a. ASSUME store'[c].done = store[c].done, expiry'[c].done = expiry[c].done,
             crashed[c] \subseteq crashed'[c],
             \A q \in Recorders : rec[q].pc = "stamp" /\ rec[q].cyc = c => rec'[q] = rec[q]
      PROVE  Goal
  BY <1>0, <1>a
<1>1. ASSUME NEW d \in Dispatchers, NEW b \in Cycles, OpenIncr(d, b) PROVE Goal
  <2>1. store'[c].done = store[c].done
    BY <1>1 DEF OpenIncr, IncrBy, TypeOK, Counter, Fields
  <2> QED
    BY <1>1, <1>a, <2>1 DEF OpenIncr, history
<1>2. ASSUME NEW d \in Dispatchers, OpenStamp(d) PROVE Goal
  <2>1. expiry'[c].done = expiry[c].done
    BY <1>2 DEF OpenStamp, PExpire, TypeOK, Fields
  <2> QED
    BY <1>2, <1>a, <2>1 DEF OpenStamp
<1>3. ASSUME NEW d \in Dispatchers, DispatcherCrash(d) PROVE Goal
  <2>1. crashed[c] \subseteq crashed'[c]
    BY <1>3 DEF DispatcherCrash, TypeOK
  <2> QED
    BY <1>3, <1>a, <2>1 DEF DispatcherCrash
<1>4. ASSUME NEW p \in Recorders, NEW b \in Cycles, RecordIncr(p, b) PROVE Goal
  <2>1. CASE b = c
    BY <1>4, <2>1 DEF RecordIncr, TypeOK
  <2>2. CASE b # c
    <3>1. store'[c] = store[c]
      BY <1>4, <2>2 DEF RecordIncr, IncrBy, TypeOK
    <3>2. \A q \in Recorders : rec[q].pc = "stamp" => rec'[q] = rec[q]
      BY <1>4 DEF RecordIncr, TypeOK
    <3> QED
      BY <1>4, <1>a, <3>1, <3>2 DEF RecordIncr
  <2> QED
    BY <2>1, <2>2
<1>5. ASSUME NEW p \in Recorders, RecordStamp(p) PROVE Goal
  <2>1. /\ store' = store /\ crashed' = crashed
        /\ rec[p].cyc \in Cycles
        /\ \A q \in Recorders : q # p => rec'[q] = rec[q]
    BY <1>5 DEF RecordStamp, TypeOK, history
  <2>2. CASE rec[p].cyc = c
    <3>1. expiry'[c].done = now + Ttl
      BY <1>5, <2>1, <2>2 DEF RecordStamp, PExpire, TypeOK, Fields
    <3> QED
      BY <1>b, <3>1 DEF NoTTL
  <2>3. CASE rec[p].cyc # c
    <3>1. expiry'[c] = expiry[c]
      BY <1>5, <2>3 DEF RecordStamp, PExpire, TypeOK
    <3> QED
      BY <1>a, <2>1, <2>3, <3>1
  <2> QED
    BY <2>2, <2>3
<1>6. ASSUME NEW p \in Recorders, RecordRead(p) PROVE Goal
  <2>1. rec[p].pc = "read" /\ \A q \in Recorders : q # p => rec'[q] = rec[q]
    BY <1>6 DEF RecordRead, TypeOK
  <2> QED
    BY <1>6, <1>a, <2>1 DEF RecordRead, history
<1>7. ASSUME NEW p \in Recorders, RecorderCrash(p) PROVE Goal
  <2>1. /\ store' = store /\ expiry' = expiry
        /\ crashed[c] \subseteq crashed'[c]
        /\ rec[p].cyc = c => "record" \in crashed'[c]
        /\ \A q \in Recorders : q # p => rec'[q] = rec[q]
    BY <1>7 DEF RecorderCrash, TypeOK
  <2> QED
    BY <1>a, <2>1
<1>8. ASSUME NEW b \in Cycles, SetFiredAndEnqueue(b)
      PROVE  store'[c].done = store[c].done /\ expiry'[c].done = expiry[c].done
  BY <1>8 DEF SetFiredAndEnqueue, TypeOK, Counter, Fields
<1>9. ASSUME NEW p \in Recorders, RecordSet(p) PROVE Goal
  <2>1. /\ rec[p].cyc \in Cycles /\ rec[p].pc = "set"
        /\ \A q \in Recorders : q # p => rec'[q] = rec[q]
    BY <1>9 DEF RecordSet, TypeOK
  <2>2. store'[c].done = store[c].done /\ expiry'[c].done = expiry[c].done
    BY <1>8, <1>9, <2>1 DEF RecordSet
  <2> QED
    BY <1>9, <1>a, <2>1, <2>2 DEF RecordSet
<1>10. ASSUME NEW b \in Cycles, SweepRead(b) PROVE Goal
  BY <1>10, <1>a DEF SweepRead, history
<1>11. CASE SweepSet
  <2>1. sweep.cyc \in Cycles
    BY <1>11 DEF SweepSet, TypeOK
  <2>2. store'[c].done = store[c].done /\ expiry'[c].done = expiry[c].done
    BY <1>8, <1>11, <2>1 DEF SweepSet
  <2> QED
    BY <1>11, <1>a, <2>2 DEF SweepSet
<1>12. CASE SweepDel
  <2>1. sweep.cyc # c
    BY <1>12 DEF SweepDel, TypeOK, Fields
  <2>2. store'[c] = store[c] /\ expiry'[c] = expiry[c]
    BY <1>12, <2>1 DEF SweepDel, TypeOK
  <2> QED
    BY <1>12, <1>a, <2>2 DEF SweepDel
<1>13. CASE Tick
  <2>1. /\ store'[c].done = IF Expired(c, "done", now + 1) THEN 0 ELSE store[c].done
        /\ expiry'[c].done = IF Expired(c, "done", now + 1) THEN NoTTL ELSE expiry[c].done
    BY <1>13 DEF Tick, Fields
  <2> QED
    BY <1>13, <1>a, <2>1 DEF Tick, history
<1>14. CASE UNCHANGED vars
  <2>1. UNCHANGED <<store, expiry, rec, crashed>>
    BY <1>14 DEF vars
  <2> QED
    BY <1>a, <2>1
<1> QED
  BY <1>1, <1>2, <1>3, <1>4, <1>5, <1>6, <1>7, <1>9, <1>10, <1>11, <1>12, <1>13, <1>14
  DEF Next

\* A counter without a TTL has a writer that is about to stamp it, or one that
\* died before it could: INCRBY and PEXPIRE are two commands, and neither expiry
\* nor the sweep between them leaves a dangling counter behind.
THEOREM NoCounterDangles == Spec => []NoDanglingCounter
<1>1. Init => NoDanglingCounter
  <2> SUFFICES ASSUME Init PROVE NoDanglingCounter
    OBVIOUS
  <2>1. \A c \in Cycles : store[c].expected = 0 /\ store[c].done = 0
    BY DEF Init, Fields
  <2>2. \A c \in Cycles : ~(store[c].expected > 0) /\ ~(store[c].done > 0)
    <3> TAKE c \in Cycles
    <3>1. store[c].expected = 0 /\ store[c].done = 0
      BY <2>1
    <3> QED
      BY <3>1
  <2> QED
    BY <2>2, Zenon DEF NoDanglingCounter
<1>2. TypeOK /\ NoDanglingCounter /\ [Next]_vars => NoDanglingCounter'
  <2> SUFFICES ASSUME TypeOK, NoDanglingCounter, [Next]_vars PROVE NoDanglingCounter'
    OBVIOUS
  <2> QED
    BY ExpectedDangles, DoneDangles DEF NoDanglingCounter
<1> QED
  BY <1>1, <1>2, TypeCorrect, PTL DEF Spec

----------------------------------------------------------------------------
(* CycleBarrier implements FiringSchedule: the initial state maps to its   *)
(* initial state, and every Redis command to one of its steps or to none.  *)

\* A thread inside record_scrape has landed a scrape of its cycle.
LandedInv == \A p \in Recorders : rec[p].pc # "idle" => landed[rec[p].cyc] > 0

LEMMA LandedStep ==
    ASSUME TypeOK, LandedInv, [Next]_vars
    PROVE  LandedInv'
<1> SUFFICES ASSUME NEW q \in Recorders, rec'[q].pc # "idle"
             PROVE  landed'[rec'[q].cyc] > 0
  BY DEF LandedInv
<1>a. rec[q].pc # "idle" => rec[q].cyc \in Cycles /\ landed[rec[q].cyc] > 0
  BY DEF LandedInv, TypeOK
<1>b. ASSUME UNCHANGED landed, rec'[q].pc # "idle" => rec[q].pc # "idle" /\ rec'[q].cyc = rec[q].cyc
      PROVE  landed'[rec'[q].cyc] > 0
  BY <1>a, <1>b
<1>1. ASSUME UNCHANGED <<rec, landed>>
      PROVE  landed'[rec'[q].cyc] > 0
  BY <1>1, <1>b
<1>2. ASSUME NEW p \in Recorders, NEW c \in Cycles, RecordIncr(p, c)
      PROVE  landed'[rec'[q].cyc] > 0
  <2>1. landed' = [landed EXCEPT ![c] = @ + 1] /\ landed \in [Cycles -> Nat]
    BY <1>2 DEF RecordIncr, TypeOK
  <2>2. CASE q = p
    <3>1. rec'[q].cyc = c
      BY <1>2, <2>2 DEF RecordIncr, TypeOK
    <3> QED
      BY <2>1, <3>1
  <2>3. CASE q # p
    <3>1. rec'[q] = rec[q]
      BY <1>2, <2>3 DEF RecordIncr, TypeOK
    <3> QED
      BY <1>a, <2>1, <3>1
  <2> QED
    BY <2>2, <2>3
<1>3. ASSUME NEW p \in Recorders, RecordStamp(p) \/ RecordRead(p)
      PROVE  landed'[rec'[q].cyc] > 0
  <2>1. rec'[q].pc # "idle" => rec[q].pc # "idle" /\ rec'[q].cyc = rec[q].cyc
    <3>1. CASE RecordStamp(p)
      BY <3>1 DEF RecordStamp, TypeOK
    <3>2. CASE RecordRead(p)
      BY <3>2 DEF RecordRead, TypeOK, RecIdle
    <3> QED
      BY <1>3, <3>1, <3>2
  <2> QED
    BY <1>3, <1>b, <2>1 DEF RecordStamp, RecordRead, history
<1>4. ASSUME NEW p \in Recorders, RecordSet(p) \/ RecorderCrash(p)
      PROVE  landed'[rec'[q].cyc] > 0
  <2>1. rec'[q].pc # "idle" => rec[q].pc # "idle" /\ rec'[q].cyc = rec[q].cyc
    <3>1. rec' = [rec EXCEPT ![p] = RecIdle]
      BY <1>4 DEF RecordSet, RecorderCrash
    <3>2. CASE q = p
      BY <3>1, <3>2 DEF TypeOK, RecIdle
    <3>3. CASE q # p
      BY <3>1, <3>3 DEF TypeOK
    <3> QED
      BY <3>2, <3>3
  <2> QED
    BY <1>4, <1>b, <2>1 DEF RecordSet, RecorderCrash
<1> QED
  BY <1>1, <1>2, <1>3, <1>4 DEF Next, vars, history, OpenIncr, OpenStamp, DispatcherCrash,
     SweepRead, SweepSet, SweepDel, Tick
-----------------------------------------------------------------------------
\* SET NX and the enqueue are a step Fire of the schedule: the key was absent,
\* so the quiet time is over.
LEMMA FireImplements ==
    ASSUME TypeOK, SpacedInv, NEW c \in Cycles, store[c].fired = 0, SetFiredAndEnqueue(c),
           UNCHANGED <<now, landed>>,
           landed[c] > 0 \/ now > Deadline(c)
    PROVE  Schedule!Fire(c)
<1>0. now \in Nat /\ Ttl \in Nat /\ fires \in [Cycles -> Nat] /\ lastFire \in [Cycles -> Int]
  BY TimeAssumption DEF TypeOK, Ttl
<1>1. now >= Quiet[c]
  <2>1. fires[c] > 0 => now >= lastFire[c] + Ttl
    BY <1>0 DEF SpacedInv
  <2> QED
    BY <1>0, <2>1 DEF Quiet
<1>2. /\ fires' = [fires EXCEPT ![c] = @ + 1]
      /\ lastFire' = [lastFire EXCEPT ![c] = now]
  BY DEF SetFiredAndEnqueue
<1>3. Quiet' = [Quiet EXCEPT ![c] = now + Interval + Grace]
  <2>1. ASSUME NEW b \in Cycles
        PROVE  Quiet'[b] = IF b = c THEN now + Interval + Grace ELSE Quiet[b]
    <3>1. CASE b = c
      <4>1. fires'[c] # 0 /\ lastFire'[c] = now
        BY <1>0, <1>2
      <4> QED
        BY <3>1, <4>1, TimeAssumption, <1>0 DEF Quiet, Ttl
    <3>2. CASE b # c
      BY <1>0, <1>2, <3>2 DEF Quiet, Ttl
    <3> QED
      BY <3>1, <3>2
  <2> QED
    BY <2>1 DEF Quiet
<1> QED
  BY <1>1, <1>2, <1>3 DEF Schedule!Fire, Schedule!Overdue, Deadline

\* A command that changes neither the clock nor a landing nor a fire is a
\* stutter of the schedule.
LEMMA StutterImplements ==
    ASSUME UNCHANGED <<now, landed, fires, lastFire>>
    PROVE  UNCHANGED <<now, landed, fires, Quiet>>
BY DEF Quiet, Ttl

\* Every command of the barrier is a step of the schedule or leaves it alone.
LEMMA BarrierImplementsStep ==
    ASSUME TypeOK, BarrierInv, SpacedInv, LandedInv, [Next]_vars
    PROVE  [Schedule!Next]_Schedule!vars
<1> DEFINE Goal == Schedule!Next \/ UNCHANGED <<now, landed, fires, Quiet>>
<1>1. ASSUME NEW p \in Recorders, NEW c \in Cycles, RecordIncr(p, c)
      PROVE  Goal
  <2>1. Schedule!Land(c)
    BY <1>1 DEF RecordIncr, Schedule!Land, Quiet, Ttl
  <2> QED
    BY <2>1 DEF Schedule!Next
<1>2. ASSUME NEW p \in Recorders, RecordSet(p)
      PROVE  Goal
  <2>1. rec[p].cyc \in Cycles /\ landed[rec[p].cyc] > 0 /\ UNCHANGED <<now, landed>>
    BY <1>2 DEF RecordSet, TypeOK, LandedInv
  <2>2. CASE store[rec[p].cyc].fired = 0 /\ SetFiredAndEnqueue(rec[p].cyc)
    <3>1. Schedule!Fire(rec[p].cyc)
      BY <2>1, <2>2, FireImplements
    <3> QED
      BY <2>1, <3>1 DEF Schedule!Next
  <2>3. CASE UNCHANGED <<store, expiry, fires, lastFire>>
    BY <2>1, <2>3, StutterImplements
  <2> QED
    BY <1>2, <2>2, <2>3 DEF RecordSet
<1>3. ASSUME SweepSet
      PROVE  Goal
  <2>1. sweep.cyc \in Cycles /\ now > Deadline(sweep.cyc) /\ UNCHANGED <<now, landed>>
    BY <1>3 DEF SweepSet, TypeOK, BarrierInv
  <2>2. CASE store[sweep.cyc].fired = 0 /\ SetFiredAndEnqueue(sweep.cyc)
    <3>1. Schedule!Fire(sweep.cyc)
      BY <2>1, <2>2, FireImplements
    <3> QED
      BY <2>1, <3>1 DEF Schedule!Next
  <2>3. CASE UNCHANGED <<store, expiry, fires, lastFire>>
    BY <2>1, <2>3, StutterImplements
  <2> QED
    BY <1>3, <2>2, <2>3 DEF SweepSet
<1>4. ASSUME SweepDel
      PROVE  Goal
  <2>1. sweep.cyc \in Cycles /\ now > Deadline(sweep.cyc) /\ UNCHANGED <<now, landed, fires>>
    BY <1>4 DEF SweepDel, TypeOK, BarrierInv
  <2>2. lastFire' = [lastFire EXCEPT ![sweep.cyc] = -Ttl] /\ lastFire \in [Cycles -> Int]
        /\ Ttl \in Int
    BY <1>4, TimeAssumption DEF SweepDel, TypeOK, Ttl
  <2>3. Quiet' = [Quiet EXCEPT ![sweep.cyc] = 0]
    <3>1. ASSUME NEW b \in Cycles
          PROVE  Quiet'[b] = IF b = sweep.cyc THEN 0 ELSE Quiet[b]
      <4>1. lastFire'[b] = IF b = sweep.cyc THEN -Ttl ELSE lastFire[b]
        BY <2>2
      <4>2. -Ttl + Ttl = 0
        BY <2>2
      <4> QED
        BY <2>1, <4>1, <4>2 DEF Quiet, Ttl
    <3> QED
      BY <3>1 DEF Quiet
  <2>4. Schedule!Sweep(sweep.cyc)
    BY <2>1, <2>3 DEF Schedule!Sweep, Schedule!Overdue, Deadline
  <2> QED
    BY <2>1, <2>4 DEF Schedule!Next
<1>5. ASSUME Tick
      PROVE  Goal
  <2>1. now' = now + 1 /\ UNCHANGED <<landed, fires, lastFire>>
    BY <1>5 DEF Tick, history
  <2>2. Schedule!Tick
    BY <2>1 DEF Schedule!Tick, Quiet, Ttl
  <2> QED
    BY <2>2 DEF Schedule!Next
<1>6. ASSUME UNCHANGED <<now, landed, fires, lastFire>>
      PROVE  Goal
  BY <1>6, StutterImplements
<1>7. Goal
  BY <1>1, <1>2, <1>3, <1>4, <1>5, <1>6 DEF Next, vars, history, OpenIncr, OpenStamp,
     DispatcherCrash, RecordStamp, RecordRead, RecorderCrash, SweepRead
<1> QED
  BY <1>7 DEF Schedule!vars

\* The barrier implements the schedule of fires that the signal engine is
\* promised, for all cycles, pods, threads, intervals and graces.
THEOREM BarrierImplements == Spec => ImplementsSchedule
<1>1. Init => SpacedInv /\ LandedInv
  BY DEF Init, SpacedInv, LandedInv, RecIdle
<1>2. TypeOK /\ BarrierInv /\ SpacedInv /\ LandedInv /\ [Next]_vars => SpacedInv' /\ LandedInv'
  BY SpacedStep, LandedStep
<1>3. Init => Schedule!Init
  BY DEF Init, Schedule!Init, Quiet
<1>4. TypeOK /\ BarrierInv /\ SpacedInv /\ LandedInv /\ [Next]_vars
        => [Schedule!Next]_Schedule!vars
  BY BarrierImplementsStep
<1> QED
  BY <1>1, <1>2, <1>3, <1>4, TypeCorrect, BarrierInvariant, PTL
     DEF Spec, ImplementsSchedule, Schedule!Spec
=============================================================================
