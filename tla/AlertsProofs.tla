---------------------------- MODULE AlertsProofs ----------------------------
(***************************************************************************)
(* Out-of-stock detection implements Outages, and its alerts and mails are *)
(* right, for any number of trackings, processes and rows, as long as the  *)
(* ingests of the URL do not overlap.                                      *)
(***************************************************************************)
EXTENDS Alerts, SequenceTheorems, TLAPS

Alert == Trackings \X Nat
TxState == [pc : {"idle", "capture", "detect", "resolve", "create", "notify", "commit"},
            at : Nat, rows : Seq(BOOLEAN), row : Nat,
            restocking : SUBSET Alert, made : SUBSET Alert, resolved : SUBSET Alert]

\* What holds whether or not ingests overlap: the types, and that no row is
\* stamped later than the last insert.
Types ==
    /\ inserted \in Nat
    /\ latest \in [at : Nat, stocks : SUBSET BOOLEAN]
    /\ active \subseteq Alert
    /\ tx \in [Ingests -> TxState]
    /\ mails \in [Trackings -> Nat]

Stamped == latest.at <= inserted /\ \A i \in Ingests : tx[i].at <= inserted

AlertedBy(alerts) ==
    \A t \in Trackings \ (silenced \cup touched) : \E a \in alerts : a[1] = t

\* The single transaction i of an undisturbed URL: what its statements have
\* found so far agrees with the committed state.
Decided(i) ==
    \/ InStock(i) /\ Visible(i) = {}
    \/ ~InStock(i) /\ ~StockSeen /\ Visible(i) = active
    \/ ~InStock(i) /\ StockSeen /\ AlertedBy(Visible(i))

Agrees(i) ==
    /\ tx[i].pc \in {"capture", "detect", "resolve", "create"} => Visible(i) = active
    /\ tx[i].pc = "resolve" => InStock(i) /\ ~StockSeen
    /\ tx[i].pc = "create" => ~InStock(i) /\ StockSeen
    /\ tx[i].pc \in {"notify", "commit"} => Decided(i)

Alone(i) ==
    /\ \A j \in Ingests : tx[j].pc # "idle" => j = i
    /\ Len(tx[i].rows) = 1 /\ tx[i].row = 1 /\ tx[i].at > latest.at
    /\ Agrees(i)

\* The committed state of an undisturbed URL.
Settled ==
    /\ latest.stocks \in {{TRUE}, {FALSE}}
    /\ StockSeen => active = {}
    /\ ~StockSeen => AlertedBy(active)

Steady == Settled /\ \A i \in Ingests : tx[i].pc # "idle" => Alone(i)

\* Mails go out at the end of an outage only, and their transaction still has
\* to commit.
Posted ==
    /\ \A i \in Ingests :
          tx[i].pc \in {"detect", "resolve", "create", "notify"} /\ tx[i].restocking # {}
             => InStock(i)
    /\ \A t \in Trackings :
          \/ mails[t] = 0
          \/ mails[t] = 1 /\ \E i \in Ingests : tx[i].pc = "commit" /\ InStock(i)

AlertInv ==
    /\ Types /\ Stamped
    /\ ~disturbed => Steady
    /\ ~disturbed /\ ~failed => Posted

-----------------------------------------------------------------------------
LEMMA TypesStep ==
    ASSUME Types, [AlertNext]_alertVars
    PROVE  Types'
<1>1. ASSUME NEW i \in Ingests, Insert(i)
      PROVE  Types'
  <2>1. PICK n \in BatchSizes : \E rows \in [1..n -> BOOLEAN] :
            /\ inserted' = inserted + n
            /\ tx' = [tx EXCEPT ![i] = [Idle EXCEPT !.pc = "capture", !.at = inserted + n,
                                                    !.rows = rows]]
    BY <1>1 DEF Insert
  <2>2. PICK rows \in [1..n -> BOOLEAN] :
            tx' = [tx EXCEPT ![i] = [Idle EXCEPT !.pc = "capture", !.at = inserted + n,
                                                 !.rows = rows]]
    BY <2>1
  <2>3. n \in Nat /\ inserted \in Nat
    BY AlertsAssumption DEF Types
  <2>4. rows \in Seq(BOOLEAN)
    BY <2>3
  <2>5. [Idle EXCEPT !.pc = "capture", !.at = inserted + n, !.rows = rows] \in TxState
    <3>1. Idle \in TxState
      BY DEF Idle, TxState
    <3>2. PICK at \in Nat : at = inserted + n
      BY <2>3
    <3>3. [Idle EXCEPT !.pc = "capture", !.at = at, !.rows = rows] \in TxState
      BY <2>4, <3>1 DEF TxState
    <3> QED
      BY <3>2, <3>3
  <2>6. tx' \in [Ingests -> TxState]
    BY <2>2, <2>5 DEF Types
  <2> QED
    BY <1>1, <2>1, <2>3, <2>6 DEF Insert, Types
<1>2. ASSUME NEW i \in Ingests, Capture(i)
      PROVE  Types'
  <2>1. tx[i] \in TxState /\ Visible(i) \subseteq Alert
    BY DEF Types, TxState, Visible
  <2>2. tx' \in [Ingests -> TxState]
    BY <1>2, <2>1 DEF Capture, Types, TxState
  <2> QED
    BY <1>2, <2>2 DEF Capture, Types, alertHistory
<1>3. ASSUME NEW i \in Ingests, Detect(i)
      PROVE  Types'
  <2>1. PICK pc \in {"resolve", "create", "notify"} : tx' = [tx EXCEPT ![i].pc = pc]
    BY <1>3 DEF Detect
  <2>2. tx' \in [Ingests -> TxState]
    <3>1. tx[i] \in TxState
      BY DEF Types
    <3>2. [tx[i] EXCEPT !.pc = pc] \in TxState
      BY <3>1 DEF TxState
    <3>3. tx' = [tx EXCEPT ![i] = [tx[i] EXCEPT !.pc = pc]]
      BY <2>1
    <3> QED
      BY <3>2, <3>3 DEF Types
  <2> QED
    BY <1>3, <2>2 DEF Detect, Types, alertHistory
<1>4. ASSUME NEW i \in Ingests, Resolve(i)
      PROVE  Types'
  <2>1. tx[i] \in TxState /\ Visible(i) \subseteq Alert
    BY DEF Types, TxState, Visible
  <2>2. tx' \in [Ingests -> TxState]
    BY <1>4, <2>1 DEF Resolve, Types, TxState
  <2> QED
    BY <1>4, <2>2 DEF Resolve, Types, alertHistory
<1>5. Idle \in TxState
  BY DEF Idle, TxState
<1>6. ASSUME NEW i \in Ingests, CreateAlerts(i)
      PROVE  Types'
  <2> DEFINE fresh == {t \in Trackings \ silenced : {a \in Visible(i) : a[1] = t} = {}}
  <2>1. CASE tx' = [tx EXCEPT ![i] = Idle] /\ mails' = mails
    BY <1>5, <1>6, <2>1 DEF CreateAlerts, Types
  <2>2. CASE /\ tx' = [tx EXCEPT ![i].pc = "notify",
                                 ![i].made = @ \cup (fresh \X {tx[i].at})]
             /\ mails' = [t \in Trackings |-> IF t \in fresh THEN 0 ELSE mails[t]]
    <3>1. tx[i] \in TxState /\ fresh \X {tx[i].at} \subseteq Alert
      BY DEF Types, TxState, Alert
    <3> HIDE DEF fresh
    <3>2. tx' \in [Ingests -> TxState]
      BY <2>2, <3>1 DEF Types, TxState
    <3>3. mails' \in [Trackings -> Nat]
      BY <2>2 DEF Types
    <3> QED
      BY <1>6, <3>2, <3>3 DEF CreateAlerts, Types
  <2> QED
    BY <1>6, <2>1, <2>2 DEF CreateAlerts
<1>7. ASSUME NEW i \in Ingests, Notify(i)
      PROVE  Types'
  <2>1. tx[i] \in TxState /\ tx[i].row + 1 \in Nat
    BY DEF Types, TxState
  <2>2. PICK pc \in {"capture", "commit"}, row \in {tx[i].row, tx[i].row + 1} :
            tx' = [tx EXCEPT ![i] = [tx[i] EXCEPT !.restocking = {}, !.pc = pc, !.row = row]]
    BY <1>7 DEF Notify
  <2>3. [tx[i] EXCEPT !.restocking = {}, !.pc = pc, !.row = row] \in TxState
    BY <2>1 DEF TxState
  <2>4. tx' \in [Ingests -> TxState]
    BY <2>2, <2>3 DEF Types
  <2>5. mails' \in [Trackings -> Nat]
    BY <1>7 DEF Notify, Types
  <2> QED
    BY <1>7, <2>4, <2>5 DEF Notify, Types
<1>8. ASSUME NEW i \in Ingests, Commit(i)
      PROVE  Types'
  <2>1. tx[i] \in TxState /\ Visible(i) \subseteq Alert
    BY DEF Types, TxState, Visible
  <2>2. tx' \in [Ingests -> TxState]
    BY <1>5, <1>8 DEF Commit, Types
  <2>3. {tx[i].rows[r] : r \in DOMAIN tx[i].rows} \subseteq BOOLEAN /\ tx[i].at \in Nat
    BY <2>1, LenProperties DEF TxState
  <2>4. latest' \in [at : Nat, stocks : SUBSET BOOLEAN]
    BY <1>8, <2>3 DEF Commit, Types
  <2>5. mails' \in [Trackings -> Nat]
    BY <1>8 DEF Commit, Types, alertHistory
  <2> QED
    BY <1>8, <2>1, <2>2, <2>4, <2>5 DEF Commit, Types
<1>9. ASSUME NEW i \in Ingests, Rollback(i)
      PROVE  Types'
  BY <1>5, <1>9 DEF Rollback, Types
<1>10. ASSUME NEW t \in Trackings, Silence(t)
       PROVE  Types'
  BY <1>10 DEF Silence, Types
<1>11. CASE UNCHANGED alertVars
  BY <1>11 DEF Types, alertVars
<1> QED
  BY <1>1, <1>2, <1>3, <1>4, <1>6, <1>7, <1>8, <1>9, <1>10, <1>11 DEF AlertNext

LEMMA StampedStep ==
    ASSUME Types, Stamped, [AlertNext]_alertVars
    PROVE  Stamped'
<1>1. ASSUME UNCHANGED latest, inserted' \in Nat, inserted <= inserted',
             \A j \in Ingests : tx'[j].at = tx[j].at \/ tx'[j].at <= inserted'
      PROVE  Stamped'
  BY <1>1 DEF Types, Stamped, TxState
<1>2. ASSUME NEW i \in Ingests, Insert(i)
      PROVE  Stamped'
  <2>1. PICK n \in BatchSizes : \E rows \in [1..n -> BOOLEAN] :
            /\ inserted' = inserted + n
            /\ tx' = [tx EXCEPT ![i] = [Idle EXCEPT !.pc = "capture", !.at = inserted + n,
                                                    !.rows = rows]]
    BY <1>2 DEF Insert
  <2>2. n \in Nat /\ inserted \in Nat
    BY AlertsAssumption DEF Types
  <2>3. ASSUME NEW j \in Ingests
        PROVE  tx'[j].at = tx[j].at \/ tx'[j].at = inserted + n
    BY <2>1 DEF Types, Idle
  <2> QED
    BY <1>1, <1>2, <2>1, <2>2, <2>3 DEF Insert
<1>3. ASSUME NEW i \in Ingests,
             Capture(i) \/ Detect(i) \/ Resolve(i) \/ CreateAlerts(i) \/ Notify(i) \/ Rollback(i)
      PROVE  Stamped'
  <2>1. ASSUME NEW j \in Ingests
        PROVE  tx'[j].at = tx[j].at \/ tx'[j].at = 0
    <3>1. CASE Capture(i)
      BY <3>1 DEF Capture, Types, TxState
    <3>2. CASE Detect(i)
      BY <3>2 DEF Detect, Types, TxState
    <3>3. CASE Resolve(i)
      BY <3>3 DEF Resolve, Types, TxState
    <3>4. CASE CreateAlerts(i)
      <4>1. CASE tx' = [tx EXCEPT ![i] = Idle]
        BY <4>1 DEF Types, Idle
      <4>2. PICK made : \/ tx' = [tx EXCEPT ![i].pc = "notify", ![i].made = made]
                        \/ tx' = [tx EXCEPT ![i] = Idle]
        BY <3>4 DEF CreateAlerts
      <4>3. CASE tx' = [tx EXCEPT ![i].pc = "notify", ![i].made = made]
        BY <4>3 DEF Types, TxState
      <4> QED
        BY <4>1, <4>2, <4>3
    <3>5. CASE Notify(i)
      BY <3>5 DEF Notify, Types, TxState
    <3>6. CASE Rollback(i)
      BY <3>6 DEF Rollback, Types, TxState, Idle
    <3> QED
      BY <1>3, <3>1, <3>2, <3>3, <3>4, <3>5, <3>6
  <2>2. UNCHANGED <<inserted, latest>> /\ inserted \in Nat
    BY <1>3 DEF Types, Capture, Detect, Resolve, CreateAlerts, Notify, Rollback
  <2> QED
    BY <1>1, <2>1, <2>2
<1>4. ASSUME NEW i \in Ingests, Commit(i)
      PROVE  Stamped'
  <2>1. latest'.at \in {latest.at, tx[i].at} /\ inserted' = inserted
    BY <1>4 DEF Commit
  <2>2. ASSUME NEW j \in Ingests
        PROVE  tx'[j].at = tx[j].at \/ tx'[j].at = 0
    BY <1>4 DEF Commit, Types, Idle
  <2> QED
    BY <2>1, <2>2 DEF Stamped, Types
<1>5. ASSUME UNCHANGED <<inserted, latest, tx>>
      PROVE  Stamped'
  BY <1>5 DEF Stamped
<1> QED
  BY <1>2, <1>3, <1>4, <1>5 DEF AlertNext, alertVars, Silence

-----------------------------------------------------------------------------
\* A statement of the only transaction that writes no committed state.
LEMMA StaysAlone ==
    ASSUME Steady, NEW i \in Ingests, tx[i].pc # "idle",
           UNCHANGED <<latest, active, silenced, touched>>,
           \A j \in Ingests \ {i} : tx'[j] = tx[j],
           tx'[i].rows = tx[i].rows, tx'[i].row = 1, tx'[i].at = tx[i].at,
           Agrees(i)'
    PROVE  Steady'
<1>1. Alone(i) /\ Settled
  BY DEF Steady
<1>2. Settled'
  BY <1>1 DEF Settled, StockSeen, AlertedBy
<1>3. ASSUME NEW j \in Ingests, tx'[j].pc # "idle"
      PROVE  j = i
  BY <1>1, <1>3 DEF Alone
<1>4. Alone(i)'
  BY <1>1, <1>3 DEF Alone
<1> QED
  BY <1>2, <1>3, <1>4 DEF Steady

\* All transactions have ended and the committed state is as it was.
LEMMA EndsSteady ==
    ASSUME Steady, NEW i \in Ingests, tx[i].pc # "idle", tx \in [Ingests -> TxState],
           UNCHANGED <<latest, active, silenced, touched>>, tx' = [tx EXCEPT ![i] = Idle]
    PROVE  Steady'
<1>1. Alone(i) /\ Settled
  BY DEF Steady
<1>2. Settled'
  BY <1>1 DEF Settled, StockSeen, AlertedBy
<1>3. ASSUME NEW j \in Ingests
      PROVE  tx'[j].pc = "idle"
  BY <1>1 DEF Alone, Idle
<1> QED
  BY <1>2, <1>3 DEF Steady

LEMMA InsertSteady ==
    ASSUME Types, Stamped, Steady, NEW i \in Ingests, Insert(i), ~disturbed'
    PROVE  Steady'
<1>1. PICK n \in BatchSizes : \E rows \in [1..n -> BOOLEAN] :
          /\ tx' = [tx EXCEPT ![i] = [Idle EXCEPT !.pc = "capture", !.at = inserted + n,
                                                  !.rows = rows]]
          /\ disturbed' = (disturbed \/ n > 1 \/ Others(i) # {})
  BY DEF Insert
<1>2. n = 1 /\ Others(i) = {}
  <2>1. disturbed' = (disturbed \/ n > 1 \/ Others(i) # {})
    BY <1>1
  <2>2. ~(n > 1) /\ Others(i) = {}
    BY <2>1, Zenon
  <2> QED
    BY <2>2, AlertsAssumption
<1>3. PICK rows \in [1..n -> BOOLEAN] :
          tx' = [tx EXCEPT ![i] = [Idle EXCEPT !.pc = "capture", !.at = inserted + n, !.rows = rows]]
  BY <1>1
<1>4. Len(rows) = 1
  <2>1. n \in Nat
    BY <1>2
  <2>2. Len(rows) = n
    BY <2>1
  <2> QED
    BY <1>2, <2>2
<1>5. /\ tx'[i].pc = "capture" /\ tx'[i].at = inserted + 1 /\ tx'[i].rows = rows
      /\ tx'[i].row = 1 /\ tx'[i].made = {} /\ tx'[i].resolved = {}
  BY <1>2, <1>3 DEF Types, Idle
<1>6. ASSUME NEW j \in Ingests, tx'[j].pc # "idle"
      PROVE  j = i
  BY <1>2, <1>3, <1>6 DEF Types, Others
<1>7. UNCHANGED <<latest, active, silenced, touched>> /\ latest.at < inserted + 1
  BY DEF Insert, Types, Stamped
<1>8. Settled'
  BY <1>7 DEF Steady, Settled, StockSeen, AlertedBy
<1>9. Agrees(i)'
  BY <1>5, <1>7 DEF Agrees, Visible
<1>10. Alone(i)'
  BY <1>4, <1>5, <1>6, <1>7, <1>9 DEF Alone
<1> QED
  BY <1>6, <1>8, <1>10 DEF Steady

LEMMA DetectSteady ==
    ASSUME Types, Steady, NEW i \in Ingests, Detect(i)
    PROVE  Steady'
<1>1. Alone(i) /\ Settled /\ tx[i].pc = "detect" /\ Visible(i) = active
  BY DEF Detect, Steady, Alone, Agrees
<1>2. PICK previous \in PreviousInStock(i) :
          tx' = [tx EXCEPT ![i].pc =
                    CASE IsRestock(InStock(i), previous) -> "resolve"
                      [] IsOosTransition(InStock(i), previous) -> "create"
                      [] OTHER -> "notify"]
  BY DEF Detect
<1>3. previous \in BOOLEAN /\ (previous <=> StockSeen)
  <2>1. previous \in latest.stocks
    BY <1>1, <1>2 DEF Alone, PreviousInStock
  <2>2. CASE latest.stocks = {TRUE}
    <3>1. previous = TRUE /\ StockSeen
      BY <2>1, <2>2 DEF StockSeen
    <3> QED
      BY <3>1, Zenon
  <2>3. CASE latest.stocks = {FALSE}
    <3>1. previous = FALSE /\ ~StockSeen
      BY <2>1, <2>3 DEF StockSeen
    <3> QED
      BY <3>1, Zenon
  <2> QED
    BY <1>1, <2>2, <2>3 DEF Settled
<1>4. PICK pc : /\ tx' = [tx EXCEPT ![i].pc = pc]
                /\ \/ pc = "resolve" /\ InStock(i) /\ ~StockSeen
                   \/ pc = "create" /\ ~InStock(i) /\ StockSeen
                   \/ pc = "notify" /\ (InStock(i) <=> StockSeen)
  BY <1>2, <1>3 DEF IsRestock, IsOosTransition
<1>5. UNCHANGED <<latest, active, silenced, touched>>
  BY DEF Detect, alertHistory
<1>6. /\ tx'[i].pc = pc /\ tx'[i].rows = tx[i].rows /\ tx'[i].row = tx[i].row
      /\ tx'[i].at = tx[i].at /\ tx'[i].made = tx[i].made /\ tx'[i].resolved = tx[i].resolved
      /\ \A j \in Ingests \ {i} : tx'[j] = tx[j]
  BY <1>4 DEF Types, TxState
<1>7. Visible(i)' = active' /\ active' = active /\ StockSeen' = StockSeen
  BY <1>1, <1>5, <1>6 DEF Visible, StockSeen
<1>8. InStock(i)' = InStock(i)
  BY <1>6 DEF InStock
<1>9. Agrees(i)'
  BY <1>1, <1>4, <1>6, <1>7, <1>8 DEF Agrees, Decided, Settled
<1> QED
  BY <1>1, <1>5, <1>6, <1>9, StaysAlone DEF Alone

LEMMA CaptureSteady ==
    ASSUME Types, Steady, NEW i \in Ingests, Capture(i)
    PROVE  Steady'
<1>1. Alone(i) /\ tx[i].pc = "capture" /\ Visible(i) = active
  BY DEF Capture, Steady, Alone, Agrees
<1>2. UNCHANGED <<latest, active, silenced, touched>>
  BY DEF Capture, alertHistory
<1>3. /\ tx'[i].pc = "detect" /\ tx'[i].rows = tx[i].rows /\ tx'[i].row = tx[i].row
      /\ tx'[i].at = tx[i].at /\ tx'[i].made = tx[i].made /\ tx'[i].resolved = tx[i].resolved
      /\ \A j \in Ingests \ {i} : tx'[j] = tx[j]
  BY DEF Capture, Types, TxState
<1>4. Agrees(i)'
  BY <1>1, <1>2, <1>3 DEF Agrees, Visible
<1> QED
  BY <1>1, <1>2, <1>3, <1>4, StaysAlone DEF Alone

LEMMA ResolveSteady ==
    ASSUME Types, Steady, NEW i \in Ingests, Resolve(i)
    PROVE  Steady'
<1>1. Alone(i) /\ tx[i].pc = "resolve" /\ Visible(i) = active /\ InStock(i)
  BY DEF Resolve, Steady, Alone, Agrees
<1>2. UNCHANGED <<latest, active, silenced, touched>>
  BY DEF Resolve, alertHistory
<1>3. /\ tx'[i].pc = "notify" /\ tx'[i].rows = tx[i].rows /\ tx'[i].row = tx[i].row
      /\ tx'[i].at = tx[i].at /\ tx'[i].made = {}
      /\ tx'[i].resolved = tx[i].resolved \cup active
      /\ \A j \in Ingests \ {i} : tx'[j] = tx[j]
  BY <1>1 DEF Resolve, Types, TxState
<1>4. Visible(i)' = {} /\ InStock(i)'
  BY <1>1, <1>2, <1>3 DEF Visible, InStock
<1>5. Agrees(i)'
  BY <1>3, <1>4 DEF Agrees, Decided
<1> QED
  BY <1>1, <1>2, <1>3, <1>5, StaysAlone DEF Alone

LEMMA CreateSteady ==
    ASSUME Types, Steady, NEW i \in Ingests, CreateAlerts(i)
    PROVE  Steady'
<1> DEFINE fresh == {t \in Trackings \ silenced : {a \in Visible(i) : a[1] = t} = {}}
<1>1. /\ Alone(i) /\ Settled /\ tx[i].pc = "create" /\ Visible(i) = active
      /\ ~InStock(i) /\ StockSeen
  BY DEF CreateAlerts, Steady, Alone, Agrees
<1>2. UNCHANGED <<latest, active, silenced, touched>>
  BY DEF CreateAlerts
<1>3. CASE tx' = [tx EXCEPT ![i] = Idle]
  BY <1>1, <1>2, <1>3, EndsSteady DEF Types
<1>4. CASE tx' = [tx EXCEPT ![i].pc = "notify", ![i].made = @ \cup (fresh \X {tx[i].at})]
  <2>1. fresh = Trackings \ silenced
    BY <1>1 DEF Settled
  <2>2. /\ tx'[i].pc = "notify" /\ tx'[i].rows = tx[i].rows /\ tx'[i].row = tx[i].row
        /\ tx'[i].at = tx[i].at
        /\ tx'[i].made = tx[i].made \cup ((Trackings \ silenced) \X {tx[i].at})
        /\ \A j \in Ingests \ {i} : tx'[j] = tx[j]
    BY <1>4, <2>1 DEF Types, TxState
  <2>3. AlertedBy(Visible(i))'
    <3> SUFFICES ASSUME NEW t \in Trackings \ (silenced' \cup touched')
                 PROVE  \E a \in Visible(i)' : a[1] = t
      BY DEF AlertedBy
    <3>1. <<t, tx[i].at>> \in Visible(i)'
      BY <1>2, <2>2 DEF Visible
    <3> QED
      BY <3>1
  <2>4. ~InStock(i)' /\ StockSeen'
    BY <1>1, <1>2, <2>2 DEF InStock, StockSeen
  <2>5. Agrees(i)'
    BY <2>2, <2>3, <2>4 DEF Agrees, Decided
  <2> QED
    BY <1>1, <1>2, <2>2, <2>5, StaysAlone DEF Alone
<1> QED
  BY <1>3, <1>4 DEF CreateAlerts

LEMMA NotifySteady ==
    ASSUME Types, Steady, NEW i \in Ingests, Notify(i)
    PROVE  Steady' /\ tx' = [tx EXCEPT ![i].restocking = {}, ![i].pc = "commit", ![i].row = 1]
<1>1. Alone(i) /\ tx[i].pc = "notify" /\ Decided(i) /\ tx[i].row = 1 /\ Len(tx[i].rows) = 1
  BY DEF Notify, Steady, Alone, Agrees
<1>2. UNCHANGED <<latest, active, silenced, touched>>
  BY DEF Notify
<1>3. tx' = [tx EXCEPT ![i].restocking = {}, ![i].pc = "commit", ![i].row = 1]
  BY <1>1 DEF Notify, Types, TxState
<1>4. /\ tx'[i].pc = "commit" /\ tx'[i].rows = tx[i].rows /\ tx'[i].row = 1
      /\ tx'[i].at = tx[i].at /\ tx'[i].made = tx[i].made /\ tx'[i].resolved = tx[i].resolved
      /\ \A j \in Ingests \ {i} : tx'[j] = tx[j]
  BY <1>3 DEF Types, TxState
<1>5. /\ InStock(i)' = InStock(i) /\ Visible(i)' = Visible(i) /\ StockSeen' = StockSeen
  BY <1>1, <1>2, <1>4 DEF InStock, Visible, StockSeen
<1>6. Decided(i)'
  BY <1>1, <1>2, <1>5 DEF Decided, AlertedBy
<1>7. Agrees(i)'
  BY <1>4, <1>6 DEF Agrees
<1> QED
  BY <1>1, <1>2, <1>3, <1>4, <1>7, StaysAlone

\* What the commit of an undisturbed transaction makes visible.
LEMMA CommitEffect ==
    ASSUME Types, Steady, NEW i \in Ingests, Commit(i)
    PROVE  /\ \A j \in Ingests : tx'[j] = Idle \/ (tx'[j] = tx[j] /\ tx[j].pc = "idle")
           /\ latest'.stocks = {InStock(i)} /\ InStock(i) \in BOOLEAN
           /\ active' = Visible(i) /\ Decided(i)
<1>1. Alone(i) /\ Decided(i)
  BY DEF Commit, Steady, Alone, Agrees
<1>2. tx' = [tx EXCEPT ![i] = Idle] /\ active' = Visible(i)
  BY DEF Commit
<1>3. tx[i].rows \in Seq(BOOLEAN) /\ Len(tx[i].rows) = 1
  BY <1>1 DEF Alone, Types, TxState
<1>4. DOMAIN tx[i].rows = {1} /\ tx[i].rows[1] \in BOOLEAN
  BY <1>3, LenProperties
<1>5. latest'.stocks = {tx[i].rows[r] : r \in DOMAIN tx[i].rows}
  BY <1>1 DEF Commit, Alone
<1>6. latest'.stocks = {InStock(i)} /\ InStock(i) \in BOOLEAN
  BY <1>1, <1>4, <1>5 DEF InStock, Alone
<1>7. ASSUME NEW j \in Ingests
      PROVE  tx'[j] = Idle \/ (tx'[j] = tx[j] /\ tx[j].pc = "idle")
  BY <1>1, <1>2 DEF Alone, Types
<1> QED
  BY <1>1, <1>2, <1>6, <1>7

LEMMA CommitSteady ==
    ASSUME Types, NEW i \in Ingests, Commit(i), ~disturbed => Steady, ~disturbed'
    PROVE  Steady'
<1>1. CASE Quiet(i)
  <2>1. Settled'
    BY <1>1 DEF Quiet, Settled, StockSeen
  <2>2. ASSUME NEW j \in Ingests
        PROVE  tx'[j].pc = "idle"
    BY <1>1 DEF Commit, Quiet, Others, Types, Idle
  <2> QED
    BY <2>1, <2>2 DEF Steady
<1>2. CASE ~Quiet(i)
  <2>1. ~disturbed /\ UNCHANGED <<silenced, touched>>
    BY <1>2 DEF Commit, alertHistory
  <2>2. Steady /\ Settled
    BY <2>1 DEF Steady
  <2>3. /\ \A j \in Ingests : tx'[j].pc = "idle"
        /\ latest'.stocks = {InStock(i)} /\ InStock(i) \in BOOLEAN
        /\ active' = Visible(i) /\ Decided(i)
    BY <2>2, CommitEffect DEF Idle
  <2>4. Settled'
    <3>1. CASE InStock(i) /\ Visible(i) = {}
      BY <2>3, <3>1 DEF Settled, StockSeen
    <3>2. CASE ~InStock(i) /\ ~StockSeen /\ Visible(i) = active
      BY <2>1, <2>2, <2>3, <3>2 DEF Settled, StockSeen, AlertedBy
    <3>3. CASE ~InStock(i) /\ StockSeen /\ AlertedBy(Visible(i))
      BY <2>1, <2>3, <3>3 DEF Settled, StockSeen, AlertedBy
    <3> QED
      BY <2>3, <3>1, <3>2, <3>3 DEF Decided
  <2> QED
    BY <2>3, <2>4 DEF Steady
<1> QED
  BY <1>1, <1>2

LEMMA SilenceSteady ==
    ASSUME Steady, NEW t \in Trackings, Silence(t)
    PROVE  Steady'
<1>1. /\ silenced \cup touched \subseteq silenced' \cup touched'
      /\ UNCHANGED <<latest, active, tx>>
  BY DEF Silence
<1>2. Settled'
  BY <1>1 DEF Steady, Settled, StockSeen, AlertedBy
<1>3. ASSUME NEW i \in Ingests, tx'[i].pc # "idle"
      PROVE  Alone(i)'
  <2>1. Alone(i)
    BY <1>1, <1>3 DEF Steady
  <2>2. Visible(i)' = Visible(i) /\ InStock(i)' = InStock(i) /\ StockSeen' = StockSeen
    BY <1>1 DEF Visible, InStock, StockSeen
  <2>3. Decided(i) => Decided(i)'
    BY <1>1, <2>2 DEF Decided, AlertedBy
  <2>4. Agrees(i)'
    BY <1>1, <2>1, <2>2, <2>3 DEF Alone, Agrees
  <2> QED
    BY <1>1, <2>1, <2>4 DEF Alone
<1> QED
  BY <1>2, <1>3 DEF Steady

LEMMA SteadyStep ==
    ASSUME AlertInv, [AlertNext]_alertVars, ~disturbed'
    PROVE  Steady'
<1> USE DEF AlertInv
<1>1. ASSUME NEW i \in Ingests, Insert(i)
      PROVE  Steady'
  BY <1>1, InsertSteady DEF Insert
<1>2. ASSUME NEW i \in Ingests,
             Capture(i) \/ Detect(i) \/ Resolve(i) \/ CreateAlerts(i) \/ Notify(i) \/ Rollback(i)
      PROVE  Steady'
  <2>1. ~disturbed
    BY <1>2 DEF Capture, Detect, Resolve, CreateAlerts, Notify, Rollback, alertHistory
  <2>2. CASE Rollback(i)
    BY <2>1, <2>2, EndsSteady DEF Rollback, Types
  <2> QED
    BY <1>2, <2>1, <2>2, CaptureSteady, DetectSteady, ResolveSteady, CreateSteady, NotifySteady
<1>3. ASSUME NEW i \in Ingests, Commit(i)
      PROVE  Steady'
  BY <1>3, CommitSteady
<1>4. ASSUME NEW t \in Trackings, Silence(t)
      PROVE  Steady'
  BY <1>4, SilenceSteady DEF Silence
<1>5. CASE UNCHANGED alertVars
  BY <1>5 DEF alertVars, Steady, Settled, Alone, Agrees, Decided, AlertedBy, Visible, InStock,
     StockSeen
<1> QED
  BY <1>1, <1>2, <1>3, <1>4, <1>5 DEF AlertNext

-----------------------------------------------------------------------------
\* A step of transaction i that mails nothing and does not end it.
LEMMA StaysPosted ==
    ASSUME Posted, NEW i \in Ingests, tx[i].pc # "commit",
           \A j \in Ingests \ {i} : tx'[j] = tx[j],
           \A t \in Trackings : mails'[t] = mails[t] \/ mails'[t] = 0,
           tx'[i].pc \in {"detect", "resolve", "create", "notify"} /\ tx'[i].restocking # {}
              => InStock(i)'
    PROVE  Posted'
<1>1. ASSUME NEW j \in Ingests, j # i
      PROVE  tx'[j] = tx[j] /\ InStock(j)' = InStock(j)
  BY <1>1 DEF InStock
<1>2. ASSUME NEW j \in Ingests, tx[j].pc = "commit", InStock(j)
      PROVE  tx'[j].pc = "commit" /\ InStock(j)'
  BY <1>1, <1>2
<1>3. ASSUME NEW j \in Ingests, tx'[j].restocking # {},
             tx'[j].pc \in {"detect", "resolve", "create", "notify"}
      PROVE  InStock(j)'
  BY <1>1, <1>3 DEF Posted
<1>4. ASSUME NEW t \in Trackings
      PROVE  \/ mails'[t] = 0
             \/ mails'[t] = 1 /\ \E j \in Ingests : tx'[j].pc = "commit" /\ InStock(j)'
  BY <1>2 DEF Posted
<1> QED
  BY <1>3, <1>4 DEF Posted

LEMMA NotifyPosted ==
    ASSUME Types, Steady, Posted, NEW i \in Ingests, Notify(i)
    PROVE  Posted'
<1>1. tx' = [tx EXCEPT ![i].restocking = {}, ![i].pc = "commit", ![i].row = 1]
  BY NotifySteady
<1>2. Alone(i) /\ tx[i].pc = "notify" /\ tx[i].row = 1
  BY DEF Notify, Steady, Alone
<1>3. /\ tx'[i].pc = "commit" /\ tx'[i].restocking = {} /\ tx'[i].rows = tx[i].rows
      /\ tx'[i].row = tx[i].row
      /\ \A j \in Ingests \ {i} : tx'[j] = tx[j] /\ tx[j].pc = "idle"
  BY <1>1, <1>2 DEF Types, TxState, Alone
<1>4. ASSUME NEW t \in Trackings
      PROVE  mails[t] = 0
  BY <1>2, <1>3 DEF Posted
<1>5. ASSUME NEW t \in Trackings
      PROVE  mails'[t] = 0 \/ (mails'[t] = 1 /\ InStock(i)')
  <2>1. CASE tx[i].restocking = {}
    BY <1>4, <2>1 DEF Notify
  <2>2. CASE tx[i].restocking # {}
    <3>1. InStock(i)'
      BY <1>2, <1>3, <2>2 DEF Posted, InStock
    <3>2. mails'[t] \in {0, 1}
      BY <1>4 DEF Notify
    <3> QED
      BY <3>1, <3>2
  <2> QED
    BY <2>1, <2>2
<1>6. ASSUME NEW j \in Ingests, tx'[j].pc \in {"detect", "resolve", "create", "notify"}
      PROVE  FALSE
  BY <1>3, <1>6
<1> QED
  BY <1>3, <1>5, <1>6 DEF Posted

LEMMA CommitPosted ==
    ASSUME Types, NEW i \in Ingests, Commit(i), ~disturbed => Steady,
           ~disturbed /\ ~failed => Posted, ~disturbed', ~failed'
    PROVE  Posted'
<1>1. CASE Quiet(i)
  <2>1. \A t \in Trackings : mails'[t] = 0
    BY <1>1 DEF Commit
  <2>2. ASSUME NEW j \in Ingests
        PROVE  tx'[j].pc = "idle"
    BY <1>1 DEF Commit, Quiet, Others, Types, Idle
  <2> QED
    BY <2>1, <2>2 DEF Posted
<1>2. CASE ~Quiet(i)
  <2>1. UNCHANGED alertHistory
    BY <1>2 DEF Commit
  <2>2. Steady /\ Posted /\ Alone(i) /\ mails' = mails
    BY <2>1 DEF alertHistory, Steady, Commit
  <2>3. /\ \A j \in Ingests : tx'[j].pc = "idle"
        /\ latest'.stocks = {InStock(i)} /\ InStock(i) \in BOOLEAN
        /\ active' = Visible(i) /\ Decided(i)
    BY <2>2, CommitEffect DEF Idle
  <2>4. ~InStock(i)
    <3> SUFFICES ASSUME InStock(i)
                 PROVE  Quiet(i)
      BY <1>2
    <3>1. Visible(i) = {} /\ latest'.stocks = {TRUE}
      BY <2>3 DEF Decided
    <3>2. Others(i) = {}
      BY <2>2 DEF Others, Alone
    <3> QED
      BY <2>3, <3>1, <3>2 DEF Quiet
  <2>5. ASSUME NEW t \in Trackings
        PROVE  mails'[t] = 0
    BY <2>2, <2>4 DEF Posted, Alone
  <2> QED
    BY <2>3, <2>5 DEF Posted
<1> QED
  BY <1>1, <1>2

LEMMA PostedStep ==
    ASSUME AlertInv, [AlertNext]_alertVars, ~disturbed', ~failed'
    PROVE  Posted'
<1> USE DEF AlertInv
<1>1. ASSUME NEW i \in Ingests, Insert(i)
      PROVE  Posted'
  <2>1. Posted /\ mails' = mails /\ tx[i].pc = "idle"
    BY <1>1 DEF Insert
  <2>2. PICK n \in BatchSizes : \E rows \in [1..n -> BOOLEAN] :
            tx' = [tx EXCEPT ![i] = [Idle EXCEPT !.pc = "capture", !.at = inserted + n,
                                                 !.rows = rows]]
    BY <1>1 DEF Insert
  <2>3. tx'[i].pc = "capture" /\ \A j \in Ingests \ {i} : tx'[j] = tx[j]
    BY <2>2 DEF Types, Idle
  <2> QED
    BY <2>1, <2>3, StaysPosted
<1>2. ASSUME NEW i \in Ingests, Capture(i)
      PROVE  Posted'
  <2>1. Posted /\ mails' = mails /\ tx[i].pc = "capture"
    BY <1>2 DEF Capture, alertHistory
  <2>2. /\ \A j \in Ingests \ {i} : tx'[j] = tx[j]
        /\ tx'[i].rows = tx[i].rows /\ tx'[i].row = tx[i].row
        /\ tx'[i].restocking # {} => InStock(i)
    BY <1>2 DEF Capture, Types, TxState
  <2> QED
    BY <2>1, <2>2, StaysPosted DEF InStock
<1>3. ASSUME NEW i \in Ingests, Detect(i)
      PROVE  Posted'
  <2>1. Posted /\ mails' = mails /\ tx[i].pc = "detect"
    BY <1>3 DEF Detect, alertHistory
  <2>2. PICK pc : tx' = [tx EXCEPT ![i].pc = pc]
    BY <1>3 DEF Detect
  <2>3. /\ \A j \in Ingests \ {i} : tx'[j] = tx[j]
        /\ tx'[i].rows = tx[i].rows /\ tx'[i].row = tx[i].row
        /\ tx'[i].restocking = tx[i].restocking
    BY <2>2 DEF Types, TxState
  <2> QED
    BY <2>1, <2>3, StaysPosted DEF InStock, Posted
<1>4. ASSUME NEW i \in Ingests, Resolve(i)
      PROVE  Posted'
  <2>1. Posted /\ mails' = mails /\ tx[i].pc = "resolve"
    BY <1>4 DEF Resolve, alertHistory
  <2>2. /\ \A j \in Ingests \ {i} : tx'[j] = tx[j]
        /\ tx'[i].rows = tx[i].rows /\ tx'[i].row = tx[i].row
        /\ tx'[i].restocking = tx[i].restocking
    BY <1>4 DEF Resolve, Types, TxState
  <2> QED
    BY <2>1, <2>2, StaysPosted DEF InStock, Posted
<1>5. ASSUME NEW i \in Ingests, CreateAlerts(i)
      PROVE  Posted'
  <2>1. Posted /\ tx[i].pc = "create"
        /\ \A t \in Trackings : mails'[t] = mails[t] \/ mails'[t] = 0
    BY <1>5 DEF CreateAlerts
  <2>2. PICK made : tx' = [tx EXCEPT ![i].pc = "notify", ![i].made = made]
    BY <1>5 DEF CreateAlerts
  <2>3. /\ \A j \in Ingests \ {i} : tx'[j] = tx[j]
        /\ tx'[i].rows = tx[i].rows /\ tx'[i].row = tx[i].row
        /\ tx'[i].restocking = tx[i].restocking
    BY <2>2 DEF Types, TxState
  <2> QED
    BY <2>1, <2>3, StaysPosted DEF InStock, Posted
<1>6. ASSUME NEW i \in Ingests, Notify(i)
      PROVE  Posted'
  BY <1>6, NotifyPosted DEF Notify
<1>7. ASSUME NEW i \in Ingests, Commit(i)
      PROVE  Posted'
  BY <1>7, CommitPosted
<1>8. ASSUME NEW i \in Ingests, Rollback(i)
      PROVE  FALSE
  BY <1>8 DEF Rollback
<1>9. ASSUME UNCHANGED <<tx, disturbed, mails, failed>>
      PROVE  Posted'
  BY <1>9 DEF Posted, InStock
<1> QED
  BY <1>1, <1>2, <1>3, <1>4, <1>5, <1>6, <1>7, <1>8, <1>9 DEF AlertNext, Silence, alertVars

-----------------------------------------------------------------------------
\* The commit of an undisturbed transaction is a step of Outages, and no other
\* statement shows.
LEMMA WatchStep ==
    ASSUME AlertInv, [AlertNext]_alertVars
    PROVE  [Watch!Next \/ disturbed \/ disturbed']_<<StockSeen, OpenAlerts>>
<1> SUFFICES ASSUME ~disturbed
             PROVE  Watch!Next \/ UNCHANGED <<StockSeen, OpenAlerts>>
  OBVIOUS
<1>1. ASSUME UNCHANGED <<latest, active>>
      PROVE  UNCHANGED <<StockSeen, OpenAlerts>>
  BY <1>1 DEF StockSeen, OpenAlerts
<1>2. ASSUME NEW i \in Ingests, Commit(i)
      PROVE  Watch!Next \/ UNCHANGED <<StockSeen, OpenAlerts>>
  <2>1. Types /\ Steady /\ Settled
    BY DEF AlertInv, Steady
  <2>2. /\ latest'.stocks = {InStock(i)} /\ InStock(i) \in BOOLEAN
        /\ active' = Visible(i) /\ Decided(i)
    BY <1>2, <2>1, CommitEffect
  <2>a. ASSUME ~InStock(i)
        PROVE  StockSeen' = FALSE
    <3>1. InStock(i) = FALSE
      BY <2>2, <2>a, Zenon
    <3>2. latest'.stocks = {FALSE}
      BY <2>2, <3>1
    <3> QED
      BY <3>2 DEF StockSeen
  <2>3. active' \subseteq Alert
    BY <2>1, <2>2 DEF Types, TxState, Visible
  <2>4. CASE InStock(i) /\ Visible(i) = {}
    <3>1. StockSeen' = TRUE /\ OpenAlerts' = {}
      BY <2>2, <2>4 DEF StockSeen, OpenAlerts
    <3>2. CASE StockSeen
      <4>1. StockSeen = TRUE /\ OpenAlerts = {}
        BY <2>1, <3>2 DEF Settled, OpenAlerts, StockSeen
      <4> QED
        BY <3>1, <4>1
    <3>3. CASE ~StockSeen
      BY <3>1, <3>3 DEF Watch!Next, Watch!ComesBack
    <3> QED
      BY <3>2, <3>3
  <2>5. CASE ~InStock(i) /\ ~StockSeen /\ Visible(i) = active
    <3>1. StockSeen' = FALSE
      BY <2>a, <2>5
    <3>a. StockSeen = FALSE
      <4>1. latest.stocks = {FALSE}
        BY <2>1, <2>5 DEF Settled, StockSeen
      <4> QED
        BY <4>1 DEF StockSeen
    <3>2. OpenAlerts' = OpenAlerts
      BY <2>2, <2>5 DEF OpenAlerts
    <3> QED
      BY <3>1, <3>a, <3>2
  <2>6. CASE ~InStock(i) /\ StockSeen
    <3>1. StockSeen' = FALSE
      BY <2>a, <2>6
    <3>2. OpenAlerts' \in SUBSET Trackings
      BY <2>3 DEF OpenAlerts, Alert
    <3> QED
      BY <2>6, <3>1, <3>2 DEF Watch!Next, Watch!GoesOut
  <2> QED
    BY <2>2, <2>4, <2>5, <2>6 DEF Decided
<1> QED
  BY <1>1, <1>2 DEF AlertNext, alertVars, Insert, Capture, Detect, Resolve, CreateAlerts,
     Notify, Rollback, Silence

LEMMA AlertInvInit ==
    ASSUME AlertInit
    PROVE  AlertInv
<1>1. Idle \in TxState /\ Idle.pc = "idle" /\ Idle.at = 0 /\ Idle.restocking = {}
  BY DEF Idle, TxState
<1>2. Types
  BY <1>1 DEF AlertInit, Types
<1>3. Stamped
  BY <1>1 DEF AlertInit, Stamped
<1>4. Steady
  BY <1>1 DEF AlertInit, Steady, Settled, StockSeen
<1>5. Posted
  BY <1>1 DEF AlertInit, Posted
<1> QED
  BY <1>2, <1>3, <1>4, <1>5 DEF AlertInv

LEMMA AlertInvariant == AlertSpec => []AlertInv
<1>1. AlertInv /\ [AlertNext]_alertVars => AlertInv'
  BY TypesStep, StampedStep, SteadyStep, PostedStep DEF AlertInv
<1> QED
  BY <1>1, AlertInvInit, PTL DEF AlertSpec

\* While the URL is out of stock every tracking not silenced since has an alert.
THEOREM OutagesAlerted == AlertSpec => []OutageAlerted
<1>1. AlertInv => OutageAlerted
  BY DEF AlertInv, Steady, Settled, AlertedBy, OutageAlerted, OpenAlerts
<1> QED
  BY <1>1, AlertInvariant, PTL

\* An outage of a tracking ends with one restock mail at most.
THEOREM RestockMails == AlertSpec => []RestockMailedOnce
<1>1. AlertInv => RestockMailedOnce
  BY DEF AlertInv, Posted, RestockMailedOnce
<1> QED
  BY <1>1, AlertInvariant, PTL

\* The statements of the ingests implement Outages until two of them overlap,
\* and again from the next time the URL is in stock without alerts.
THEOREM AlertsWatchOutages == AlertSpec => WatchesOutages
<1>1. AlertInit => Watch!Init
  <2> SUFFICES ASSUME AlertInit
               PROVE  Watch!Init
    OBVIOUS
  <2>1. StockSeen = TRUE
    BY DEF AlertInit, StockSeen
  <2>2. OpenAlerts = {}
    BY DEF AlertInit, OpenAlerts
  <2> QED
    BY <2>1, <2>2 DEF Watch!Init
<1>2. AlertInv /\ [AlertNext]_alertVars
        => [Watch!Next \/ disturbed \/ disturbed']_<<StockSeen, OpenAlerts>>
  BY WatchStep
<1> QED
  BY <1>1, <1>2, AlertInvariant, PTL DEF AlertSpec, WatchesOutages

-----------------------------------------------------------------------------
(***************************************************************************)
(* The exact ranges: rows are numbered up to the last insert, and the      *)
(* transactions' alerts are of rows inserted.                              *)
(***************************************************************************)
Row == Trackings \X (1..MaxRows)

RangeOf(x, n) ==
    /\ x.pc # "idle" => x.at \in 1..n /\ x.row \in DOMAIN x.rows
    /\ x.made \cup x.restocking \cup x.resolved \subseteq Row

Ranges ==
    /\ inserted \in 0..MaxRows
    /\ latest \in [at : 0..MaxRows, stocks : (SUBSET BOOLEAN) \ {{}}]
    /\ active \subseteq Row
    /\ silenced \subseteq Trackings
    /\ \A i \in Ingests : RangeOf(tx[i], inserted)
    /\ disturbed \in BOOLEAN /\ failed \in BOOLEAN
    /\ touched \subseteq Trackings
    /\ mails \in [Trackings -> 0..2]

\* One transaction changes, and no row is taken back.
LEMMA RangeOfChanged ==
    ASSUME Types, Ranges, NEW i \in Ingests, NEW x, tx' = [tx EXCEPT ![i] = x],
           inserted' \in Nat, inserted <= inserted', RangeOf(x, inserted')
    PROVE  \A j \in Ingests : RangeOf(tx'[j], inserted')
<1> SUFFICES ASSUME NEW j \in Ingests PROVE RangeOf(tx'[j], inserted')
  OBVIOUS
<1>1. tx'[i] = x /\ (j # i => tx'[j] = tx[j])
  BY DEF Types
<1>2. RangeOf(tx[j], inserted) /\ inserted \in Nat
  BY DEF Ranges, Types
<1>3. RangeOf(tx[j], inserted')
  BY <1>2 DEF RangeOf
<1> QED
  BY <1>1, <1>3

LEMMA IdleRange ==
    ASSUME NEW n \in Nat
    PROVE  RangeOf(Idle, n)
BY DEF RangeOf, Idle

LEMMA RangesStep ==
    ASSUME Types, Ranges, [AlertNext]_alertVars
    PROVE  Ranges'
<1>0. inserted \in Nat /\ MaxRows \in Nat /\ inserted <= MaxRows
  BY AlertsAssumption DEF Types, Ranges
<1>a. ASSUME NEW i \in Ingests
      PROVE  /\ tx[i] \in TxState /\ RangeOf(tx[i], inserted)
             /\ Visible(i) \subseteq Row
             /\ tx[i].pc # "idle" => tx[i].at \in 1..MaxRows
  <2>1. tx[i] \in TxState /\ RangeOf(tx[i], inserted)
    BY DEF Types, Ranges
  <2>2. active \subseteq Row
    BY DEF Ranges
  <2> QED
    BY <1>0, <2>1, <2>2 DEF RangeOf, Visible
<1>b. ASSUME NEW i \in Ingests, NEW x, tx' = [tx EXCEPT ![i] = x], inserted' = inserted,
             RangeOf(x, inserted')
      PROVE  \A j \in Ingests : RangeOf(tx'[j], inserted')
  <2>1. inserted' \in Nat /\ inserted <= inserted'
    BY <1>0, <1>b
  <2> QED
    BY <1>b, <2>1, RangeOfChanged, Zenon
<1>1. ASSUME NEW i \in Ingests, Insert(i)
      PROVE  Ranges'
  <2>1. PICK n \in BatchSizes : \E rows \in [1..n -> BOOLEAN] :
            /\ inserted + n <= MaxRows
            /\ inserted' = inserted + n
            /\ tx' = [tx EXCEPT ![i] = [Idle EXCEPT !.pc = "capture", !.at = inserted + n,
                                                    !.rows = rows]]
            /\ disturbed' = (disturbed \/ n > 1 \/ Others(i) # {})
    BY <1>1 DEF Insert
  <2>2. PICK rows \in [1..n -> BOOLEAN] :
            tx' = [tx EXCEPT ![i] = [Idle EXCEPT !.pc = "capture", !.at = inserted + n,
                                                 !.rows = rows]]
    BY <2>1
  <2>3. n \in {1, 2} /\ DOMAIN rows = 1..n
    BY AlertsAssumption
  <2>4. PICK last \in 1..MaxRows : last = inserted + n /\ inserted' = last /\ inserted <= last
    BY <1>0, <2>1, <2>3
  <2>5. PICK x : x = [Idle EXCEPT !.pc = "capture", !.at = last, !.rows = rows]
    OBVIOUS
  <2>6. /\ x.at = last /\ x.row = 1 /\ x.rows = rows /\ x.made = {} /\ x.restocking = {}
        /\ x.resolved = {}
    BY <2>5 DEF Idle
  <2>7. RangeOf(x, inserted')
    BY <2>3, <2>4, <2>6 DEF RangeOf
  <2>8. \A j \in Ingests : RangeOf(tx'[j], inserted')
    <3>1. inserted' \in Nat /\ inserted <= inserted'
      BY <2>4
    <3>2. tx' = [tx EXCEPT ![i] = x]
      BY <2>2, <2>4, <2>5
    <3> QED
      BY <2>7, <3>1, <3>2, RangeOfChanged, Zenon
  <2>9. disturbed' \in BOOLEAN
    BY <2>1
  <2> QED
    BY <1>1, <2>4, <2>8, <2>9 DEF Insert, Ranges
<1>2. ASSUME NEW i \in Ingests, Capture(i)
      PROVE  Ranges'
  <2>1. PICK seen : /\ seen \subseteq Visible(i)
                    /\ tx' = [tx EXCEPT ![i].pc = "detect", ![i].restocking = seen]
    BY <1>2 DEF Capture
  <2>2. PICK x : x = [tx[i] EXCEPT !.pc = "detect", !.restocking = seen]
    OBVIOUS
  <2>3. tx' = [tx EXCEPT ![i] = x]
    BY <2>1, <2>2
  <2>4. /\ x.at = tx[i].at /\ x.row = tx[i].row /\ x.rows = tx[i].rows
        /\ x.made = tx[i].made /\ x.restocking = seen /\ x.resolved = tx[i].resolved
    BY <1>a, <2>2 DEF TxState
  <2>5. tx[i].pc # "idle" /\ inserted' = inserted
    BY <1>2 DEF Capture
  <2>6. RangeOf(x, inserted')
    BY <1>a, <2>1, <2>4, <2>5 DEF RangeOf
  <2>7. \A j \in Ingests : RangeOf(tx'[j], inserted')
    BY <2>3, <2>5, <2>6, <1>b, Zenon
  <2> QED
    BY <1>2, <2>7 DEF Capture, Ranges, alertHistory
<1>3. ASSUME NEW i \in Ingests, Detect(i)
      PROVE  Ranges'
  <2>1. PICK pc : tx' = [tx EXCEPT ![i].pc = pc]
    BY <1>3 DEF Detect
  <2>2. PICK x : x = [tx[i] EXCEPT !.pc = pc]
    OBVIOUS
  <2>3. tx' = [tx EXCEPT ![i] = x]
    BY <2>1, <2>2
  <2>4. /\ x.at = tx[i].at /\ x.row = tx[i].row /\ x.rows = tx[i].rows
        /\ x.made = tx[i].made /\ x.restocking = tx[i].restocking
        /\ x.resolved = tx[i].resolved
    BY <1>a, <2>2 DEF TxState
  <2>5. tx[i].pc # "idle" /\ inserted' = inserted
    BY <1>3 DEF Detect
  <2>6. RangeOf(x, inserted')
    BY <1>a, <2>4, <2>5 DEF RangeOf
  <2>7. \A j \in Ingests : RangeOf(tx'[j], inserted')
    BY <2>3, <2>5, <2>6, <1>b, Zenon
  <2> QED
    BY <1>3, <2>7 DEF Detect, Ranges, alertHistory
<1>4. ASSUME NEW i \in Ingests, Resolve(i)
      PROVE  Ranges'
  <2>1. PICK x : x = [tx[i] EXCEPT !.pc = "notify", !.made = {},
                                   !.resolved = tx[i].resolved \cup Visible(i)]
    OBVIOUS
  <2>2. tx' = [tx EXCEPT ![i] = x]
    BY <1>4, <2>1 DEF Resolve
  <2>3. /\ x.at = tx[i].at /\ x.row = tx[i].row /\ x.rows = tx[i].rows
        /\ x.made = {} /\ x.restocking = tx[i].restocking
        /\ x.resolved = tx[i].resolved \cup Visible(i)
    BY <1>a, <2>1 DEF TxState
  <2>4. tx[i].pc # "idle" /\ inserted' = inserted
    BY <1>4 DEF Resolve
  <2>5. RangeOf(x, inserted')
    BY <1>a, <2>3, <2>4 DEF RangeOf
  <2>6. \A j \in Ingests : RangeOf(tx'[j], inserted')
    BY <2>2, <2>4, <2>5, <1>b, Zenon
  <2> QED
    BY <1>4, <2>6 DEF Resolve, Ranges, alertHistory
<1>5. ASSUME NEW i \in Ingests, tx' = [tx EXCEPT ![i] = Idle], inserted' = inserted
      PROVE  \A j \in Ingests : RangeOf(tx'[j], inserted')
  <2>1. RangeOf(Idle, inserted')
    BY <1>0, <1>5, IdleRange
  <2> QED
    BY <1>5, <2>1, <1>b, Zenon
<1>6. ASSUME NEW i \in Ingests, CreateAlerts(i)
      PROVE  Ranges'
  <2>1. CASE tx' = [tx EXCEPT ![i] = Idle] /\ mails' = mails /\ failed' = TRUE
    <3>1. \A j \in Ingests : RangeOf(tx'[j], inserted')
      BY <1>5, <1>6, <2>1 DEF CreateAlerts
    <3> QED
      BY <1>6, <2>1, <3>1 DEF CreateAlerts, Ranges
  <2>2. CASE \E fresh \in SUBSET Trackings :
               /\ tx' = [tx EXCEPT ![i].pc = "notify",
                                   ![i].made = @ \cup (fresh \X {tx[i].at})]
               /\ mails' = [t \in Trackings |-> IF t \in fresh THEN 0 ELSE mails[t]]
               /\ failed' = failed
    <3>1. PICK fresh \in SUBSET Trackings :
               /\ tx' = [tx EXCEPT ![i].pc = "notify",
                                   ![i].made = @ \cup (fresh \X {tx[i].at})]
               /\ mails' = [t \in Trackings |-> IF t \in fresh THEN 0 ELSE mails[t]]
               /\ failed' = failed
      BY <2>2
    <3>2. PICK x : x = [tx[i] EXCEPT !.pc = "notify",
                                     !.made = tx[i].made \cup (fresh \X {tx[i].at})]
      OBVIOUS
    <3>3. tx' = [tx EXCEPT ![i] = x]
      BY <3>1, <3>2
    <3>4. /\ x.at = tx[i].at /\ x.row = tx[i].row /\ x.rows = tx[i].rows
          /\ x.made = tx[i].made \cup (fresh \X {tx[i].at})
          /\ x.restocking = tx[i].restocking /\ x.resolved = tx[i].resolved
      BY <1>a, <3>2 DEF TxState
    <3>5. tx[i].pc # "idle" /\ inserted' = inserted
      BY <1>6 DEF CreateAlerts
    <3>6. fresh \X {tx[i].at} \subseteq Row
      BY <1>a, <3>5 DEF Row
    <3>7. RangeOf(x, inserted')
      BY <1>a, <3>4, <3>5, <3>6 DEF RangeOf
    <3>8. \A j \in Ingests : RangeOf(tx'[j], inserted')
      BY <3>3, <3>5, <3>7, <1>b, Zenon
    <3>9. mails' \in [Trackings -> 0..2]
      BY <3>1 DEF Ranges
    <3> QED
      BY <1>6, <3>1, <3>8, <3>9 DEF CreateAlerts, Ranges
  <2> QED
    BY <1>6, <2>1, <2>2 DEF CreateAlerts
<1>7. ASSUME NEW i \in Ingests, Notify(i)
      PROVE  Ranges'
  <2>1. tx[i] \in TxState /\ Len(tx[i].rows) \in Nat
        /\ DOMAIN tx[i].rows = 1..Len(tx[i].rows)
    BY <1>a, LenProperties DEF TxState
  <2>a. PICK pc : pc = IF tx[i].row < Len(tx[i].rows) THEN "capture" ELSE "commit"
    OBVIOUS
  <2>b. PICK row : row = IF tx[i].row < Len(tx[i].rows) THEN tx[i].row + 1 ELSE tx[i].row
    OBVIOUS
  <2>2. tx' = [tx EXCEPT ![i] = [tx[i] EXCEPT !.restocking = {}, !.pc = pc, !.row = row]]
    BY <1>7, <2>a, <2>b DEF Notify
  <2>3. PICK x : x = [tx[i] EXCEPT !.restocking = {}, !.pc = pc, !.row = row]
    OBVIOUS
  <2>4. /\ x.at = tx[i].at /\ x.row = row /\ x.rows = tx[i].rows
        /\ x.made = tx[i].made /\ x.restocking = {} /\ x.resolved = tx[i].resolved
    BY <2>1, <2>3 DEF TxState
  <2>5. tx[i].pc # "idle" /\ inserted' = inserted
    BY <1>7 DEF Notify
  <2>6. tx[i].row \in DOMAIN tx[i].rows
    BY <1>a, <2>5 DEF RangeOf
  <2>7. row \in DOMAIN tx[i].rows
    BY <2>1, <2>b, <2>6
  <2>8. RangeOf(x, inserted')
    BY <1>a, <2>4, <2>5, <2>7 DEF RangeOf
  <2>9. \A j \in Ingests : RangeOf(tx'[j], inserted')
    BY <2>2, <2>3, <2>5, <2>8, <1>b, Zenon
  <2>10. mails' \in [Trackings -> 0..2]
    BY <1>7 DEF Notify, Ranges
  <2> QED
    BY <1>7, <2>9, <2>10 DEF Notify, Ranges
<1>8. ASSUME NEW i \in Ingests, Commit(i)
      PROVE  Ranges'
  <2>1. \A j \in Ingests : RangeOf(tx'[j], inserted')
    BY <1>5, <1>8 DEF Commit
  <2>2. /\ tx[i].at \in 1..MaxRows /\ tx[i].row \in DOMAIN tx[i].rows
        /\ {tx[i].rows[r] : r \in DOMAIN tx[i].rows} \subseteq BOOLEAN
    <3>1. tx[i] \in TxState /\ RangeOf(tx[i], inserted) /\ tx[i].pc = "commit"
      BY <1>8, <1>a DEF Commit
    <3>2. tx[i].rows \in Seq(BOOLEAN)
      BY <3>1 DEF TxState
    <3>3. \A r \in DOMAIN tx[i].rows : tx[i].rows[r] \in BOOLEAN
      BY <3>2, LenProperties, ElementOfSeq
    <3> QED
      BY <1>a, <3>1, <3>3 DEF RangeOf
  <2>3. latest' \in [at : 0..MaxRows, stocks : (SUBSET BOOLEAN) \ {{}}]
    <3>1. PICK stocks : stocks = {tx[i].rows[r] : r \in DOMAIN tx[i].rows}
      OBVIOUS
    <3>2. stocks \in (SUBSET BOOLEAN) \ {{}} /\ tx[i].at \in 0..MaxRows
      <4>1. tx[i].rows[tx[i].row] \in stocks
        BY <2>2, <3>1
      <4>2. stocks \subseteq BOOLEAN /\ stocks # {}
        BY <2>2, <3>1, <4>1, Zenon
      <4>3. tx[i].at \in 0..MaxRows
        BY <1>0, <2>2
      <4> QED
        BY <4>2, <4>3, Zenon
    <3>3. latest' = [at |-> tx[i].at, stocks |-> stocks] \/ latest' = latest
      BY <1>8, <3>1 DEF Commit
    <3> QED
      BY <3>2, <3>3 DEF Ranges
  <2>4. active' \subseteq Row
    BY <1>8, <1>a DEF Commit
  <2>5. /\ disturbed' \in BOOLEAN /\ failed' \in BOOLEAN /\ touched' \subseteq Trackings
        /\ mails' \in [Trackings -> 0..2]
    <3>1. CASE failed' = FALSE /\ disturbed' = FALSE /\ touched' = {}
               /\ mails' = [t \in Trackings |-> 0]
      <4>1. mails' \in [Trackings -> 0..2]
        BY <3>1
      <4> QED
        BY <3>1, <4>1, Zenon
    <3>2. CASE UNCHANGED alertHistory
      BY <3>2, Zenon DEF Ranges, alertHistory
    <3> QED
      BY <1>8, <3>1, <3>2, Zenon DEF Commit
  <2> QED
    BY <1>8, <2>1, <2>3, <2>4, <2>5 DEF Commit, Ranges
<1>9. ASSUME NEW i \in Ingests, Rollback(i)
      PROVE  Ranges'
  <2>1. \A j \in Ingests : RangeOf(tx'[j], inserted')
    BY <1>5, <1>9 DEF Rollback
  <2> QED
    BY <1>9, <2>1 DEF Rollback, Ranges
<1>10. ASSUME NEW t \in Trackings, Silence(t)
       PROVE  Ranges'
  <2>1. tx' = tx /\ inserted' = inserted
    BY <1>10 DEF Silence
  <2> QED
    BY <1>10, <2>1 DEF Silence, Ranges, RangeOf
<1>11. CASE UNCHANGED alertVars
  BY <1>11 DEF Ranges, RangeOf, alertVars
<1> QED
  BY <1>1, <1>2, <1>3, <1>4, <1>6, <1>7, <1>8, <1>9, <1>10, <1>11 DEF AlertNext

\* Every variable of the detection has its type, however the ingests of the URL
\* overlap: a row is stamped by its insert, and alerts belong to rows inserted.
THEOREM AlertTypeCorrect == AlertSpec => []AlertTypeOK
<1>1. AlertInit => Ranges
  <2> SUFFICES ASSUME AlertInit PROVE Ranges
    OBVIOUS
  <2>1. 0 \in 0..MaxRows /\ 0 \in Nat
    BY AlertsAssumption
  <2>3. {TRUE} \in (SUBSET BOOLEAN) \ {{}}
    BY Zenon
  <2>4. latest \in [at : 0..MaxRows, stocks : (SUBSET BOOLEAN) \ {{}}]
    BY <2>1, <2>3 DEF AlertInit
  <2>5. disturbed \in BOOLEAN /\ failed \in BOOLEAN
    BY Zenon DEF AlertInit
  <2>6. mails \in [Trackings -> 0..2]
    BY DEF AlertInit
  <2>2. \A i \in Ingests : RangeOf(tx[i], inserted)
    <3>1. inserted = 0 /\ \A i \in Ingests : tx[i] = Idle
      BY DEF AlertInit
    <3> QED
      BY <2>1, <3>1, IdleRange
  <2> QED
    BY <2>1, <2>2, <2>4, <2>5, <2>6 DEF AlertInit, Ranges
<1>2. AlertInv /\ Ranges /\ [AlertNext]_alertVars => Ranges'
  BY RangesStep DEF AlertInv
<1>3. AlertInv /\ Ranges => AlertTypeOK
  <2> SUFFICES ASSUME AlertInv, Ranges PROVE AlertTypeOK
    OBVIOUS
  <2>1. ASSUME NEW i \in Ingests
        PROVE  /\ tx[i].pc \in {"idle", "capture", "detect", "resolve", "create",
                                "notify", "commit"}
               /\ RangeOf(tx[i], inserted)
    BY DEF AlertInv, Types, TxState, Ranges
  <2> QED
    BY <2>1 DEF Ranges, RangeOf, Row, AlertTypeOK
<1> QED
  BY <1>1, <1>2, <1>3, AlertInvariant, PTL DEF AlertSpec
=============================================================================
