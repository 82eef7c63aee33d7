------------------------------- MODULE Alerts -------------------------------
(***************************************************************************)
(* Out-of-stock alerts of one competitor URL: dispatch_on_snapshot and     *)
(* signals/oos_detector.py, one SQL statement per step, inside the         *)
(* transactions of routers/internal.py at READ COMMITTED.                  *)
(*                                                                         *)
(* A reading that repeats the last stored price and stock is dropped       *)
(* before the insert and changes nothing here, so a transaction starts     *)
(* with the one or two new rows of its batch.                              *)
(***************************************************************************)
EXTENDS Naturals, Sequences, FiniteSets

CONSTANTS
    Trackings,     \* competitor_trackings of the URL, of different products
    Ingests,       \* API processes
    MaxRows,       \* bound on the rows inserted
    BatchSizes     \* the numbers of new rows of the URL in a batch

ASSUME AlertsAssumption ==
    /\ MaxRows \in Nat
    /\ BatchSizes \subseteq {1, 2}

VARIABLES
    inserted,      \* rows inserted so far; stands for scraped_at
    latest,     \* the committed rows of the greatest scraped_at
    active,     \* committed un-resolved alerts, as tracking and transaction
    silenced,   \* trackings with silenced_oos
    tx,         \* the transaction of each process
    disturbed,  \* alertHistory: ingests overlapped or shared a batch since all was quiet
    touched,    \* alertHistory: trackings toggled since the URL was last in stock
    mails,      \* alertHistory: restock mails since the alert of each tracking
    failed      \* alertHistory: a transaction rolled back

alertVars == <<inserted, latest, active, silenced, tx, disturbed, touched, mails, failed>>
alertHistory == <<disturbed, touched, mails, failed>>

Idle == [pc |-> "idle", at |-> 0, rows |-> <<>>, row |-> 1, restocking |-> {},
         made |-> {}, resolved |-> {}]

AlertInit ==
    /\ inserted = 0
    /\ latest = [at |-> 0, stocks |-> {TRUE}]
    /\ active = {}
    /\ silenced = {}
    /\ tx = [i \in Ingests |-> Idle]
    /\ disturbed = FALSE
    /\ touched = {}
    /\ mails = [t \in Trackings |-> 0]
    /\ failed = FALSE

Others(i) == {j \in Ingests \ {i} : tx[j].pc # "idle"}
InStock(i) == tx[i].rows[tx[i].row]

\* What transaction i sees: the committed alerts under its own writes.
Visible(i) == (active \ tx[i].resolved) \cup tx[i].made

\* The stock of the latest other row, as transaction i sees it: its own other
\* row has the same scraped_at, and another process may have committed a later
\* row meanwhile.  No row at all counts as in stock.
PreviousInStock(i) ==
    IF Len(tx[i].rows) = 2 /\ latest.at < tx[i].at
    THEN {tx[i].rows[3 - tx[i].row]}
    ELSE latest.stocks

\* Fault: no earlier row does not count as in stock.
IsOosTransitionKnown(current, previous) == ~current /\ previous /\ latest.at > 0

IsOosTransition(current, previous) == ~current /\ previous
IsRestock(current, previous) == current /\ ~previous
-----------------------------------------------------------------------------
\* The insert of the new rows of a batch, all with one scraped_at.
Insert(i) ==
    /\ tx[i].pc = "idle"
    /\ \E n \in BatchSizes : \E rows \in [1..n -> BOOLEAN] :
          /\ inserted + n <= MaxRows
          /\ inserted' = inserted + n
          /\ tx' = [tx EXCEPT ![i] = [Idle EXCEPT !.pc = "capture", !.at = inserted + n,
                                                  !.rows = rows]]
          /\ disturbed' = (disturbed \/ n > 1 \/ Others(i) # {})
    /\ UNCHANGED <<latest, active, silenced, touched, mails, failed>>

\* dispatch_on_snapshot reads the alerts that a restock is about to resolve.
Capture(i) ==
    /\ tx[i].pc = "capture"
    /\ tx' = [tx EXCEPT ![i].pc = "detect",
                        ![i].restocking = IF InStock(i) THEN Visible(i) ELSE {}]
    /\ UNCHANGED <<inserted, latest, active, silenced, alertHistory>>

Detect(i) ==
    /\ tx[i].pc = "detect"
    /\ \E previous \in PreviousInStock(i) :
          tx' = [tx EXCEPT ![i].pc =
                    CASE IsRestock(InStock(i), previous) -> "resolve"
                      [] IsOosTransition(InStock(i), previous) -> "create"
                      [] OTHER -> "notify"]
    /\ UNCHANGED <<inserted, latest, active, silenced, alertHistory>>

\* Fault: alerts of silenced trackings are not resolved.
ResolveUnsilenced(i) ==
    /\ tx[i].pc = "resolve"
    /\ LET seen == {a \in Visible(i) : a[1] \notin silenced}
       IN  tx' = [tx EXCEPT ![i].pc = "notify", ![i].made = @ \ seen,
                            ![i].resolved = @ \cup seen]
    /\ UNCHANGED <<inserted, latest, active, silenced, alertHistory>>

\* Fault: the query returns one alert.
ResolveOne(i) ==
    /\ tx[i].pc = "resolve"
    /\ \E seen \in {{a} : a \in Visible(i)} \cup {{}} :
          /\ seen = {} => Visible(i) = {}
          /\ tx' = [tx EXCEPT ![i].pc = "notify", ![i].made = @ \ seen,
                              ![i].resolved = @ \cup seen]
    /\ UNCHANGED <<inserted, latest, active, silenced, alertHistory>>

Resolve(i) ==
    /\ tx[i].pc = "resolve"
    /\ tx' = [tx EXCEPT ![i].pc = "notify", ![i].made = {},
                        ![i].resolved = @ \cup Visible(i)]
    /\ UNCHANGED <<inserted, latest, active, silenced, alertHistory>>

\* One alert for each tracking that is not silenced and has none.  The lookup
\* accepts at most one row: with two active alerts of a tracking it raises, and
\* the transaction rolls back.  Silencing between the two SELECTs is as if it
\* came before or after both.
CreateAlerts(i) ==
    LET alertsOf(t) == {a \in Visible(i) : a[1] = t}
        watching == Trackings \ silenced
        fresh == {t \in watching : alertsOf(t) = {}}
    IN  /\ tx[i].pc = "create"
        /\ \/ /\ \A t \in watching : Cardinality(alertsOf(t)) <= 1
              /\ tx' = [tx EXCEPT ![i].pc = "notify",
                                  ![i].made = @ \cup (fresh \X {tx[i].at})]
              /\ mails' = [t \in Trackings |-> IF t \in fresh THEN 0 ELSE mails[t]]
              /\ UNCHANGED failed
           \/ /\ \E t \in watching : Cardinality(alertsOf(t)) > 1
              /\ tx' = [tx EXCEPT ![i] = Idle]
              /\ failed' = TRUE
              /\ UNCHANGED mails
        /\ UNCHANGED <<inserted, latest, active, silenced, disturbed, touched>>

\* The mails of this row, sent before the commit: a restock mail for every
\* tracking whose alert was captured, whether or not it has been resolved.
Notify(i) ==
    /\ tx[i].pc = "notify"
    /\ LET mailed == {a[1] : a \in tx[i].restocking}
       IN  mails' = [t \in Trackings |->
                        IF t \in mailed /\ mails[t] < 2 THEN mails[t] + 1 ELSE mails[t]]
    /\ tx' = [tx EXCEPT ![i].restocking = {},
                        ![i].pc = IF tx[i].row < Len(tx[i].rows) THEN "capture" ELSE "commit",
                        ![i].row = IF @ < Len(tx[i].rows) THEN @ + 1 ELSE @]
    /\ UNCHANGED <<inserted, latest, active, silenced, disturbed, touched, failed>>

\* The URL is in stock, without alerts, and nothing is under way: whatever was
\* disturbed before is over.
Quiet(i) == Others(i) = {} /\ latest'.stocks = {TRUE} /\ active' = {}

Commit(i) ==
    /\ tx[i].pc = "commit"
    /\ latest' = IF tx[i].at > latest.at
                 THEN [at |-> tx[i].at,
                       stocks |-> {tx[i].rows[r] : r \in DOMAIN tx[i].rows}]
                 ELSE latest
    /\ active' = Visible(i)
    /\ tx' = [tx EXCEPT ![i] = Idle]
    /\ \/ /\ Quiet(i)
          /\ disturbed' = FALSE /\ failed' = FALSE
          /\ touched' = {}
          /\ mails' = [t \in Trackings |-> 0]
       \/ /\ ~Quiet(i)
          /\ UNCHANGED alertHistory
    /\ UNCHANGED <<inserted, silenced>>

\* Any later statement, or the commit, fails; the mails have been sent.
Rollback(i) ==
    /\ tx[i].pc # "idle"
    /\ tx' = [tx EXCEPT ![i] = Idle]
    /\ failed' = TRUE
    /\ UNCHANGED <<inserted, latest, active, silenced, disturbed, touched, mails>>

\* PATCH /alerts/{id}/silence and /competitors/{id}/silence-oos.
Silence(t) ==
    /\ \E s \in {silenced \cup {t}, silenced \ {t}} : s # silenced /\ silenced' = s
    /\ touched' = touched \cup {t}
    /\ UNCHANGED <<inserted, latest, active, tx, disturbed, mails, failed>>

AlertNext ==
    \/ \E i \in Ingests :
          \/ Insert(i) \/ Capture(i) \/ Detect(i) \/ Resolve(i)
          \/ CreateAlerts(i) \/ Notify(i) \/ Commit(i) \/ Rollback(i)
    \/ \E t \in Trackings : Silence(t)

AlertSpec == AlertInit /\ [][AlertNext]_alertVars
-----------------------------------------------------------------------------
AlertTypeOK ==
    /\ inserted \in 0..MaxRows
    /\ latest \in [at : 0..MaxRows, stocks : (SUBSET BOOLEAN) \ {{}}]
    /\ active \subseteq Trackings \X (1..MaxRows)
    /\ silenced \subseteq Trackings
    /\ \A i \in Ingests :
          /\ tx[i].pc \in {"idle", "capture", "detect", "resolve", "create",
                           "notify", "commit"}
          /\ tx[i].pc # "idle" => tx[i].at \in 1..inserted /\ tx[i].row \in DOMAIN tx[i].rows
          /\ tx[i].made \cup tx[i].restocking \cup tx[i].resolved
                \subseteq Trackings \X (1..MaxRows)
    /\ disturbed \in BOOLEAN /\ failed \in BOOLEAN
    /\ touched \subseteq Trackings
    /\ mails \in [Trackings -> 0..2]

\* The committed state as Outages sees it.
StockSeen == TRUE \in latest.stocks
OpenAlerts == {a[1] : a \in active}
Watch == INSTANCE Outages WITH stock <- StockSeen, open <- OpenAlerts

\* The statements of concurrent transactions implement Outages as long as
\* ingests of the URL neither overlap nor carry two new rows of it: alerts open
\* only in the commit that records the outage, and all close in the one that
\* ends it, whatever fails or is silenced in between.  After a disturbance the
\* promise holds again once the URL is in stock without open alerts.
WatchesOutages ==
    Watch!Init /\ [][Watch!Next \/ disturbed \/ disturbed']_<<StockSeen, OpenAlerts>>

\* is_oos_transition and _has_active_alert: while the URL is out of stock every
\* tracking that has not been silenced since it was in stock has an alert,
\* though the ingests that said so failed and were repeated.  The second outage of a
\* flap has a new one, too: the restock between has resolved the first.  That is what
\* the code does; oos_detector.py:8-11 and docs/FEATURES.md:108 say otherwise, which
\* is FlapAlertedOnce of MCFlap.
OutageAlerted ==
    ~disturbed /\ ~StockSeen =>
        \A t \in Trackings \ (silenced \cup touched) : t \in OpenAlerts

\* dispatch_on_snapshot mails a restock whenever it has captured an alert, also
\* when nothing is resolved: each outage of a tracking still ends with one mail,
\* unless ingests overlapped or a transaction that had mailed rolled back.
RestockMailedOnce ==
    ~disturbed /\ ~failed => \A t \in Trackings : mails[t] <= 1
=============================================================================
